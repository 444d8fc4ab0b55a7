--------------------------- MODULE GraphiQLSystem ---------------------------
(***************************************************************************)
(* The GraphiQL page and the GraphQL application behind it: a request      *)
(* travels to GraphQLSampleController, which executes it on the request's  *)
(* thread; the operation `createName` is the mutation createVendor.        *)
(* Requests can be lost on either way, and those of a page that was closed *)
(* are executed all the same.                                              *)
(***************************************************************************)
EXTENDS GraphiQLPanes, VendorStore

CONSTANTS createName

VARIABLE network   \* createVendor requests the application has not begun

vars == <<pageVars, paneVars, storeVars, network>>

\* The operation graphql-java executes: the named one, or the only one.
Executed(r) ==
    LET ops == operationsOf[r.query]
    IN  IF ops = Unparseable THEN undefined
        ELSE IF r.operationName = undefined
        THEN IF Len(ops) = 1 THEN ops[1] ELSE undefined
        ELSE IF r.operationName \in Range(ops) THEN r.operationName
        ELSE undefined

Creates(r) == Executed(r) = createName

SystemInit == Init /\ PanesInit /\ StoreInit /\ network = {}

\* The query is run by Ctrl-Enter, by the button or from its menu.
Run ==
    /\ \/ \E selected \in Selections :
              HandleRunQuery(selected) /\ UNCHANGED paneVars
       \/ OnClick
       \/ \E operation \in Selections : OnOptionSelected(operation)
    /\ network' = network \union {r \in requests' \ requests : Creates(r)}
    /\ UNCHANGED storeVars

\* singleRequest: the controller takes the request; executeAsync runs the
\* resolver on the same thread.
SingleRequest(r) ==
    /\ r \in network
    /\ network' = network \ {r}
    /\ CreateBegin(r)
    /\ UNCHANGED <<pageVars, paneVars>>

EndCreate(v) ==
    /\ CreateEnd(v)
    /\ UNCHANGED <<pageVars, paneVars, network>>

Result(r) ==
    /\ Creates(r) => \E v \in created : v.by = r
    /\ ResultArrives(r)
    /\ UNCHANGED <<paneVars, storeVars, network>>

Failure(r) ==
    /\ FetchFails(r)
    /\ network' \in {network, network \ {r}}
    /\ UNCHANGED <<paneVars, storeVars>>

\* The page is closed and opened again.
OpenAgain == Reload /\ PanesOpened(PanesStored)

\* The browser dies and restores the page.
Restore == Crash /\ PanesOpened(paneStorage)

Browser ==
    \/ SchemaArrives \/ IntrospectionFallsBack \/ IntrospectionFails
    \/ \E q \in Queries : HandleEditQuery(q)
    \/ HandlePrettifyQuery
    \/ UpdateQueryFacts

Step ==
    \/ (OpenAgain \/ Restore) /\ UNCHANGED <<storeVars, network>>
    \/ Browser /\ UNCHANGED <<paneVars, storeVars, network>>
    \/ PaneStep /\ UNCHANGED <<pageVars, storeVars, network>>
    \/ Run
    \/ \E r \in network : SingleRequest(r)
    \/ \E v \in creating : EndCreate(v)
    \/ \E r \in requests : Result(r) \/ Failure(r)

Next == Step /\ IsShort'

\* The application begins and ends what it is asked for, and a fetch is resolved
\* or rejected in the end.
Spec ==
    /\ SystemInit /\ [][Next]_vars
    /\ WF_vars(\E r \in network : SingleRequest(r))
    /\ WF_vars(\E v \in creating : EndCreate(v))
    /\ WF_vars(\E r \in requests : Result(r) \/ Failure(r))

-----------------------------------------------------------------------------
(* Properties.                                                              *)

\* A result on the page is that of the last run, in whatever order the answers
\* to earlier runs come in.
ResultIsOfTheLastRun ==
    response # undefined /\ response.kind = "result" =>
        response.run = editorQueryID

\* "Ensure only the last executed editor query is rendered", errors included.
OnlyTheLastRunIsRendered ==
    response # undefined /\ response.kind # "introspection" =>
        response.run = editorQueryID

\* The last run of a page gets its result or error, whatever became of those
\* before it, unless the page is closed first.
EveryRunIsAnswered ==
    \A n \in 1 .. MaxActions :
        (editorQueryID = n /\ response = undefined) ~>
            (response # undefined /\ response.run = n) \/ editorQueryID # n

\* Once the debounced update has been made, the operations to choose from are
\* those of the query in the editor, also if it was edited while the schema was
\* being fetched.
FactsCatchUp ==
    schema = "loaded" /\ timer = undefined /\ Parses(query) =>
        operations = operationsOf[query]

\* A page that is opened again shows the query and the variables it was closed
\* with, these up to formatting, and has its sizes; after the browser has died this holds of every query
\* but the empty one, which is in no URL.  A pane that is dragged shut keeps the
\* size it had before.  (Variables that are null come back as a text, an
\* editorFlex of 0 as 1.)
ClosedComesBack ==
    [][/\ OpenAgain =>
            /\ query' = query
            /\ variables # undefined =>
                   formatted[variables'] = formatted[variables]
            /\ editorFlex # 0 => editorFlex' = editorFlex
            /\ variableEditorHeight' = variableEditorHeight
            /\ docExplorerWidth' = docExplorerWidth
       /\ Crash /\ query # emptyQuery => query' = query
       /\ MouseUp =>
            /\ drag.bar = "docs" /\ ~docExplorerOpen' =>
                   docExplorerWidth' = drag.had
            /\ drag.bar = "variables" /\ ~variableEditorOpen' =>
                   variableEditorHeight' = drag.had]_vars

=============================================================================
