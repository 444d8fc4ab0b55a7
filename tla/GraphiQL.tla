------------------------------ MODULE GraphiQL ------------------------------
(***************************************************************************)
(* The GraphiQL page the GraphQL application serves: the component's state, *)
(* its handlers, and the host page's URL parameters and fetcher.           *)
(*                                                                         *)
(* Every handler is one action: the page is single threaded.  What can     *)
(* come between two of them is a key or click, the answer to a request in  *)
(* any order, the 150 ms debounce timer, and the closing of the page.      *)
(* The fetcher of this page always returns a promise, so the branches for  *)
(* an Observable (subscription, handleStopQuery) are never taken, and the  *)
(* host renders the component once, so its props do not change.            *)
(*                                                                         *)
(* A query is a member of Queries; operationsOf gives the names of the     *)
(* operations the parser finds in it, Unparseable if there is a syntax     *)
(* error; fillLeafs gives the query autoCompleteLeafs makes of it.         *)
(***************************************************************************)
EXTENDS Naturals, Sequences, Functions

CONSTANTS Queries, Unparseable,
          operationsOf,      \* [Queries -> sequences of names, or Unparseable]
          fillLeafs,         \* [Queries -> Queries]
          defaultQuery, emptyQuery,
          undefined,         \* of JavaScript; also null and an unset entry
          Links,             \* the URLs a page is first opened with
          MaxActions,        \* things the user does
          MaxPages           \* times the page is opened

ASSUME GraphiQLAssumption ==
    /\ {defaultQuery, emptyQuery} \subseteq Queries
    /\ undefined \notin Queries
    /\ \A link \in Links : /\ DOMAIN link = {"query", "operationName"}
                          /\ link.query \in Queries \union {undefined}
    /\ operationsOf[emptyQuery] = Unparseable
    /\ \A q \in Queries : /\ fillLeafs[q] \in Queries
                         /\ operationsOf[fillLeafs[q]] = operationsOf[q]

VARIABLES schema,          \* "undefined" or "loaded"
          introspection,   \* "first" or "second" query under way, or "over"
          query, operationName, operations,
          response,        \* what the result viewer shows
          isWaitingForResponse,
          editorQueryID,
          timer,           \* the query _updateQueryFacts will be called with
          url,             \* the parameters of the host page
          storage,         \* localStorage
          page,            \* number of times the page has been opened
          requests,        \* requests of this page that have no answer yet
          actions

pageVars == <<schema, introspection, query, operationName, operations, response,
              isWaitingForResponse, editorQueryID, timer, url, storage, page,
              requests, actions>>

Parses(q) == operationsOf[q] # Unparseable

\* The operations of getQueryFacts, or what there was before.
Facts(q, before) == IF Parses(q) THEN operationsOf[q] ELSE before

\* getSelectedOperationName.  A name that is not among the operations before has
\* the index -1 there, and names[-1] is undefined.
SelectedOperationName(prevOperations, prevSelected, ops) ==
    IF ops \in {undefined, <<>>} THEN undefined
    ELSE IF prevSelected = undefined \/ prevSelected \in Range(ops)
    THEN IF prevSelected = undefined THEN ops[1] ELSE prevSelected
    ELSE IF prevOperations = undefined THEN ops[1]
    ELSE LET before == {i \in DOMAIN prevOperations :
                            prevOperations[i] = prevSelected}
         IN  IF before = {} THEN undefined
             ELSE LET i == CHOOSE i \in before : \A j \in before : i <= j
                  IN  IF i <= Len(ops) THEN ops[i] ELSE ops[1]

-----------------------------------------------------------------------------
(* The life of a page.                                                      *)

\* The constructor, with the parameters of the URL and the entries of storage,
\* and the introspection query of componentDidMount.
Opened(stored) ==
    LET q   == IF url.query # undefined THEN url.query
               ELSE IF stored.query # undefined THEN stored.query
               ELSE defaultQuery
        ops == Facts(q, undefined)
    IN  /\ query' = q
        /\ operations' = ops
        /\ operationName' =
              IF url.operationName # undefined THEN url.operationName
              ELSE SelectedOperationName(undefined, stored.operationName, ops)
        /\ schema' = "undefined" /\ introspection' = "first"
        /\ response' = undefined /\ isWaitingForResponse' = FALSE
        /\ editorQueryID' = 0
        /\ timer' = undefined /\ requests' = {}
        /\ page' = page + 1

Init ==
    /\ url \in Links
    /\ storage = [query |-> undefined, operationName |-> undefined]
    /\ query = IF url.query # undefined THEN url.query ELSE defaultQuery
    /\ operations = Facts(query, undefined)
    /\ operationName =
          IF url.operationName # undefined THEN url.operationName
          ELSE SelectedOperationName(undefined, undefined, operations)
    /\ schema = "undefined" /\ introspection = "first"
    /\ response = undefined /\ isWaitingForResponse = FALSE
    /\ editorQueryID = 0
    /\ timer = undefined /\ requests = {}
    /\ page = 1 /\ actions = 0

\* componentWillUnmount.
Stored == [query |-> query, operationName |-> operationName]

\* The page is closed, which is treated as an unmount, and opened again at the
\* URL it had.
Reload ==
    /\ page < MaxPages
    /\ storage' = Stored
    /\ Opened(Stored)
    /\ UNCHANGED <<url, actions>>

\* The browser dies and restores the page.
Crash ==
    /\ page < MaxPages
    /\ Opened(storage)
    /\ UNCHANGED <<url, storage, actions>>

-----------------------------------------------------------------------------
(* Introspection.                                                           *)

\* Mutant: the facts are those of the query the page was opened with.
SchemaArrives_mutant ==
    /\ introspection \in {"first", "second"}
    /\ introspection' = "over" /\ schema' = "loaded"
    /\ UNCHANGED <<query, operations, operationName, response,
                   isWaitingForResponse, editorQueryID, timer, url, storage,
                   page, requests, actions>>

\* The answer has data: the schema is built and the facts of the query at this
\* time are collected with it; the operation name stays as it is.
SchemaArrives ==
    /\ introspection \in {"first", "second"}
    /\ introspection' = "over" /\ schema' = "loaded"
    /\ operations' = Facts(query, operations)
    /\ UNCHANGED <<query, operationName, response, isWaitingForResponse,
                   editorQueryID, timer, url, storage, page, requests, actions>>

\* The first answer has no data: try again without subscriptions.
IntrospectionFallsBack ==
    /\ introspection = "first"
    /\ introspection' = "second"
    /\ UNCHANGED <<schema, query, operationName, operations, response,
                   isWaitingForResponse, editorQueryID, timer, url, storage,
                   page, requests, actions>>

\* A rejected fetch, data no schema can be built of, or a second answer without
\* data takes the place of whatever response is shown.
IntrospectionFails ==
    /\ introspection \in {"first", "second"}
    /\ introspection' = "over"
    /\ response' = [kind |-> "introspection", run |-> 0]
    /\ UNCHANGED <<schema, query, operationName, operations,
                   isWaitingForResponse, editorQueryID, timer, url, storage,
                   page, requests, actions>>

-----------------------------------------------------------------------------
(* Editing.                                                                 *)

\* The host page drops an empty parameter from the URL.
UrlEntry(value) == IF value = emptyQuery THEN undefined ELSE value

\* handleEditQuery, called with each change of the editor's text; the debounced
\* call takes the place of one that has not been made yet.
EditQuery(q) ==
    /\ query' = q
    /\ timer' = IF schema = "loaded" THEN q ELSE timer
    /\ url' = [url EXCEPT !.query = UrlEntry(q)]

HandleEditQuery(q) ==
    /\ actions < MaxActions
    /\ actions' = actions + 1
    /\ EditQuery(q)
    /\ UNCHANGED <<schema, introspection, operationName, operations, response,
                   isWaitingForResponse, editorQueryID, storage, page, requests>>

\* handlePrettifyQuery: print(parse(query)) has the same operations; a query
\* that does not parse throws, and the button shows the error.
HandlePrettifyQuery ==
    /\ actions < MaxActions
    /\ actions' = actions + 1
    /\ Parses(query)
    /\ EditQuery(query)
    /\ UNCHANGED <<schema, introspection, operationName, operations, response,
                   isWaitingForResponse, editorQueryID, storage, page, requests>>

\* _updateQueryFacts after the debounce.
UpdateQueryFacts ==
    /\ timer # undefined
    /\ timer' = undefined
    /\ operations' = Facts(timer, operations)
    /\ operationName' = IF Parses(timer)
          THEN SelectedOperationName(operations, operationName, operationsOf[timer])
          ELSE operationName
    /\ url' = IF operationName' = operationName THEN url
              ELSE [url EXCEPT !.operationName = operationName']
    /\ UNCHANGED <<schema, introspection, query, response, isWaitingForResponse,
                   editorQueryID, storage, page, requests, actions>>

-----------------------------------------------------------------------------
(* Running.                                                                 *)

\* What ExecuteButton and Ctrl-Enter hand over: nothing, or the name of one of
\* the operations the component knows of.
Selections == {undefined} \union
                  (IF operations = undefined THEN {} ELSE Range(operations))

AutoCompleted == IF schema = "loaded" THEN fillLeafs[query] ELSE query

\* Mutant: the number of the run is taken before it is counted.
Request_mutant(name) == [page |-> page, run |-> editorQueryID,
                         query |-> AutoCompleted, operationName |-> name]

Request(name) == [page |-> page, run |-> editorQueryID + 1,
                  query |-> AutoCompleted, operationName |-> name]

\* handleRunQuery with autoCompleteLeafs, which edits the text if there is
\* something to fill in, and _fetchQuery.
HandleRunQuery(selected) ==
    LET name == IF selected # undefined THEN selected ELSE operationName
    IN  /\ actions < MaxActions
        /\ actions' = actions + 1
        /\ editorQueryID' = editorQueryID + 1
        /\ requests' = requests \union {Request(name)}
        /\ IF AutoCompleted # query
           THEN /\ query' = AutoCompleted /\ timer' = AutoCompleted
           ELSE UNCHANGED <<query, timer>>
        /\ url' = [query |-> IF AutoCompleted # query THEN UrlEntry(AutoCompleted)
                             ELSE url.query,
                   operationName |-> IF name # operationName THEN name
                                     ELSE url.operationName]
        /\ operationName' = name
        /\ isWaitingForResponse' = TRUE /\ response' = undefined
        /\ UNCHANGED <<schema, introspection, operations, storage, page>>

\* Mutant: the result of a run that is not the last is rendered.
Shows_mutant(r) == TRUE

\* "Ensure only the last executed editor query is rendered."
Shows(r) == r.run = editorQueryID

\* The fetch resolves with the server's answer, data or errors alike.
ResultArrives(r) ==
    /\ r \in requests
    /\ requests' = requests \ {r}
    /\ IF Shows(r)
       THEN /\ isWaitingForResponse' = FALSE
            /\ response' = [kind |-> "result", run |-> r.run]
       ELSE UNCHANGED <<isWaitingForResponse, response>>
    /\ UNCHANGED <<schema, introspection, query, operationName, operations,
                   editorQueryID, timer, url, storage, page, actions>>

\* The fetch is rejected; the handler of errors does not look at the run.
FetchFails(r) ==
    /\ r \in requests
    /\ requests' = requests \ {r}
    /\ isWaitingForResponse' = FALSE
    /\ response' = [kind |-> "error", run |-> r.run]
    /\ UNCHANGED <<schema, introspection, query, operationName, operations,
                   editorQueryID, timer, url, storage, page, actions>>

=============================================================================
