--------------------------- MODULE GraphiQLProofs ---------------------------
(***************************************************************************)
(* Proofs about the GraphiQL page for any queries, schema, sizes and number *)
(* of actions: which result is shown, which operations are offered, what    *)
(* comes back when the page is opened again, where the results of a search  *)
(* are; and that the application behind it finds its vendors.               *)
(***************************************************************************)
EXTENDS GraphiQLSystem, SequenceTheorems, TLAPS

-----------------------------------------------------------------------------
(* The result that is shown.                                                *)

\* Whatever answers are under way, a result on the page is that of the last run:
\* a run clears the response and a result looks at the number of its run.
THEOREM LastResult == Spec => []ResultIsOfTheLastRun
<1>1. SystemInit => ResultIsOfTheLastRun
  BY DEF SystemInit, Init, ResultIsOfTheLastRun
<1>2. ResultIsOfTheLastRun /\ [Next]_vars => ResultIsOfTheLastRun'
  <2> SUFFICES ASSUME ResultIsOfTheLastRun, [Next]_vars
               PROVE  ResultIsOfTheLastRun'
    OBVIOUS
  <2> USE DEF ResultIsOfTheLastRun
  <2>1. CASE UNCHANGED <<response, editorQueryID>>
    BY <2>1
  <2>2. CASE OpenAgain \/ Restore
    BY <2>2 DEF OpenAgain, Restore, Reload, Crash, Opened
  <2>3. CASE Browser
    <3>1. CASE IntrospectionFails
      BY <3>1 DEF IntrospectionFails
    <3>2. CASE UNCHANGED <<response, editorQueryID>>
      BY <3>2
    <3>3. QED
      BY <2>3, <3>1, <3>2 DEF Browser, SchemaArrives, IntrospectionFallsBack,
         HandleEditQuery, HandlePrettifyQuery, UpdateQueryFacts
  <2>4. CASE Run
    BY <2>4 DEF Run, OnClick, OnOptionSelected, HandleRunQuery
  <2>5. ASSUME NEW r \in requests, Result(r) \/ Failure(r)
        PROVE  ResultIsOfTheLastRun'
    BY <2>5 DEF Result, Failure, ResultArrives, Shows, FetchFails
  <2>6. QED
    BY <2>1, <2>2, <2>3, <2>4, <2>5
       DEF Next, Step, vars, pageVars, SingleRequest, EndCreate
<1>3. QED BY <1>1, <1>2, PTL DEF Spec

-----------------------------------------------------------------------------
(* The query, what is stored of it, and the operations in it.               *)

\* The query a page would be opened with if the browser died.
Remembered == IF storage.query # undefined THEN storage.query ELSE defaultQuery

\* Inductive: a debounced update that has not been made yet is about the query in
\* the editor, and a query that is not in the URL is empty or was there when the
\* page was opened.
PageInv ==
    /\ query \in Queries
    /\ DOMAIN url = {"query", "operationName"}
    /\ url.query \in Queries \union {undefined}
    /\ storage.query \in Queries \union {undefined}
    /\ timer # undefined => timer = query /\ schema = "loaded"
    /\ url.query # undefined => url.query = query
    /\ url.query = undefined => query \in {emptyQuery, Remembered}

\* A change of the text keeps PageInv, whichever text it is.
LEMMA EditKeepsPageInv ==
  ASSUME PageInv, NEW q \in Queries, EditQuery(q), UNCHANGED <<schema, storage>>
  PROVE  PageInv'
<1>1. url' = [url EXCEPT !.query = UrlEntry(q)] /\ query' = q
  BY DEF EditQuery
<1>2. DOMAIN url' = {"query", "operationName"} /\ url'.query = UrlEntry(q)
  BY <1>1 DEF PageInv
<1>3. timer' # undefined => timer' = query' /\ schema' = "loaded"
  BY <1>1 DEF EditQuery, PageInv
<1>4. QED
  BY <1>1, <1>2, <1>3, GraphiQLAssumption DEF PageInv, UrlEntry, Remembered

\* So does opening a page, from the URL or from storage.
LEMMA OpeningKeepsPageInv ==
  ASSUME PageInv, NEW stored, Opened(stored), UNCHANGED url, storage' = stored,
         stored.query \in Queries \union {undefined}
  PROVE  PageInv'
BY GraphiQLAssumption DEF PageInv, Opened, Remembered

\* A run changes the text only if it fills in leaf fields.
LEMMA RunKeepsPageInv ==
  ASSUME PageInv, NEW selected, HandleRunQuery(selected)
  PROVE  PageInv'
<1>1. CASE AutoCompleted = query
  <2>1. url'.query = url.query /\ DOMAIN url' = {"query", "operationName"}
    BY <1>1 DEF HandleRunQuery
  <2>2. UNCHANGED <<query, timer, schema, storage>>
    BY <1>1 DEF HandleRunQuery
  <2>3. QED BY <2>1, <2>2 DEF PageInv, Remembered
<1>2. CASE AutoCompleted # query
  <2>1. AutoCompleted \in Queries /\ schema = "loaded"
    BY <1>2, GraphiQLAssumption DEF AutoCompleted, PageInv
  <2>2. /\ url'.query = UrlEntry(AutoCompleted)
        /\ DOMAIN url' = {"query", "operationName"}
    BY <1>2 DEF HandleRunQuery
  <2>3. /\ query' = AutoCompleted /\ timer' = AutoCompleted
        /\ UNCHANGED <<schema, storage>>
    BY <1>2 DEF HandleRunQuery
  <2>4. QED
    BY <2>1, <2>2, <2>3, GraphiQLAssumption DEF PageInv, UrlEntry, Remembered
<1>3. QED BY <1>1, <1>2

\* PageInv holds of the whole system; the panes and the application do not touch
\* what it is about.
LEMMA PageInvHolds == Spec => []PageInv
<1>1. SystemInit => PageInv
  BY GraphiQLAssumption DEF SystemInit, Init, PageInv, Remembered
<1>2. PageInv /\ [Next]_vars => PageInv'
  <2> SUFFICES ASSUME PageInv, [Next]_vars PROVE PageInv'
    OBVIOUS
  <2>1. CASE UNCHANGED <<query, url, storage, timer, schema>>
    BY <2>1 DEF PageInv, Remembered
  <2>2. CASE OpenAgain
    BY <2>2, OpeningKeepsPageInv, GraphiQLAssumption
       DEF OpenAgain, Reload, Stored, PageInv
  <2>3. CASE Restore
    BY <2>3, OpeningKeepsPageInv DEF Restore, Crash, PageInv
  <2>4. CASE Browser
    <3>1. CASE SchemaArrives
      BY <3>1 DEF SchemaArrives, PageInv, Remembered
    <3>2. CASE IntrospectionFallsBack \/ IntrospectionFails
      BY <3>2, <2>1 DEF IntrospectionFallsBack, IntrospectionFails
    <3>3. ASSUME NEW q \in Queries, HandleEditQuery(q) PROVE PageInv'
      BY <3>3, EditKeepsPageInv DEF HandleEditQuery
    <3>4. CASE HandlePrettifyQuery
      BY <3>4, EditKeepsPageInv DEF HandlePrettifyQuery, PageInv
    <3>5. CASE UpdateQueryFacts
      BY <3>5 DEF UpdateQueryFacts, PageInv, Remembered
    <3>6. QED BY <2>4, <3>1, <3>2, <3>3, <3>4, <3>5 DEF Browser
  <2>5. CASE Run
    BY <2>5, RunKeepsPageInv DEF Run, OnClick, OnOptionSelected
  <2>6. ASSUME NEW r \in requests, Result(r) \/ Failure(r) PROVE PageInv'
    BY <2>6, <2>1 DEF Result, Failure, ResultArrives, FetchFails
  <2>7. QED
    BY <2>1, <2>2, <2>3, <2>4, <2>5, <2>6
       DEF Next, Step, vars, pageVars, SingleRequest, EndCreate
<1>3. QED BY <1>1, <1>2, PTL DEF Spec

\* The operations to choose from catch up with the query: an edit leaves a timer
\* behind, the schema is taken with the query of that time, and the timer is
\* about the query in the editor.
THEOREM FactsAreThoseOfTheQuery == Spec => []FactsCatchUp
<1>1. SystemInit => FactsCatchUp
  BY DEF SystemInit, Init, FactsCatchUp
<1>2. FactsCatchUp /\ PageInv /\ [Next]_vars => FactsCatchUp'
  <2> SUFFICES ASSUME FactsCatchUp, PageInv, [Next]_vars PROVE FactsCatchUp'
    OBVIOUS
  <2> USE DEF FactsCatchUp, Parses
  <2>1. CASE UNCHANGED <<schema, timer, query, operations>>
    BY <2>1
  <2>2. CASE OpenAgain \/ Restore
    BY <2>2 DEF OpenAgain, Restore, Reload, Crash, Opened
  <2>3. CASE Browser
    <3>1. CASE SchemaArrives
      BY <3>1 DEF SchemaArrives, Facts
    <3>2. CASE IntrospectionFallsBack \/ IntrospectionFails
      BY <3>2, <2>1 DEF IntrospectionFallsBack, IntrospectionFails
    <3>3. ASSUME NEW q \in Queries, EditQuery(q), UNCHANGED schema
          PROVE  FactsCatchUp'
      BY <3>3, GraphiQLAssumption DEF EditQuery
    <3>4. CASE UpdateQueryFacts
      BY <3>4 DEF UpdateQueryFacts, PageInv, Facts
    <3>5. QED
      BY <2>3, <3>1, <3>2, <3>3, <3>4
         DEF Browser, HandleEditQuery, HandlePrettifyQuery, PageInv
  <2>4. ASSUME NEW selected, HandleRunQuery(selected) PROVE FactsCatchUp'
    <3>1. CASE AutoCompleted = query
      BY <2>4, <3>1, <2>1 DEF HandleRunQuery
    <3>2. CASE AutoCompleted # query
      <4>1. AutoCompleted \in Queries
        BY <3>2, GraphiQLAssumption DEF AutoCompleted, PageInv
      <4>2. timer' = AutoCompleted
        BY <2>4, <3>2 DEF HandleRunQuery
      <4>3. QED BY <4>1, <4>2, GraphiQLAssumption
    <3>3. QED BY <3>1, <3>2
  <2>5. ASSUME NEW r \in requests, Result(r) \/ Failure(r) PROVE FactsCatchUp'
    BY <2>5, <2>1 DEF Result, Failure, ResultArrives, FetchFails
  <2>6. QED
    BY <2>1, <2>2, <2>3, <2>4, <2>5
       DEF Next, Step, Run, OnClick, OnOptionSelected, vars, pageVars,
           SingleRequest, EndCreate
<1>3. QED BY <1>1, <1>2, PageInvHolds, PTL DEF Spec

-----------------------------------------------------------------------------
(* The panes.                                                               *)

Sizes == Nat \ {0}

\* The bar that may be dragged, with what its listeners remember.
Bars == [bar : {"editor"}]
            \union [bar : {"docs"}, had : Sizes]
            \union [bar : {"variables"}, had : Sizes, wasOpen : BOOLEAN,
                    didMove : BOOLEAN]

\* Inductive: the variables are those of the URL up to formatting, sizes are
\* never 0 (which the constructor would replace), and a pane of variables that is
\* shut by its bar, or was shut before, has the height it had.
PanesInv ==
    /\ {variables, variablesUrl, paneStorage.variables}
           \subseteq VariableTexts \union {undefined}
    /\ variablesUrl # undefined =>
           variables # undefined /\ formatted[variables] = formatted[variablesUrl]
    /\ variableEditorHeight \in Sizes /\ variableEditorOpen \in BOOLEAN
    /\ docExplorerWidth \in Sizes
    /\ editorFlex \in Nat
    /\ {paneStorage.variableEditorHeight, paneStorage.docExplorerWidth,
        paneStorage.editorFlex} \subseteq Nat \union {undefined}
    /\ drag \in Bars \union {undefined}
    /\ drag # undefined /\ drag.bar = "variables" =>
           /\ ~drag.didMove => /\ variableEditorOpen = drag.wasOpen
                               /\ variableEditorHeight = drag.had
           /\ ~variableEditorOpen => variableEditorHeight = drag.had

\* The constructor takes nothing from storage that PanesInv excludes.
LEMMA OpeningKeepsPanesInv ==
  ASSUME PanesInv, NEW stored, PanesOpened(stored),
         stored.variables \in VariableTexts \union {undefined},
         {stored.variableEditorHeight, stored.docExplorerWidth,
          stored.editorFlex} \subseteq Nat \union {undefined}
  PROVE  PanesInv'
<1>1. /\ variableEditorHeight' \in Sizes /\ docExplorerWidth' \in Sizes
      /\ editorFlex' \in Nat
  BY DEF PanesOpened, NumberOr, Sizes
<1>2. /\ variables' \in VariableTexts \union {undefined}
      /\ UNCHANGED variablesUrl
      /\ variablesUrl' # undefined =>
             /\ variables' # undefined
             /\ formatted[variables'] = formatted[variablesUrl']
  BY PanesAssumption DEF PanesOpened, PanesInv
<1>3. variableEditorOpen' \in BOOLEAN /\ drag' = undefined /\ paneStorage' = stored
  BY DEF PanesOpened, Truthy
<1>4. QED BY <1>1, <1>2, <1>3 DEF PanesInv

\* A bar remembers the size of its pane when it is pressed.
LEMMA PaneStepKeepsPanesInv ==
  ASSUME PanesInv, PaneStep
  PROVE  PanesInv'
<1> USE DEF PanesInv
<1>1. CASE UNCHANGED <<variables, variablesUrl, variableEditorOpen,
                       variableEditorHeight, docExplorerWidth, editorFlex, drag,
                       paneStorage>>
  BY <1>1
<1>2. ASSUME NEW text \in VariableTexts, HandleEditVariables(text)
      PROVE  PanesInv'
  BY <1>2, PanesAssumption DEF HandleEditVariables, UrlEntry, sizes
<1>3. CASE HandleResizeStart \/ HandleDocsResizeStart \/ HandleVariableResizeStart
  <2>1. UNCHANGED <<variables, variablesUrl, sizes, paneStorage>>
    BY <1>3 DEF HandleResizeStart, HandleDocsResizeStart,
       HandleVariableResizeStart, Press
  <2>2. drag' \in Bars
    <3>1. CASE HandleResizeStart
      BY <3>1 DEF HandleResizeStart, Press, Bars
    <3>2. CASE HandleDocsResizeStart
      BY <3>2 DEF HandleDocsResizeStart, Press, Bars
    <3>3. CASE HandleVariableResizeStart
      BY <3>3 DEF HandleVariableResizeStart, Press, Bars
    <3>4. QED BY <1>3, <3>1, <3>2, <3>3
  <2>3. drag'.bar = "variables" =>
            /\ drag'.had = variableEditorHeight
            /\ drag'.wasOpen = variableEditorOpen
    BY <1>3 DEF HandleResizeStart, HandleDocsResizeStart,
       HandleVariableResizeStart, Press
  <2>4. QED BY <2>1, <2>2, <2>3 DEF sizes
<1>4. ASSUME NEW flex \in Flexes, MoveEditorBar(flex) PROVE PanesInv'
  BY <1>4, PanesAssumption DEF MoveEditorBar, Drags
<1>5. ASSUME NEW docsSize \in DocsSizes, MoveDocsBar(docsSize) PROVE PanesInv'
  <2>1. docExplorerWidth' \in Sizes
    BY <1>5, PanesAssumption DEF MoveDocsBar, Sizes
  <2>2. QED BY <1>5, <2>1 DEF MoveDocsBar, Drags
<1>6. ASSUME NEW bottomSize \in VariableSizes, MoveVariablesBar(bottomSize)
      PROVE  PanesInv'
  <2>1. drag \in [bar : {"variables"}, had : Sizes, wasOpen : BOOLEAN,
                  didMove : BOOLEAN]
    BY <1>6 DEF MoveVariablesBar, Drags, Bars
  <2>2. drag' \in Bars /\ drag'.had = drag.had /\ drag'.didMove
    BY <1>6, <2>1 DEF MoveVariablesBar, Bars
  <2>3. /\ variableEditorHeight' \in Sizes /\ variableEditorOpen' \in BOOLEAN
        /\ ~variableEditorOpen' => variableEditorHeight' = drag.had
    <3>1. variableEditorOpen' \in BOOLEAN
      BY <1>6 DEF MoveVariablesBar
    <3>2. bottomSize \in Nat /\ drag.had \in Sizes
      BY <2>1, PanesAssumption
    <3>3. variableEditorHeight' \in Sizes
      BY <1>6, <3>2 DEF MoveVariablesBar, Sizes
    <3>4. ~variableEditorOpen' => variableEditorHeight' = drag.had
      <4>1. CASE bottomSize >= 60
        BY <1>6, <4>1 DEF MoveVariablesBar
      <4>2. CASE ~(bottomSize >= 60)
        BY <1>6, <3>2, <4>2 DEF MoveVariablesBar
      <4>3. QED BY <4>1, <4>2
    <3>5. QED BY <3>1, <3>3, <3>4
  <2>4. QED BY <1>6, <2>2, <2>3 DEF MoveVariablesBar, Drags
<1>7. CASE MouseUp
  <2>1. docExplorerWidth' \in Sizes
    BY <1>7 DEF MouseUp, WidthAfter, Bars
  <2>2. variableEditorOpen' \in BOOLEAN
    BY <1>7 DEF MouseUp, Bars
  <2>3. QED BY <1>7, <2>1, <2>2 DEF MouseUp
<1>8. QED
  BY <1>1, <1>2, <1>3, <1>4, <1>5, <1>6, <1>7
     DEF PaneStep, HandleToggleDocs, OnClickHintInformation, HandleClickTypeOrField,
         GoBack, TypeSearch, SearchTimer, Explores, Click, OnOptionsOpen, OnMouseUp,
         MenuOnly, sizes

\* PanesInv holds of the whole system.
LEMMA PanesInvHolds == Spec => []PanesInv
<1>1. SystemInit => PanesInv
  <2> SUFFICES ASSUME SystemInit PROVE PanesInv
    OBVIOUS
  <2>1. /\ variables = undefined /\ variablesUrl = undefined
        /\ variableEditorOpen = FALSE /\ drag = undefined
        /\ paneStorage = [variables |-> undefined, editorFlex |-> undefined,
                          variableEditorHeight |-> undefined,
                          docExplorerWidth |-> undefined]
    BY DEF SystemInit, PanesInit
  <2>2. /\ variableEditorHeight \in Sizes /\ docExplorerWidth \in Sizes
        /\ editorFlex \in Nat
    BY DEF SystemInit, PanesInit, Sizes
  <2>3. QED BY <2>1, <2>2 DEF PanesInv
<1>2. PanesInv /\ [Next]_vars => PanesInv'
  <2> SUFFICES ASSUME PanesInv, [Next]_vars PROVE PanesInv'
    OBVIOUS
  <2>1. CASE UNCHANGED <<variables, variablesUrl, sizes, drag, paneStorage>>
    BY <2>1 DEF PanesInv, sizes
  <2>2. CASE OpenAgain
    BY <2>2, OpeningKeepsPanesInv, PanesAssumption
       DEF OpenAgain, PanesStored, PanesInv, Sizes
  <2>3. CASE Restore
    BY <2>3, OpeningKeepsPanesInv DEF Restore, PanesInv
  <2>4. CASE PaneStep
    BY <2>4, PaneStepKeepsPanesInv
  <2>5. QED
    BY <2>1, <2>2, <2>3, <2>4
       DEF Next, Step, Run, OnClick, OnOptionSelected, MenuOnly, vars, paneVars,
           sizes, SingleRequest, EndCreate, Result, Failure
<1>3. QED BY <1>1, <1>2, PTL DEF Spec

\* What a page shows when it is opened again, and what a pane keeps that is shut
\* by its bar, from the two invariants of the page and its panes.
THEOREM ClosedPagesComeBack == Spec => ClosedComesBack
<1>1. PageInv /\ PanesInv /\ OpenAgain =>
        /\ query' = query
        /\ variables # undefined => formatted[variables'] = formatted[variables]
        /\ editorFlex # 0 => editorFlex' = editorFlex
        /\ variableEditorHeight' = variableEditorHeight
        /\ docExplorerWidth' = docExplorerWidth
  <2> SUFFICES ASSUME PageInv, PanesInv, OpenAgain
               PROVE  /\ query' = query
                      /\ variables # undefined =>
                             formatted[variables'] = formatted[variables]
                      /\ editorFlex # 0 => editorFlex' = editorFlex
                      /\ variableEditorHeight' = variableEditorHeight
                      /\ docExplorerWidth' = docExplorerWidth
    OBVIOUS
  <2>1. query' = query
    BY GraphiQLAssumption DEF OpenAgain, Reload, Opened, Stored, PageInv
  <2>2. variables # undefined => formatted[variables'] = formatted[variables]
    BY PanesAssumption DEF OpenAgain, PanesOpened, PanesStored, PanesInv
  <2>3. /\ editorFlex # 0 => editorFlex' = editorFlex
        /\ variableEditorHeight' = variableEditorHeight
        /\ docExplorerWidth' = docExplorerWidth
    BY PanesAssumption
       DEF OpenAgain, PanesOpened, PanesStored, PanesInv, NumberOr, Sizes
  <2>4. QED BY <2>1, <2>2, <2>3
<1>2. PageInv /\ Crash /\ query # emptyQuery => query' = query
  BY DEF Crash, Opened, PageInv, Remembered
<1>3. PanesInv /\ MouseUp =>
        /\ drag.bar = "docs" /\ ~docExplorerOpen' => docExplorerWidth' = drag.had
        /\ drag.bar = "variables" /\ ~variableEditorOpen' =>
               variableEditorHeight' = drag.had
  BY DEF PanesInv, MouseUp, WidthAfter
<1>4. PageInv /\ PanesInv /\ [Next]_vars =>
        [/\ OpenAgain =>
              /\ query' = query
              /\ variables # undefined =>
                     formatted[variables'] = formatted[variables]
              /\ editorFlex # 0 => editorFlex' = editorFlex
              /\ variableEditorHeight' = variableEditorHeight
              /\ docExplorerWidth' = docExplorerWidth
         /\ Crash /\ query # emptyQuery => query' = query
         /\ MouseUp =>
              /\ drag.bar = "docs" /\ ~docExplorerOpen' =>
                     docExplorerWidth' = drag.had
              /\ drag.bar = "variables" /\ ~variableEditorOpen' =>
                     variableEditorHeight' = drag.had]_vars
  BY <1>1, <1>2, <1>3
<1>5. QED
  BY <1>4, PageInvHolds, PanesInvHolds, PTL DEF Spec, ClosedComesBack

-----------------------------------------------------------------------------
(* The documentation.                                                       *)

AllPages == Pages \union {SearchPage(value) : value \in Searches}

\* Inductive: the search box is there on the first page only, unless the results
\* of a search got above another page; so as long as a search has not been made
\* and no page was opened there is at most the page it will replace.
ExplorerInv ==
    /\ navStack \in Seq(AllPages)
    /\ searchValue \in Searches /\ searching \in BOOLEAN
    /\ ~overtaken /\ searching =>
           /\ Len(navStack) <= 1
           /\ navStack # <<>> => navStack[1].kind = "search"
    /\ ResultsAreOfTheBox

\* Without its last element a sequence is one shorter and otherwise the same.
LEMMA FrontProperties ==
  ASSUME NEW S, NEW s \in Seq(S), NEW k \in Nat, Len(s) = k + 1
  PROVE  /\ Front(s) \in Seq(S)
         /\ Len(Front(s)) = k
         /\ \A i \in 1 .. k : Front(s)[i] = s[i]
<1>1. Front(s) = SubSeq(s, 1, k)
  BY DEF Front
<1>2. \A i \in 1 .. k : s[i] \in S
  BY ElementOfSeq
<1>3. SubSeq(s, 1, k) \in Seq(S)
  BY <1>2, SubSeqProperties
<1>4. Len(SubSeq(s, 1, k)) = k
  BY <1>2, SubSeqProperties
<1>5. \A i \in 1 .. k : SubSeq(s, 1, k)[i] = s[i]
  BY <1>2, SubSeqProperties
<1>6. QED BY <1>1, <1>3, <1>4, <1>5

\* A sequence that is not empty has a predecessor of its length.
LEMMA LengthOfNonEmpty ==
  ASSUME NEW S, NEW s \in Seq(S), s # <<>>
  PROVE  \E k \in Nat : Len(s) = k + 1
<1>1. PICK n \in Nat \ {0} : n = Len(s)
  BY EmptySeq
<1>2. n - 1 \in Nat /\ n - 1 + 1 = n
  OBVIOUS
<1>3. QED BY <1>1, <1>2

\* The pages that a click opens are of types and fields.
LEMMA OpenedPageIsNoResult ==
  ASSUME NEW page_ \in Pages
  PROVE  page_.kind # "search"
BY DEF Pages, TypePage, FieldPage

\* A page that is opened goes on top of the others.
LEMMA showDocKeepsExplorerInv ==
  ASSUME ExplorerInv, NEW page_ \in Pages, showDoc(page_)
  PROVE  ExplorerInv'
<1>1. navStack \in Seq(AllPages) /\ page_ \in AllPages
  BY DEF ExplorerInv, AllPages
<1>2. CASE navStack' = navStack
  BY <1>2 DEF showDoc, ExplorerInv, ResultsAreOfTheBox
<1>3. CASE navStack' = Append(navStack, page_)
  <2>1. navStack' \in Seq(AllPages) /\ Len(navStack') = Len(navStack) + 1
    BY <1>1, <1>3
  <2>2. /\ \A i \in 1 .. Len(navStack) : navStack'[i] = navStack[i]
        /\ navStack'[Len(navStack) + 1] = page_
    BY <1>1, <1>3
  <2>3. ~overtaken' => ~overtaken /\ ~searching /\ ~searching'
    BY DEF showDoc
  <2>4. ~overtaken' => \A i \in 2 .. Len(navStack') : navStack'[i].kind # "search"
    BY <1>1, <2>1, <2>2, <2>3, OpenedPageIsNoResult
       DEF ExplorerInv, ResultsAreOfTheBox
  <2>5. ~overtaken' /\ navStack'[1].kind = "search" =>
            navStack'[1].value = searchValue'
    <3>1. CASE navStack = <<>>
      BY <3>1, <1>1, <2>2, OpenedPageIsNoResult
    <3>2. CASE navStack # <<>>
      BY <3>2, <1>1, <2>2, <2>3 DEF showDoc, ExplorerInv, ResultsAreOfTheBox
    <3>3. QED BY <3>1, <3>2
  <2>6. QED
    BY <2>1, <2>3, <2>4, <2>5
       DEF showDoc, ExplorerInv, ResultsAreOfTheBox, AllPages
<1>4. QED BY <1>2, <1>3 DEF showDoc

\* A search that nothing overtook leaves its results alone on the stack.
LEMMA SearchKeepsExplorerInv ==
  ASSUME ExplorerInv, HandleSearch
  PROVE  ExplorerInv'
<1> DEFINE page_ == SearchPage(searchValue)
<1>1. /\ navStack \in Seq(AllPages) /\ page_ \in AllPages
      /\ page_.kind = "search" /\ page_.value = searchValue
  BY DEF ExplorerInv, SearchPage, AllPages
<1> HIDE DEF page_
<1>2. navStack' \in Seq(AllPages)
  BY <1>1 DEF HandleSearch, Searched, Front, page_
<1>3. ~overtaken => Len(navStack') = 1 /\ navStack'[1] = page_
  <2> SUFFICES ASSUME ~overtaken
               PROVE  Len(navStack') = 1 /\ navStack'[1] = page_
    OBVIOUS
  <2>1. Len(navStack) <= 1
    BY DEF HandleSearch, ExplorerInv
  <2>2. CASE navStack = <<>>
    BY <2>2 DEF HandleSearch, Searched, page_
  <2>3. CASE navStack # <<>>
    <3>1. PICK k \in Nat : Len(navStack) = k + 1
      BY <1>1, <2>3, LengthOfNonEmpty
    <3>2. k = 0 /\ Len(navStack) = 1
      BY <2>1, <3>1
    <3>3. Front(navStack) \in Seq(AllPages) /\ Len(Front(navStack)) = 0
      BY <1>1, <3>1, <3>2, FrontProperties
    <3>4. /\ Len(Append(Front(navStack), page_)) = 1
          /\ Append(Front(navStack), page_)[1] = page_
      BY <3>3, <1>1, AppendProperties
    <3>5. QED
      BY <2>3, <3>2, <3>4 DEF HandleSearch, Searched, Last, page_
  <2>4. QED BY <2>2, <2>3
<1>4. QED
  <2>1. searching' = FALSE /\ UNCHANGED <<searchValue, overtaken>>
    BY DEF HandleSearch
  <2>2. ResultsAreOfTheBox'
    <3>1. ~overtaken => \A i \in 2 .. Len(navStack') : FALSE
      <4>1. \A i \in 2 .. 1 : FALSE
        OBVIOUS
      <4>2. QED BY <1>3, <4>1, Zenon
    <3>2. ~overtaken => navStack'[1].value = searchValue'
      BY <1>1, <1>3, <2>1
    <3>3. QED BY <2>1, <3>1, <3>2 DEF ResultsAreOfTheBox
  <2>3. searchValue' \in Searches
    BY <2>1 DEF ExplorerInv
  <2>4. QED
    BY <1>2, <2>1, <2>2, <2>3 DEF ExplorerInv, AllPages

\* Going back uncovers nothing but what was below.
LEMMA BackKeepsExplorerInv ==
  ASSUME ExplorerInv, HandleNavBackClick
  PROVE  ExplorerInv'
<1>1. navStack \in Seq(AllPages)
  BY DEF ExplorerInv
<1>2. PICK k \in Nat : Len(navStack) = k + 1
  BY <1>1, LengthOfNonEmpty DEF HandleNavBackClick
<1>3. /\ navStack' \in Seq(AllPages) /\ Len(navStack') = k
      /\ \A i \in 1 .. k : navStack'[i] = navStack[i]
  BY <1>1, <1>2, FrontProperties DEF HandleNavBackClick
<1>4. UNCHANGED <<searchValue, searching, overtaken>>
  BY DEF HandleNavBackClick
<1>5. ResultsAreOfTheBox'
  <2>1. \A i \in 2 .. k : i \in 2 .. Len(navStack)
    BY <1>2
  <2>2. navStack' # <<>> => navStack # <<>> /\ navStack'[1] = navStack[1]
    BY <1>1, <1>2, <1>3, EmptySeq
  <2>3. ASSUME NEW i \in 2 .. k
        PROVE  navStack'[i] = navStack[i]
    BY <1>3
  <2>4. QED
    BY <1>3, <1>4, <2>1, <2>2, <2>3 DEF ExplorerInv, ResultsAreOfTheBox
<1>6. ~overtaken' /\ searching' => k = 0
  BY <1>2, <1>4 DEF ExplorerInv
<1>7. k = 0 => Len(navStack') <= 1 /\ navStack' = <<>>
  BY <1>1, <1>3, EmptySeq
<1>8. QED
  BY <1>3, <1>4, <1>5, <1>6, <1>7 DEF ExplorerInv, AllPages

\* As long as no page is opened between a key and its search, results are found
\* on the first page only, and they are those of the text in the box.
THEOREM ResultsStayFirst == Spec => []ResultsAreOfTheBox
<1>1. SystemInit => ExplorerInv
  <2>1. SystemInit => /\ navStack = <<>> /\ searchValue \in Searches
                      /\ searching = FALSE
    BY ExplorerAssumption DEF SystemInit, PanesInit, ExplorerInit
  <2>2. ASSUME navStack = <<>> PROVE ResultsAreOfTheBox
    BY <2>2 DEF ResultsAreOfTheBox
  <2>3. navStack = <<>> =>
            /\ navStack \in Seq(AllPages)
            /\ Len(navStack) = 0
    BY EmptySeq
  <2>4. QED BY <2>1, <2>2, <2>3 DEF ExplorerInv
<1>2. ExplorerInv /\ [Next]_vars => ExplorerInv'
  <2> SUFFICES ASSUME ExplorerInv, [Next]_vars PROVE ExplorerInv'
    OBVIOUS
  <2>1. CASE UNCHANGED explorerVars
    BY <2>1 DEF explorerVars, ExplorerInv, ResultsAreOfTheBox
  <2>2. CASE OpenAgain \/ Restore
    <3>1. /\ navStack' = <<>> /\ searchValue' \in Searches
          /\ searching' = FALSE
      BY <2>2, ExplorerAssumption
         DEF OpenAgain, Restore, PanesOpened, ExplorerOpened
    <3>2. ResultsAreOfTheBox'
      BY <3>1 DEF ResultsAreOfTheBox
    <3>3. /\ navStack' \in Seq(AllPages)
          /\ Len(navStack') = 0
      BY <3>1, EmptySeq
    <3>4. QED BY <3>1, <3>2, <3>3 DEF ExplorerInv
  <2>3. CASE PaneStep
    <3>1. ASSUME NEW n \in Range(typeNames), OnClickHintInformation(n)
          PROVE  ExplorerInv'
      BY <3>1, showDocKeepsExplorerInv DEF OnClickHintInformation, Pages
    <3>2. ASSUME NEW page_ \in Pages, HandleClickTypeOrField(page_)
          PROVE  ExplorerInv'
      BY <3>2, showDocKeepsExplorerInv DEF HandleClickTypeOrField
    <3>3. CASE GoBack
      BY <3>3, BackKeepsExplorerInv DEF GoBack
    <3>4. ASSUME NEW value \in Searches, TypeSearch(value) PROVE ExplorerInv'
      <4>1. UNCHANGED <<navStack, overtaken>> /\ searchValue' = value /\ searching'
        BY <3>4 DEF TypeSearch, HandleChange
      <4>2. navStack # <<>> => navStack[Len(navStack)].kind = "search"
        BY <3>4 DEF TypeSearch, HandleChange, shouldSearchBoxAppear, Last
      <4>3. ~overtaken => Len(navStack) <= 1
        BY <4>2 DEF ExplorerInv, ResultsAreOfTheBox
      <4>4. QED
        BY <3>4, <4>1, <4>2, <4>3
           DEF TypeSearch, HandleChange, ExplorerInv, ResultsAreOfTheBox
    <3>5. CASE SearchTimer
      BY <3>5, SearchKeepsExplorerInv DEF SearchTimer
    <3>6. QED
      BY <2>1, <2>3, <3>1, <3>2, <3>3, <3>4, <3>5
         DEF PaneStep, HandleEditVariables, HandleToggleDocs, HandleResizeStart,
             HandleDocsResizeStart, HandleVariableResizeStart, Press, Drags,
             MoveEditorBar, MoveDocsBar, MoveVariablesBar, MouseUp, OnOptionsOpen,
             OnMouseUp, MenuOnly
  <2>4. QED
    BY <2>1, <2>2, <2>3
       DEF Next, Step, Run, OnClick, OnOptionSelected, MenuOnly, vars, paneVars,
           SingleRequest, EndCreate, Result, Failure
<1>3. ExplorerInv => ResultsAreOfTheBox
  BY DEF ExplorerInv
<1>4. QED BY <1>1, <1>2, <1>3, PTL DEF Spec

-----------------------------------------------------------------------------
(* The vendors of the application.                                          *)

\* Inductive: the vendors are numbered in the order they were added, and the one being
\* built has the next number, as long as there never were two.
StoreInv ==
    ~overlapped =>
        /\ vendors \in Seq(created) /\ size = Len(vendors)
        /\ \A i \in DOMAIN vendors : vendors[i].id = i
        /\ \A v \in created : v.id \in DOMAIN vendors /\ vendors[v.id] = v
        /\ \A v, w \in creating : v = w
        /\ \A v \in creating : v.id = size + 1

\* A vendor that is added alone gets the place of its number.
LEMMA EndKeepsStoreInv ==
    ASSUME StoreInv, NEW v, CreateEnd(v)
    PROVE  StoreInv'
<1> SUFFICES ASSUME ~overlapped
             PROVE  StoreInv'
  BY DEF StoreInv, CreateEnd
<1>1. /\ vendors \in Seq(created) /\ size = Len(vendors) /\ size \in Nat
      /\ DOMAIN vendors = 1 .. size
      /\ creating = {v} /\ v.id = size + 1
  BY DEF StoreInv, CreateEnd
<1>2. ~Holds(v.id)
  BY <1>1 DEF StoreInv, Holds
<1>3. /\ vendors' = Append(vendors, v) /\ size' = size + 1
      /\ creating' = {} /\ created' = created \union {v}
  BY <1>1, <1>2 DEF CreateEnd
<1>4. /\ vendors' \in Seq(created') /\ Len(vendors') = size + 1
      /\ DOMAIN vendors' = 1 .. size + 1
      /\ vendors'[size + 1] = v
      /\ \A i \in 1 .. size : vendors'[i] = vendors[i]
  <2>1. vendors \in Seq(created')
    BY <1>1, <1>3
  <2>2. QED BY <1>1, <1>3, <2>1
<1>5. \A i \in DOMAIN vendors' : vendors'[i].id = i
  BY <1>1, <1>4 DEF StoreInv
<1>6. \A w \in created' : w.id \in DOMAIN vendors' /\ vendors'[w.id] = w
  BY <1>1, <1>3, <1>4 DEF StoreInv
<1>7. QED
  BY <1>3, <1>4, <1>5, <1>6 DEF StoreInv

\* What createVendor has returned is found under its id, and so no two vendors have
\* the same id, as long as no two calls have overlapped.
THEOREM VendorsComeBack == Spec => []VendorsAreFound
<1>1. SystemInit => StoreInv
  BY DEF SystemInit, StoreInit, StoreInv
<1>2. StoreInv /\ [Next]_vars => StoreInv'
  <2> SUFFICES ASSUME StoreInv, [Next]_vars PROVE StoreInv'
    OBVIOUS
  <2>1. CASE UNCHANGED storeVars
    BY <2>1 DEF storeVars, StoreInv
  <2>2. ASSUME NEW r \in network, SingleRequest(r)
        PROVE  StoreInv'
    <3> SUFFICES ASSUME ~overlapped'
                 PROVE  StoreInv'
      BY DEF StoreInv
    <3>1. ~overlapped /\ creating = {}
      BY <2>2 DEF SingleRequest, CreateBegin
    <3>2. UNCHANGED <<vendors, size, created>>
      BY <2>2 DEF SingleRequest, CreateBegin
    <3>3. creating' = {[id |-> size + 1, by |-> r]}
      BY <2>2, <3>1 DEF SingleRequest, CreateBegin
    <3>4. /\ \A v, w \in creating' : v = w
          /\ \A v \in creating' : v.id = size' + 1
      BY <3>2, <3>3
    <3>5. QED
      BY <3>1, <3>2, <3>4 DEF StoreInv
  <2>3. ASSUME NEW v \in creating, EndCreate(v)
        PROVE  StoreInv'
    BY <2>3, EndKeepsStoreInv DEF EndCreate
  <2>4. QED
    BY <2>1, <2>2, <2>3 DEF Next, Step, Run, Result, Failure, vars
<1>3. StoreInv => VendorsAreFound
  <2> SUFFICES ASSUME StoreInv, ~overlapped, NEW v \in created
               PROVE  Lookup(v.id) = <<v>>
    BY DEF VendorsAreFound
  <2> DEFINE found == {i \in DOMAIN vendors : vendors[i].id = v.id}
  <2>1. found = {v.id} /\ v.id \in Nat /\ vendors[v.id] = v
    BY DEF StoreInv
  <2>2. Min(found) = v.id
    BY <2>1 DEF Min
  <2>3. QED
    BY <2>1, <2>2 DEF Lookup
<1>4. QED BY <1>1, <1>2, <1>3, PTL DEF Spec

=============================================================================
