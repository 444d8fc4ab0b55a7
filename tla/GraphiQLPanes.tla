--------------------------- MODULE GraphiQLPanes ---------------------------
(***************************************************************************)
(* The panes of the GraphiQL page around the query editor: the variables   *)
(* with their drawer, the documentation drawer with the explorer, the bar  *)
(* between editor and result, and the menu of the execute button.          *)
(*                                                                         *)
(* A bar is dragged with listeners on the document that live until the     *)
(* mouse button is released; a release outside the window is seen at the   *)
(* next move.  A menu that is open takes notice of every release, too.     *)
(* Sizes are numbers of pixels, of which a few stand for all.              *)
(***************************************************************************)
EXTENDS GraphiQL, DocExplorer

CONSTANTS VariableTexts,
          formatted,        \* what the host page makes of variables in the URL
          nullText,         \* the text "null"
          DocsSizes, VariableSizes, Flexes,  \* where a bar is dragged to
          MaxPaneActions    \* things the user does with the panes

ASSUME PanesAssumption ==
    /\ {emptyQuery, nullText} \subseteq VariableTexts
    /\ \A v \in VariableTexts : formatted[v] \in VariableTexts
                                /\ formatted[formatted[v]] = formatted[v]
    /\ DocsSizes \union VariableSizes \union Flexes \subseteq Nat
    /\ undefined \notin VariableTexts \union Nat

VARIABLES variables, variablesUrl,
          variableEditorOpen, variableEditorHeight,
          docExplorerOpen, docExplorerWidth,
          editorFlex,
          drag,             \* the bar that is being dragged
          menu,             \* the options: "closed", or "open", or "pressed"
                            \* as long as their button has not been released
          paneStorage,
          paneActions

paneVars == <<variables, variablesUrl, variableEditorOpen, variableEditorHeight,
              docExplorerOpen, docExplorerWidth, editorFlex, drag, menu,
              paneStorage, paneActions, explorerVars>>

sizes == <<variableEditorOpen, variableEditorHeight, docExplorerOpen,
           docExplorerWidth, editorFlex>>

-----------------------------------------------------------------------------
(* The life of a page.                                                      *)

\* Number(entry) || default.
NumberOr(entry, default) == IF entry \in {undefined, 0} THEN default ELSE entry

\* A text that is there and not empty.
Truthy(text) == text \notin {undefined, emptyQuery}

PanesInit ==
    /\ variables = undefined /\ variablesUrl = undefined
    /\ variableEditorOpen = FALSE /\ variableEditorHeight = 200
    /\ docExplorerOpen = FALSE /\ docExplorerWidth = 350
    /\ editorFlex = 1
    /\ drag = undefined /\ menu = "closed"
    /\ paneStorage = [variables |-> undefined, editorFlex |-> undefined,
                      variableEditorHeight |-> undefined,
                      docExplorerWidth |-> undefined]
    /\ paneActions = 0
    /\ ExplorerInit

\* componentWillUnmount: setItem makes a text of null, which is what variables
\* are that neither the URL nor the storage knows of.
PanesStored ==
    [variables |-> IF variables = undefined THEN nullText ELSE variables,
     editorFlex |-> editorFlex, variableEditorHeight |-> variableEditorHeight,
     docExplorerWidth |-> docExplorerWidth]

\* The constructor.
PanesOpened(stored) ==
    /\ variables' = IF variablesUrl # undefined THEN formatted[variablesUrl]
                    ELSE stored.variables
    /\ variableEditorOpen' = Truthy(variables')
    /\ variableEditorHeight' = NumberOr(stored.variableEditorHeight, 200)
    /\ docExplorerOpen' = FALSE
    /\ docExplorerWidth' = NumberOr(stored.docExplorerWidth, 350)
    /\ editorFlex' = NumberOr(stored.editorFlex, 1)
    /\ drag' = undefined /\ menu' = "closed"
    /\ paneStorage' = stored
    /\ ExplorerOpened
    /\ UNCHANGED <<variablesUrl, paneActions>>

\* What the user does with the panes is counted.
UsesPanes == paneActions' = paneActions + 1

\* In a session in which the panes are used an edit or a run counts for two.
IsShort == paneActions > 0 => paneActions + 2 * actions <= MaxPaneActions

\* A click, which the menu takes for a release somewhere else.
Click ==
    /\ UsesPanes
    /\ drag = undefined
    /\ menu' = "closed"

-----------------------------------------------------------------------------
(* Variables and documentation.                                             *)

HandleEditVariables(text) ==
    /\ UsesPanes
    /\ text # variables
    /\ variables' = text
    /\ variablesUrl' = UrlEntry(text)
    /\ UNCHANGED <<sizes, drag, menu, paneStorage, explorerVars>>

HandleToggleDocs ==
    /\ Click
    /\ docExplorerOpen' = ~docExplorerOpen
    /\ UNCHANGED <<variables, variablesUrl, variableEditorOpen,
                   variableEditorHeight, docExplorerWidth, editorFlex, drag,
                   paneStorage, explorerVars>>

\* _onClickHintInformation: the type named in a hint is shown in the explorer.
OnClickHintInformation(n) ==
    /\ Click
    /\ schema = "loaded"
    /\ docExplorerOpen' = TRUE
    /\ showDoc(TypePage(n))
    /\ UNCHANGED <<variables, variablesUrl, variableEditorOpen,
                   variableEditorHeight, docExplorerWidth, editorFlex, drag,
                   paneStorage>>

\* The explorer renders its pages when there is a schema.
Explores ==
    /\ docExplorerOpen /\ schema = "loaded"
    /\ UNCHANGED <<variables, variablesUrl, sizes, drag, paneStorage>>

HandleClickTypeOrField(page_) ==
    /\ Click /\ Explores
    /\ page_ \in Clickable
    /\ showDoc(page_)

GoBack ==
    /\ Click /\ Explores
    /\ HandleNavBackClick

TypeSearch(value) ==
    /\ UsesPanes /\ Explores
    /\ HandleChange(value)
    /\ UNCHANGED menu

\* The timer does not care whether the explorer is open.
SearchTimer ==
    /\ HandleSearch
    /\ UNCHANGED <<variables, variablesUrl, sizes, drag, menu, paneStorage,
                   paneActions>>

-----------------------------------------------------------------------------
(* Dragging.                                                                *)

Press(bar) ==
    /\ UsesPanes
    /\ drag = undefined
    /\ drag' = bar
    /\ UNCHANGED <<variables, variablesUrl, sizes, menu, paneStorage,
                   explorerVars>>

HandleResizeStart == Press([bar |-> "editor"])

HandleDocsResizeStart ==
    /\ docExplorerOpen
    /\ Press([bar |-> "docs", had |-> docExplorerWidth])

HandleVariableResizeStart ==
    Press([bar |-> "variables", had |-> variableEditorHeight,
           wasOpen |-> variableEditorOpen, didMove |-> FALSE])

Drags(bar) ==
    /\ drag # undefined /\ drag.bar = bar
    /\ UNCHANGED <<variables, variablesUrl, menu, paneStorage, paneActions,
                   explorerVars>>

MoveEditorBar(flex) ==
    /\ Drags("editor")
    /\ editorFlex' = flex
    /\ UNCHANGED <<drag, variableEditorOpen, variableEditorHeight,
                   docExplorerOpen, docExplorerWidth>>

MoveDocsBar(docsSize) ==
    /\ Drags("docs")
    /\ IF docsSize < 100
       THEN docExplorerOpen' = FALSE /\ UNCHANGED docExplorerWidth
       ELSE /\ docExplorerOpen' = TRUE
            /\ docExplorerWidth' = IF docsSize < 650 THEN docsSize ELSE 650
    /\ UNCHANGED <<drag, variableEditorOpen, variableEditorHeight, editorFlex>>

MoveVariablesBar(bottomSize) ==
    /\ Drags("variables")
    /\ drag' = [drag EXCEPT !.didMove = TRUE]
    /\ variableEditorOpen' = (bottomSize >= 60)
    /\ variableEditorHeight' = IF bottomSize < 60 THEN drag.had ELSE bottomSize
    /\ UNCHANGED <<docExplorerOpen, docExplorerWidth, editorFlex>>

\* Mutant: the width is left as it was when the pane was shut.
WidthAfter_mutant(bar) == docExplorerWidth

\* The width the documentation has after its bar was released.
WidthAfter(bar) == IF bar.bar = "docs" /\ ~docExplorerOpen THEN bar.had
                   ELSE docExplorerWidth

\* onMouseUp; the menu sees it unless it is made up for at the next move.
MouseUp ==
    /\ drag # undefined
    /\ drag' = undefined
    /\ docExplorerWidth' = WidthAfter(drag)
    /\ variableEditorOpen' = IF drag.bar = "variables" /\ ~drag.didMove
                             THEN ~drag.wasOpen ELSE variableEditorOpen
    /\ menu' \in {menu, "closed"}
    /\ UNCHANGED <<variables, variablesUrl, variableEditorHeight,
                   docExplorerOpen, editorFlex, paneStorage, paneActions,
                   explorerVars>>

-----------------------------------------------------------------------------
(* The execute button.                                                      *)

hasOptions == operations # undefined /\ Len(operations) > 1

MenuOnly == UNCHANGED <<variables, variablesUrl, sizes, drag, paneStorage,
                        explorerVars>>

\* _onOptionsOpen.
OnOptionsOpen ==
    /\ UsesPanes /\ MenuOnly
    /\ drag = undefined
    /\ hasOptions /\ menu = "closed"
    /\ menu' = "pressed"

\* The listener of the menu, for a release over the button: the first one
\* belongs to the press that opened the menu.
ReleasedOnButton == IF menu = "pressed" THEN "open" ELSE "closed"

OnMouseUp ==
    /\ MenuOnly
    /\ menu # "closed"
    /\ \/ menu' = "closed"
       \/ hasOptions /\ menu' = ReleasedOnButton
    /\ UNCHANGED paneActions

\* _onClick: the button runs the query when there are no options, which may
\* have disappeared while their menu was open.
OnClick ==
    /\ MenuOnly
    /\ drag = undefined
    /\ ~hasOptions
    /\ menu' = ReleasedOnButton
    /\ HandleRunQuery(undefined)
    /\ UNCHANGED paneActions

\* _onOptionSelected: the release selects and closes.
OnOptionSelected(operation) ==
    /\ MenuOnly
    /\ hasOptions /\ menu # "closed"
    /\ operation \in Range(operations)
    /\ menu' = "closed"
    /\ HandleRunQuery(operation)
    /\ UNCHANGED paneActions

-----------------------------------------------------------------------------

\* What happens to the panes alone.
PaneStep ==
    \/ \E text \in VariableTexts : HandleEditVariables(text)
    \/ HandleToggleDocs
    \/ \E n \in Range(typeNames) : OnClickHintInformation(n)
    \/ \E page_ \in Pages : HandleClickTypeOrField(page_)
    \/ GoBack
    \/ \E value \in Searches : TypeSearch(value)
    \/ SearchTimer
    \/ HandleResizeStart \/ HandleDocsResizeStart \/ HandleVariableResizeStart
    \/ \E flex \in Flexes : MoveEditorBar(flex)
    \/ \E docsSize \in DocsSizes : MoveDocsBar(docsSize)
    \/ \E bottomSize \in VariableSizes : MoveVariablesBar(bottomSize)
    \/ MouseUp
    \/ OnOptionsOpen \/ OnMouseUp

=============================================================================
