---------------------------- MODULE PageEditors ----------------------------
(***************************************************************************)
(* The two editors of the GraphiQL page, QueryEditor and VariableEditor,   *)
(* with the popup of hints and the marks of the linter.  They differ in    *)
(* when a single hint is taken unasked and in what a lost focus does; the  *)
(* "schema" of the variables is the types of the query's variables.        *)
(*                                                                         *)
(* The page is single threaded.  Between two keys can come an animation    *)
(* frame, the timers of the linter and of a lost focus, the schema, and the *)
(* page itself, which sets the text of the query.  Nothing is selected.    *)
(***************************************************************************)
EXTENDS ShowHint

CONSTANTS PrettyLines,     \* what the prettify button can make of a query
          Leafs,           \* what autoCompleteLeafs inserts
          MaxLength, screenAmount

ASSUME EditorsAssumption ==
    /\ NoSchema \in Schemas
    /\ MaxLength \in Nat /\ screenAmount \in Nat \ {0}
    /\ \A s \in Schemas :
          NamesAfter[s] \in [(Characters \ {Space}) \union {None} -> Seq(Seq(Characters))]
    /\ PrettyLines \subseteq Seq(Characters) /\ Leafs \in Seq(Characters)

VARIABLES editor,          \* "query" or "variables"
          focused

vars == <<editor, focused, schema, text, popup, lintVars>>

-----------------------------------------------------------------------------
(* The options componentDidMount gives an editor, the defaults of the addon   *)
(* where it gives none.                                                      *)

QueryEditorOptions ==
    [completeSingle |-> FALSE, spaceCompletesSingle |-> TRUE, closeOnUnfocus |-> FALSE]
VariableEditorOptions ==
    [completeSingle |-> TRUE, spaceCompletesSingle |-> FALSE, closeOnUnfocus |-> TRUE]
hintOptions == IF editor = "query" THEN QueryEditorOptions ELSE VariableEditorOptions

\* An editor is linted when it is mounted.
Init ==
    /\ editor \in {"query", "variables"}
    /\ line = <<>> /\ cursor = 0 /\ focused = FALSE
    /\ schema = NoSchema
    /\ completion = NoCompletion /\ widget = NoWidget /\ frame = FALSE /\ blurTimers = {}
    /\ lintTimer = FALSE
    /\ marks = [line |-> line, schema |-> schema]

-----------------------------------------------------------------------------
(* Keys and clicks in the text.                                             *)

Edit(newLine, newCursor) ==
    /\ line' = newLine /\ cursor' = newCursor
    /\ cursorActivity
    /\ onChange
    /\ UNCHANGED <<editor, focused, schema>>

Type(c) ==
    /\ focused
    /\ Edit(Replaced(cursor, cursor, <<c>>), cursor + 1)

Backspace ==
    /\ focused /\ cursor > 0
    /\ Edit(Replaced(cursor - 1, cursor, <<>>), cursor - 1)

MoveCursor ==
    /\ focused
    /\ cursor' \in 0 .. Len(line) /\ cursor' # cursor
    /\ UNCHANGED line
    /\ cursorActivity
    /\ UNCHANGED <<editor, focused, schema, lintVars>>

\* _onKeyUp of a letter, which may be that of a shortcut.
OnKeyUp ==
    /\ focused
    /\ showHint(hintOptions.completeSingle)
    /\ UNCHANGED <<editor, focused, schema>>

\* Ctrl-Space and its like.
CtrlSpace ==
    /\ focused
    /\ showHint(hintOptions.spaceCompletesSingle)
    /\ UNCHANGED <<editor, focused, schema>>

\* A key or the frame of the widget.
WidgetKey ==
    /\ focused
    /\ Select(screenAmount) \/ Enter \/ Esc
    /\ UNCHANGED <<editor, focused>>

\* A click on a hint takes the focus for 20 ms.
ClickHint == Click /\ focused' = TRUE /\ UNCHANGED editor

Blur ==
    /\ focused /\ focused' = FALSE
    /\ Blurred(hintOptions.closeOnUnfocus)
    /\ UNCHANGED <<editor, schema, text, completion, widget, frame, lintVars>>

Focus ==
    /\ ~focused /\ focused' = TRUE
    /\ Focused
    /\ UNCHANGED <<editor, schema, text, completion, widget, frame, lintVars>>

-----------------------------------------------------------------------------
(* What the page does.                                                      *)

\* handlePrettifyQuery: setValue puts the cursor at the start.
Prettify == editor = "query" /\ \E newLine \in PrettyLines : Edit(newLine, 0)

\* autoCompleteLeafs: leafs are inserted at an index; the cursor stays in its place.
AutoCompleteLeafs ==
    /\ editor = "query" /\ schema # NoSchema
    /\ \E index \in 0 .. Len(line) :
          Edit(Replaced(index, index, Leafs),
               IF index < cursor THEN cursor + Len(Leafs) ELSE cursor)

\* Mutant: the linter is not told.
ComponentDidUpdate_mutant(new) ==
    /\ schema' = new
    /\ UNCHANGED <<editor, focused, text, popup, lintVars>>

\* componentDidUpdate: hints and linter get the new schema, and a change is signalled.
ComponentDidUpdate(new) ==
    /\ schema' = new
    /\ onChange
    /\ UNCHANGED <<editor, focused, text, popup>>

\* The schema arrives once; the types of the variables change with the query.
SchemaChanges ==
    \E new \in Schemas \ {schema} :
        /\ editor = "query" => schema = NoSchema
        /\ ComponentDidUpdate(new)

LintTimer ==
    /\ lintTimer /\ lintTimer' = FALSE
    /\ startLinting(line, schema)
    /\ UNCHANGED <<editor, focused, schema, text, popup>>

-----------------------------------------------------------------------------

Step ==
    \/ \E c \in Characters : Type(c)
    \/ Backspace \/ MoveCursor
    \/ OnKeyUp \/ CtrlSpace
    \/ WidgetKey \/ ClickHint
    \/ Frame /\ UNCHANGED <<editor, focused>>
    \/ Blur \/ Focus
    \/ BlurTimer /\ UNCHANGED <<editor, focused>>
    \/ Prettify \/ AutoCompleteLeafs
    \/ SchemaChanges
    \/ LintTimer

\* The line is bounded.
IsShort == Len(line) <= MaxLength

Next == Step /\ IsShort'

Spec == Init /\ [][Next]_vars

-----------------------------------------------------------------------------
(* Properties.                                                              *)

\* A popup that is on the screen between two frames takes keys and shows what the
\* hint function says of the word at the cursor, wherever the cursor went, whatever
\* the page made of the text and whichever timers ran meanwhile; in the query editor
\* of the schema the page has by now.  It informs about the hint that is selected.
PopupIsOfTheWord ==
    widget.shown =>
        /\ completion.active
        /\ widget.information = widget.data.list[widget.selected]
        /\ editor = "query" => completion.schema = schema
        /\ ~frame => /\ widget.enabled
                     /\ widget.data = Hints(completion.schema, line, cursor)

\* The word at a position: the letters around it if there is one before it, and
\* otherwise nothing, behind the spaces around it.
IsWord(from, to) ==
    IF cursor > 0 /\ line[cursor] \in Letters
    THEN /\ from < cursor /\ cursor <= to
         /\ \A k \in from + 1 .. to : line[k] \in Letters
         /\ from > 0 => line[from] \notin Letters
         /\ to < Len(line) => line[to + 1] \notin Letters
    ELSE /\ from = to /\ cursor <= to
         /\ \A k \in cursor + 1 .. to : line[k] = Space
         /\ to < Len(line) /\ cursor > 0 /\ line[cursor] = Space => line[to + 1] # Space

\* The line becomes what it is with one of the names that can stand there in the place
\* of the word at the cursor.
ReplacesTheWord ==
    \E from, to \in 0 .. Len(line) :
        /\ IsWord(from, to)
        /\ \E known \in IF editor = "query" THEN {schema} ELSE Schemas :
             \E state \in DOMAIN NamesAfter[known] :
              \E i \in DOMAIN NamesAfter[known][state] :
                  line' = Replaced(from, to, NamesAfter[known][state][i])

\* A hint that is picked takes the place of the word at the cursor and leaves the rest
\* of the line alone, whether it is picked by a key, by a key that was pressed before
\* the list was up to date, or unasked because it is the only one; by a click only if
\* no frame is due.
Picks == WidgetKey \/ Frame \/ OnKeyUp \/ CtrlSpace \/ (ClickHint /\ ~frame)
PicksReplaceTheWord == [][line' # line /\ Picks => ReplacesTheWord]_vars

\* When no linting is due, the marks are those of the text and the schema there are,
\* also after the schema changed behind a text nobody has touched; but for a text
\* whose validation throws.
MarksAreOfTheText ==
    ~lintTimer => LET now == [line |-> line, schema |-> schema]
                  IN  marks = now \/ now \in Throwing

=============================================================================
