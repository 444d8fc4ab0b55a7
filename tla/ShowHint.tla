------------------------------ MODULE ShowHint ------------------------------
(***************************************************************************)
(* The popup with hints: a completion, which is active from showHint until *)
(* it is closed, and its widget, the list on the screen.  Whatever moves    *)
(* the cursor either closes the completion or disables its widget until     *)
(* the list is made anew in the next animation frame.                      *)
(* Beside it, the linter: the marks under the mistakes of the text are made *)
(* 500 ms after the last change event, from the text and schema of then.   *)
(***************************************************************************)
EXTENDS HintList

CONSTANTS closeCharacters,
          Throwing,        \* [line, schema] whose validation throws
          Old              \* the marks of any earlier text or schema

VARIABLES line, cursor,    \* the line of the editor and the cursor in it
          schema,          \* the schema among the editor's options
          completion,      \* state.completionActive
          widget,
          frame,           \* the active completion's update is due
          blurTimers,      \* timers that will close the active completion: that
                           \* of the widget ("shown") or of an earlier one ("gone")
          lintTimer,       \* a call of startLinting is due
          marks            \* the line and the schema the marks were made of

text  == <<line, cursor>>
popup == <<completion, widget, frame, blurTimers>>
lintVars == <<lintTimer, marks>>

\* onChange: the timer starts again; the marks are those of a text there was.
onChange == lintTimer' = TRUE /\ marks' = Old

\* updateLinting, with the annotations the lint helper makes.
Annotated(l, s) == marks' = [line |-> l, schema |-> s]

\* An exception of the helper leaves the marks there were.
startLinting(l, s) ==
    IF [line |-> l, schema |-> s] \in Throwing THEN UNCHANGED marks
    ELSE Annotated(l, s)

NoCompletion == [active |-> FALSE]
NoWidget     == [shown |-> FALSE]

\* Completion.close.  Timers and frames of a completion that is closed have no effect.
close ==
    completion' = NoCompletion /\ widget' = NoWidget /\ frame' = FALSE /\ blurTimers' = {}

Replaced(from, to, name) == SubSeq(line, 1, from) \o name \o SubSeq(line, to + 1, Len(line))
Clip(p) == IF p > Len(line) THEN Len(line) ELSE p

\* adjustForChange
Adjusted(p, from, to, name) ==
    IF p < from THEN p
    ELSE IF p <= to THEN from + Len(name) ELSE p + Len(name) - (to - from)

\* Completion.pick.  The cursor's activity meanwhile is that of a completion about
\* to be closed.
pick(data, i) ==
    LET from == Clip(data.from)
        to   == Clip(data.to)
    IN  /\ line' = Replaced(from, to, data.list[i])
        /\ cursor' = Adjusted(cursor, from, to, data.list[i])
        /\ onChange
        /\ close

\* A widget, with the first hint selected and informed about.
Widget(data) == [shown |-> TRUE, data |-> data, selected |-> 1,
                 information |-> data.list[1], enabled |-> TRUE, picked |-> FALSE]

\* The word ends the old one's: it is another word.
isNewCompletion(old, new) ==
    new.from > old.from /\ old.to - old.from # new.to - new.from

\* Mutant: the old widget stays when another word begins.
WidgetAfter_mutant(c, data) ==
    IF data = None THEN NoWidget
    ELSE IF c.data # None /\ isNewCompletion(c.data, data) THEN widget
    ELSE Widget(data)

\* The widget after an update: none, or a new one.
WidgetAfter(c, data) ==
    IF data = None THEN NoWidget
    ELSE IF c.data # None /\ isNewCompletion(c.data, data) THEN NoWidget
    ELSE Widget(data)

\* Completion.update and finishUpdate, of a completion with timers left; a single hint
\* is picked at once if it is asked for.
update(c, picked, timers) ==
    LET data == Hints(c.schema, line, cursor)
        new  == WidgetAfter(c, data)
    IN  IF picked /\ new.shown /\ Len(data.list) = 1
        THEN pick(data, 1)
        ELSE /\ completion' = IF data = None \/ new.shown THEN [c EXCEPT !.data = data] ELSE c
             /\ widget' = new
             /\ frame' = FALSE
             /\ blurTimers' = timers
             /\ UNCHANGED <<text, lintVars>>

\* showHint: the active completion is closed and another one begun.
showHint(completeSingle) ==
    update([active |-> TRUE, start |-> cursor, rest |-> Len(line) - cursor,
            schema |-> schema, data |-> None], completeSingle, {})

\* The text or the cursor has moved out of the word the completion began in.
Leaves(c) ==
    \/ Len(line') - cursor' # c.rest
    \/ cursor' < c.start
    \/ cursor' > 0 /\ line'[cursor'] \in closeCharacters

\* Mutant: the widget goes on taking keys.
disable_mutant(w) == w

disable(w) == IF w.shown THEN [w EXCEPT !.enabled = FALSE] ELSE w

\* Completion.cursorActivity, once the operation has moved line and cursor.
cursorActivity ==
    IF ~completion.active THEN UNCHANGED popup
    ELSE IF Leaves(completion) THEN close
    ELSE /\ frame' = TRUE
         /\ widget' = disable(widget)
         /\ UNCHANGED <<completion, blurTimers>>

\* The animation frame.
Frame ==
    /\ frame
    /\ update(completion, widget.shown /\ widget.picked,
              {"gone" : t \in blurTimers})
    /\ UNCHANGED schema

-----------------------------------------------------------------------------
(* The keys and clicks a widget takes.                                      *)

changeActive(i, avoidWrap) ==
    LET size == Len(widget.data.list)
        j    == IF i > size THEN IF avoidWrap THEN size ELSE 1
                ELSE IF i < 1 THEN IF avoidWrap THEN 1 ELSE size
                ELSE i
    IN  widget' = [widget EXCEPT !.selected = j, !.information = widget.data.list[j]]

\* Up and Down, PageUp and PageDown by as many hints as are on the screen, Home, End.
Select(screenAmount) ==
    /\ widget.shown /\ widget.enabled
    /\ \/ \E n \in {-1, 1} : changeActive(widget.selected + n, FALSE)
       \/ \E n \in {1 - screenAmount, screenAmount - 1} :
              changeActive(widget.selected + n, TRUE)
       \/ \E i \in {1, Len(widget.data.list)} : changeActive(i, FALSE)
    /\ UNCHANGED <<text, schema, completion, frame, blurTimers, lintVars>>

\* Enter picks, if the widget takes keys; otherwise it is kept for the update.
Enter ==
    /\ widget.shown
    /\ IF widget.enabled THEN pick(widget.data, widget.selected)
       ELSE /\ widget' = [widget EXCEPT !.picked = TRUE]
            /\ UNCHANGED <<text, completion, frame, blurTimers, lintVars>>
    /\ UNCHANGED schema

Esc ==
    /\ widget.shown /\ widget.enabled
    /\ close
    /\ UNCHANGED <<text, schema, lintVars>>

\* A click picks whether or not the widget takes keys.
Click ==
    /\ widget.shown
    /\ \E i \in DOMAIN widget.data.list : pick(widget.data, i)
    /\ UNCHANGED schema

\* The listeners a widget has if it closes without the focus.
Blurred(closeOnUnfocus) ==
    blurTimers' = IF closeOnUnfocus /\ widget.shown THEN blurTimers \union {"shown"}
                  ELSE blurTimers
Focused == blurTimers' = blurTimers \ {"shown"}

BlurTimer ==
    /\ blurTimers # {}
    /\ close
    /\ UNCHANGED <<text, schema, lintVars>>

=============================================================================
