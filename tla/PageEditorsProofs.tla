------------------------- MODULE PageEditorsProofs -------------------------
(***************************************************************************)
(* Proofs about PageEditors, for any characters, schemas and names.        *)
(***************************************************************************)
EXTENDS PageEditors, FiniteSetTheorems, TLAPS

-----------------------------------------------------------------------------
(* The marks.                                                               *)

\* When no linting is due, the marks are those of the text and the schema there are,
\* however they changed; but for a text whose validation throws.
THEOREM MarksFollowTheText == Spec => []MarksAreOfTheText
<1>1. Init => MarksAreOfTheText
  BY DEF Init, MarksAreOfTheText
<1>2. MarksAreOfTheText /\ [Next]_vars => MarksAreOfTheText'
  <2> SUFFICES ASSUME MarksAreOfTheText, [Next]_vars
               PROVE  MarksAreOfTheText'
    OBVIOUS
  <2> DEFINE Kept   == UNCHANGED <<lintVars, line, schema>>
             Undone == lintTimer' = TRUE
  <2>1. Kept => MarksAreOfTheText'
    BY DEF MarksAreOfTheText, lintVars
  <2>2. Undone => MarksAreOfTheText'
    BY DEF MarksAreOfTheText
  <2>3. ASSUME NEW data, NEW i, pick(data, i)
        PROVE  Undone
    BY <2>3 DEF pick, onChange
  <2>4. ASSUME NEW c, NEW picked, NEW timers, update(c, picked, timers), schema' = schema
        PROVE  Kept \/ Undone
    BY <2>3, <2>4 DEF update, text
  <2>5. ASSUME NEW new, NEW at, Edit(new, at)
        PROVE  Undone
    BY <2>5 DEF Edit, onChange
  <2>6. CASE UNCHANGED vars
    BY <2>1, <2>6 DEF vars, text
  <2>7. CASE \E c \in Characters : Type(c)
    BY <2>2, <2>5, <2>7 DEF Type
  <2>8. CASE Backspace
    BY <2>2, <2>5, <2>8 DEF Backspace
  <2>9. CASE MoveCursor
    BY <2>1, <2>9 DEF MoveCursor
  <2>10. CASE OnKeyUp \/ CtrlSpace
    BY <2>1, <2>2, <2>4, <2>10 DEF OnKeyUp, CtrlSpace, showHint
  <2>11. CASE WidgetKey
    BY <2>1, <2>2, <2>3, <2>11 DEF WidgetKey, Select, Enter, Esc, text
  <2>12. CASE ClickHint
    BY <2>2, <2>3, <2>12 DEF ClickHint, Click
  <2>13. CASE Frame
    BY <2>1, <2>2, <2>4, <2>13 DEF Frame
  <2>14. CASE Blur \/ Focus \/ BlurTimer
    BY <2>1, <2>14 DEF Blur, Focus, BlurTimer, text
  <2>15. CASE Prettify \/ AutoCompleteLeafs
    BY <2>2, <2>5, <2>15 DEF Prettify, AutoCompleteLeafs
  <2>16. CASE SchemaChanges
    BY <2>2, <2>16 DEF SchemaChanges, ComponentDidUpdate, onChange
  <2>17. CASE LintTimer
    BY <2>17 DEF LintTimer, startLinting, Annotated, MarksAreOfTheText, text
  <2> QED
    BY <2>6, <2>7, <2>8, <2>9, <2>10, <2>11, <2>12, <2>13, <2>14, <2>15, <2>16, <2>17
    DEF Next, Step
<1> QED
  BY <1>1, <1>2, PTL DEF Spec

-----------------------------------------------------------------------------
(* The popup.                                                               *)

\* A completion and a widget, by their fields.
IsCompletion(c) ==
    \E p, n, s, d : c = [active |-> TRUE, start |-> p, rest |-> n, schema |-> s, data |-> d]
IsWidget(w) ==
    \E d, i, n, e, p : w = [shown |-> TRUE, data |-> d, selected |-> i,
                            information |-> n, enabled |-> e, picked |-> p]

\* Inductive: a frame is due to an active completion only; a completion has the schema
\* there is or began before it arrived, and then it has nothing to show.
EditorsInv ==
    /\ completion = NoCompletion \/ IsCompletion(completion)
    /\ widget = NoWidget \/ IsWidget(widget)
    /\ frame => completion.active
    /\ completion.active /\ editor = "query" => completion.schema \in {NoSchema, schema}
    /\ widget.shown => completion.schema # NoSchema
    /\ PopupIsOfTheWord

\* Nothing is offered without a schema.
LEMMA NothingWithoutSchema ==
    ASSUME NEW l, NEW p
    PROVE  Hints(NoSchema, l, p) = None
BY DEF Hints

\* close leaves nothing behind.
LEMMA ClosedIsFine ==
    ASSUME close
    PROVE  EditorsInv'
<1>1. completion' = [active |-> FALSE] /\ widget' = [shown |-> FALSE] /\ ~frame'
  BY DEF close, NoCompletion, NoWidget
<1>2. ~completion'.active /\ ~widget'.shown
  BY <1>1
<1> QED
  BY <1>1, <1>2 DEF EditorsInv, PopupIsOfTheWord, NoCompletion, NoWidget

\* A step that leaves the popup, the text and the schema alone.
LEMMA UntouchedIsFine ==
    ASSUME EditorsInv, UNCHANGED <<editor, schema, line, cursor, completion, widget, frame>>
    PROVE  EditorsInv'
BY DEF EditorsInv, PopupIsOfTheWord, IsCompletion, IsWidget, NoCompletion, NoWidget

\* An update, of the active completion or of a new one: the new list is of the text
\* there is, and there is one only with a schema.
LEMMA UpdateIsFine ==
    ASSUME NEW c, NEW picked, NEW timers, IsCompletion(c),
           editor = "query" => c.schema \in {NoSchema, schema},
           update(c, picked, timers), UNCHANGED <<editor, schema>>
    PROVE  EditorsInv'
<1> DEFINE data == Hints(c.schema, line, cursor)
           new  == WidgetAfter(c, data)
<1>1. CASE picked /\ new.shown /\ Len(data.list) = 1
  BY <1>1, ClosedIsFine DEF update, pick
<1>2. CASE ~(picked /\ new.shown /\ Len(data.list) = 1)
  <2>1. /\ completion' = IF data = None \/ new.shown THEN [c EXCEPT !.data = data] ELSE c
        /\ widget' = new /\ frame' = FALSE /\ UNCHANGED <<line, cursor>>
    BY <1>2 DEF update, text
  <2>2. /\ IsCompletion(completion') /\ completion'.active
        /\ completion'.schema = c.schema
    <3>1. PICK p, n, s, d : c = [active |-> TRUE, start |-> p, rest |-> n, schema |-> s, data |-> d]
      BY DEF IsCompletion
    <3>2. completion' = c \/ completion' = [active |-> TRUE, start |-> p, rest |-> n,
                                            schema |-> s, data |-> data]
      BY <2>1, <3>1
    <3> HIDE DEF data
    <3> QED
      BY <3>1, <3>2 DEF IsCompletion
  <2>3. CASE new = NoWidget
    BY <2>1, <2>2, <2>3 DEF EditorsInv, PopupIsOfTheWord, NoWidget
  <2>4. CASE new = Widget(data) /\ data # None
    <3>1. c.schema # NoSchema
      BY <2>4, NothingWithoutSchema
    <3> HIDE DEF data, new
    <3>2. /\ widget' = [shown |-> TRUE, data |-> data, selected |-> 1,
                        information |-> data.list[1], enabled |-> TRUE, picked |-> FALSE]
      BY <2>1, <2>4 DEF Widget
    <3>3. widget'.data = Hints(completion'.schema, line', cursor')
      BY <2>1, <2>2, <3>2 DEF data
    <3>4. IsWidget(widget')
      BY <3>2 DEF IsWidget
    <3>5. PopupIsOfTheWord'
      BY <2>1, <2>2, <3>1, <3>2, <3>3 DEF PopupIsOfTheWord
    <3> QED
      BY <2>1, <2>2, <3>1, <3>4, <3>5 DEF EditorsInv
  <2> QED
    BY <2>3, <2>4 DEF WidgetAfter
<1> QED
  BY <1>1, <1>2

\* The cursor's activity closes the completion or leaves it to the frame.
LEMMA ActivityIsFine ==
    ASSUME EditorsInv, cursorActivity, UNCHANGED <<editor, schema>>
    PROVE  EditorsInv'
<1>1. CASE ~completion.active
  <2>1. ~widget.shown /\ ~frame
    BY <1>1 DEF EditorsInv, PopupIsOfTheWord, NoWidget
  <2>2. UNCHANGED <<completion, widget, frame>>
    BY <1>1 DEF cursorActivity, popup
  <2> QED
    BY <1>1, <2>1, <2>2
    DEF EditorsInv, PopupIsOfTheWord, IsCompletion, IsWidget, NoCompletion, NoWidget
<1>2. CASE close
  BY <1>2, ClosedIsFine
<1>3. CASE completion.active /\ ~close
  <2>1. frame' /\ widget' = disable(widget) /\ UNCHANGED completion
    BY <1>3 DEF cursorActivity
  <2>2. CASE widget = NoWidget
    BY <1>3, <2>1, <2>2 DEF EditorsInv, PopupIsOfTheWord, NoWidget, disable, IsCompletion, NoCompletion
  <2>3. CASE IsWidget(widget)
    <3>1. PICK d, i, n, e, p : widget = [shown |-> TRUE, data |-> d, selected |-> i,
                                information |-> n, enabled |-> e, picked |-> p]
      BY <2>3 DEF IsWidget
    <3>2. widget' = [shown |-> TRUE, data |-> d, selected |-> i,
                     information |-> n, enabled |-> FALSE, picked |-> p]
      BY <2>1, <3>1 DEF disable
    <3>3. IsWidget(widget')
      BY <3>2 DEF IsWidget
    <3>4. /\ completion.schema # NoSchema
          /\ completion.active
          /\ n = d.list[i]
          /\ editor = "query" => completion.schema = schema
      BY <3>1 DEF EditorsInv, PopupIsOfTheWord
    <3>5. PopupIsOfTheWord'
      BY <2>1, <3>2, <3>4 DEF PopupIsOfTheWord
    <3>6. completion' = NoCompletion \/ IsCompletion(completion')
      BY <2>1 DEF EditorsInv, NoCompletion, IsCompletion
    <3> QED
      BY <2>1, <3>3, <3>4, <3>5, <3>6 DEF EditorsInv
  <2> QED
    BY <2>2, <2>3 DEF EditorsInv
<1> QED
  BY <1>1, <1>2, <1>3 DEF cursorActivity

\* EditorsInv holds whatever happens to the two editors.
LEMMA EditorsInvariant == Spec => []EditorsInv
<1>1. Init => EditorsInv
  BY DEF Init, EditorsInv, PopupIsOfTheWord, NoCompletion, NoWidget
<1>2. EditorsInv /\ [Next]_vars => EditorsInv'
  <2> SUFFICES ASSUME EditorsInv, [Next]_vars
               PROVE  EditorsInv'
    OBVIOUS
  <2>1. ASSUME NEW new, NEW at, Edit(new, at)
        PROVE  EditorsInv'
    BY <2>1, ActivityIsFine DEF Edit
  <2>2. ASSUME NEW data, NEW i, pick(data, i)
        PROVE  EditorsInv'
    BY <2>2, ClosedIsFine DEF pick
  <2>3. CASE UNCHANGED vars
    BY <2>3, UntouchedIsFine DEF vars, text, popup
  <2>4. CASE (\E c \in Characters : Type(c)) \/ Backspace
    BY <2>1, <2>4 DEF Type, Backspace
  <2>5. CASE MoveCursor
    BY <2>5, ActivityIsFine DEF MoveCursor
  <2>6. CASE OnKeyUp \/ CtrlSpace
    <3>1. PICK single : showHint(single) /\ UNCHANGED <<editor, schema>>
      BY <2>6 DEF OnKeyUp, CtrlSpace
    <3> DEFINE c == [active |-> TRUE, start |-> cursor, rest |-> Len(line) - cursor,
                     schema |-> schema, data |-> None]
    <3>2. IsCompletion(c) /\ c.schema = schema
      BY DEF IsCompletion
    <3>3. update(c, single, {})
      BY <3>1 DEF showHint
    <3> HIDE DEF c
    <3> QED
      BY <3>1, <3>2, <3>3, UpdateIsFine
  <2>7. CASE WidgetKey
    <3>1. CASE Select(screenAmount)
      <4>1. PICK j : /\ widget' = [widget EXCEPT !.selected = j,
                                                 !.information = widget.data.list[j]]
                     /\ widget.shown
                     /\ UNCHANGED <<line, cursor, schema, editor, completion, frame>>
        BY <2>7, <3>1 DEF WidgetKey, Select, changeActive, text
      <4>2. PICK d, i, n, e, p : widget = [shown |-> TRUE, data |-> d, selected |-> i,
                                  information |-> n, enabled |-> e, picked |-> p]
        BY <4>1 DEF EditorsInv, IsWidget, NoWidget
      <4>3. widget' = [shown |-> TRUE, data |-> d, selected |-> j,
                       information |-> d.list[j], enabled |-> e, picked |-> p]
        BY <4>1, <4>2
      <4>4. IsWidget(widget')
        BY <4>3 DEF IsWidget
      <4>5. PopupIsOfTheWord'
        BY <4>1, <4>2, <4>3 DEF EditorsInv, PopupIsOfTheWord
      <4>6. completion' = NoCompletion \/ IsCompletion(completion')
        BY <4>1 DEF EditorsInv, NoCompletion, IsCompletion
      <4> QED
        BY <4>1, <4>4, <4>5, <4>6 DEF EditorsInv
    <3>2. CASE Enter /\ ~widget.enabled
      <4>1. /\ widget' = [widget EXCEPT !.picked = TRUE]
            /\ widget.shown
            /\ UNCHANGED <<line, cursor, schema, editor, completion, frame>>
        BY <2>7, <3>2 DEF WidgetKey, Enter, text
      <4>2. PICK d, i, n, e, p : widget = [shown |-> TRUE, data |-> d, selected |-> i,
                                  information |-> n, enabled |-> e, picked |-> p]
        BY <4>1 DEF EditorsInv, IsWidget, NoWidget
      <4>3. widget' = [shown |-> TRUE, data |-> d, selected |-> i,
                       information |-> n, enabled |-> e, picked |-> TRUE]
        BY <4>1, <4>2
      <4>4. IsWidget(widget')
        BY <4>3 DEF IsWidget
      <4>5. PopupIsOfTheWord'
        BY <4>1, <4>2, <4>3 DEF EditorsInv, PopupIsOfTheWord
      <4>6. completion' = NoCompletion \/ IsCompletion(completion')
        BY <4>1 DEF EditorsInv, NoCompletion, IsCompletion
      <4> QED
        BY <4>1, <4>4, <4>5, <4>6 DEF EditorsInv
    <3>3. CASE Enter /\ widget.enabled
      BY <2>2, <3>3 DEF Enter
    <3>4. CASE Esc
      BY <3>4, ClosedIsFine DEF Esc
    <3> QED
      BY <2>7, <3>1, <3>2, <3>3, <3>4 DEF WidgetKey
  <2>8. CASE ClickHint
    BY <2>2, <2>8 DEF ClickHint, Click
  <2>9. CASE Frame /\ UNCHANGED <<editor, focused>>
    <3>1. /\ frame /\ UNCHANGED <<editor, schema>>
          /\ update(completion, widget.shown /\ widget.picked, {"gone" : t \in blurTimers})
      BY <2>9 DEF Frame
    <3>2. completion.active /\ IsCompletion(completion)
      BY <3>1 DEF EditorsInv, NoCompletion
    <3>3. editor = "query" => completion.schema \in {NoSchema, schema}
      BY <3>2 DEF EditorsInv
    <3> QED
      BY <3>1, <3>2, <3>3, UpdateIsFine
  <2>10. CASE Blur \/ Focus \/ LintTimer
    BY <2>10, UntouchedIsFine DEF Blur, Focus, LintTimer, text, popup
  <2>11. CASE BlurTimer
    BY <2>11, ClosedIsFine DEF BlurTimer
  <2>12. CASE Prettify \/ AutoCompleteLeafs
    BY <2>1, <2>12 DEF Prettify, AutoCompleteLeafs
  <2>13. CASE SchemaChanges
    <3>1. /\ editor = "query" => schema = NoSchema
          /\ UNCHANGED <<editor, line, cursor, completion, widget, frame>>
      BY <2>13 DEF SchemaChanges, ComponentDidUpdate, text, popup
    <3>2. completion.active /\ editor = "query" => completion.schema = NoSchema
      BY <3>1 DEF EditorsInv
    <3>3. editor = "query" => ~widget.shown
      BY <3>2 DEF EditorsInv, PopupIsOfTheWord, NoWidget
    <3> QED
      BY <3>1, <3>2, <3>3
      DEF EditorsInv, PopupIsOfTheWord, IsCompletion, IsWidget, NoCompletion, NoWidget
  <2> QED
    BY <2>3, <2>4, <2>5, <2>6, <2>7, <2>8, <2>9, <2>10, <2>11, <2>12, <2>13
    DEF Next, Step
<1> QED
  BY <1>1, <1>2, PTL DEF Spec

\* A popup that is on the screen between two frames takes keys and shows what the
\* hint function says of the word at the cursor, in the query editor of the schema the
\* page has by now, and informs about the hint that is selected.
THEOREM PopupFollowsTheWord == Spec => []PopupIsOfTheWord
<1>1. EditorsInv => PopupIsOfTheWord
  BY DEF EditorsInv
<1> QED
  BY <1>1, EditorsInvariant, PTL

-----------------------------------------------------------------------------
(* Numbers, orders and sequences.                                           *)

\* The least number of a set: every proof by induction below is one by a least
\* counterexample.
LEMMA Least ==
    ASSUME NEW T, T \subseteq Nat, T # {}
    PROVE  \E x \in T : \A y \in T : x <= y
<1> DEFINE R == {ss \in Nat \X Nat : ss[1] < ss[2]}
<1>1. IsWellFoundedOn(R, Nat)
  BY NatLessThanWellFounded DEF OpToRel
<1>2. \A a, b \in Nat : <<a, b>> \in R <=> a < b
  OBVIOUS
<1> HIDE DEF R
<1>3. PICK x \in T : \A y \in T : ~ (<<y, x>> \in R)
  BY <1>1, WFMin
<1>4. x \in Nat /\ \A y \in T : y \in Nat /\ ~(y < x)
  BY <1>2, <1>3
<1>5. QED
  BY <1>3, <1>4

\* The minimum of a set of numbers.
LEMMA MinIsLeast ==
    ASSUME NEW S, S \subseteq Nat, S # {}
    PROVE  Min(S) \in S /\ Min(S) \in Nat
BY Least DEF Min

\* In a finite set with a strict total order there is an element behind any smaller
\* number of others.
LEMMA Ranks ==
    ASSUME NEW S, IsFiniteSet(S), NEW Less, NEW k \in 1 .. Cardinality(S),
           \A e \in S : <<e, e>> \notin Less,
           \A e, f, g \in S : <<e, f>> \in Less /\ <<f, g>> \in Less => <<e, g>> \in Less,
           \A e, f \in S : e # f => <<e, f>> \in Less \/ <<f, e>> \in Less
    PROVE  \E e \in S : Cardinality({f \in S : <<f, e>> \in Less}) = k - 1
<1> DEFINE Below(e) == {f \in S : <<f, e>> \in Less}
           n == Cardinality(S)
           rank == [e \in S |-> Cardinality(Below(e))]
<1>1. n \in Nat
  BY FS_CardinalityType
<1>2. ASSUME NEW e \in S
      PROVE  IsFiniteSet(Below(e)) /\ rank[e] \in 0 .. n - 1
  <2>1. Below(e) \in SUBSET (S \ {e})
    OBVIOUS
  <2> HIDE DEF Below
  <2>2. IsFiniteSet(S \ {e}) /\ Cardinality(S \ {e}) = n - 1
    BY FS_RemoveElement
  <2>3. IsFiniteSet(Below(e)) /\ Cardinality(Below(e)) <= n - 1
    BY <2>1, <2>2, FS_Subset
  <2>4. Cardinality(Below(e)) \in Nat
    BY <2>3, FS_CardinalityType
  <2>5. QED BY <1>1, <2>3, <2>4
<1>3. ASSUME NEW e \in S, NEW f \in S, <<e, f>> \in Less
      PROVE  rank[e] # rank[f]
  <2>1. Below(e) \in SUBSET (Below(f) \ {e})
    BY <1>3
  <2>2. e \in Below(f)
    BY <1>3
  <2> HIDE DEF Below
  <2>3. IsFiniteSet(Below(f) \ {e}) /\ Cardinality(Below(f) \ {e}) = Cardinality(Below(f)) - 1
    BY <1>2, <2>2, FS_RemoveElement
  <2>4. Cardinality(Below(e)) <= Cardinality(Below(f)) - 1
    BY <2>1, <2>3, FS_Subset
  <2>5. rank[e] <= rank[f] - 1
    BY <2>4
  <2> HIDE DEF rank
  <2>6. rank[e] \in 0 .. n - 1 /\ rank[f] \in 0 .. n - 1
    BY <1>2
  <2> HIDE DEF n
  <2>7. QED BY <1>1, <2>5, <2>6
<1>4. rank \in [S -> 0 .. n - 1]
  BY <1>2
<1>5. \A e, f \in S : rank[e] = rank[f] => e = f
  BY <1>3
<1> HIDE DEF rank
<1>6. rank \in Injection(S, 0 .. n - 1)
  BY <1>4, <1>5 DEF Injection, IsInjective
<1>7. IsFiniteSet(0 .. n - 1) /\ Cardinality(0 .. n - 1) = n
  <2>1. 0 \in Int /\ n - 1 \in Int /\ ~(0 > n - 1) /\ n - 1 - 0 + 1 = n
    BY <1>1
  <2> HIDE DEF n
  <2>2. QED BY <2>1, <1>1, FS_Interval
<1>8. rank \in Surjection(S, 0 .. n - 1)
  BY <1>6, <1>7, FS_Injection
<1>9. PICK e \in S : rank[e] = k - 1
  BY <1>1, <1>8 DEF Surjection
<1>10. QED
  BY <1>9 DEF rank

\* A function on the first numbers is a sequence.
LEMMA IsSequence ==
    ASSUME NEW S, NEW n \in Nat, NEW f \in [1 .. n -> S]
    PROVE  f \in Seq(S) /\ Len(f) = n
OBVIOUS

\* Two sequences joined.
LEMMA Joined ==
    ASSUME NEW S, NEW a \in Seq(S), NEW b \in Seq(S)
    PROVE  a \o b \in Seq(S) /\ Len(a \o b) = Len(a) + Len(b)
OBVIOUS

-----------------------------------------------------------------------------
(* The distance of two words, which is a number: a table can be filled in.  *)

\* The table of the distances between the beginnings of two words, by its equation.
Table(a, b) == (0 .. Len(a)) \X (0 .. Len(b))
Entry(a, b, d, i, j) ==
    LET cost  == IF a[i] = b[j] THEN 0 ELSE 1
        swaps == i > 1 /\ j > 1 /\ a[i] = b[j - 1] /\ a[i - 1] = b[j]
    IN  IF i = 0 \/ j = 0 THEN i + j
        ELSE Min({d[<<i - 1, j>>] + 1, d[<<i, j - 1>>] + 1, d[<<i - 1, j - 1>>] + cost}
                 \union (IF swaps THEN {d[<<i - 2, j - 2>>] + cost} ELSE {}))

\* The entries an entry is computed from.
Earlier(i, j) ==
    IF i = 0 \/ j = 0 THEN {}
    ELSE {<<i - 1, j>>, <<i, j - 1>>, <<i - 1, j - 1>>}
         \union (IF i > 1 /\ j > 1 THEN {<<i - 2, j - 2>>} ELSE {})

\* An entry made of numbers is one.
LEMMA EntryType ==
    ASSUME NEW a, NEW b, NEW d, NEW i \in Nat, NEW j \in Nat,
           \A p \in Earlier(i, j) : d[p] \in Nat
    PROVE  Entry(a, b, d, i, j) \in Nat
<1>1. CASE i = 0 \/ j = 0
  BY <1>1 DEF Entry
<1>2. CASE i > 0 /\ j > 0
  <2> DEFINE cost  == IF a[i] = b[j] THEN 0 ELSE 1
             swaps == i > 1 /\ j > 1 /\ a[i] = b[j - 1] /\ a[i - 1] = b[j]
             S == {d[<<i - 1, j>>] + 1, d[<<i, j - 1>>] + 1, d[<<i - 1, j - 1>>] + cost}
                 \union (IF swaps THEN {d[<<i - 2, j - 2>>] + cost} ELSE {})
  <2>1. S \subseteq Nat /\ S # {}
    BY <1>2 DEF Earlier
  <2>2. Entry(a, b, d, i, j) = Min(S)
    BY <1>2 DEF Entry
  <2> HIDE DEF S
  <2>3. QED
    BY <2>1, <2>2, MinIsLeast
<1>3. QED BY <1>1, <1>2

\* An entry depends on the earlier ones only.
LEMMA EntryLocal ==
    ASSUME NEW a, NEW b, NEW d, NEW e, NEW i \in Nat, NEW j \in Nat,
           \A p \in Earlier(i, j) : d[p] = e[p]
    PROVE  Entry(a, b, d, i, j) = Entry(a, b, e, i, j)
<1>1. CASE i = 0 \/ j = 0
  BY <1>1 DEF Entry
<1>2. CASE i > 0 /\ j > 0
  <2>1. /\ d[<<i - 1, j>>] = e[<<i - 1, j>>]
        /\ d[<<i, j - 1>>] = e[<<i, j - 1>>]
        /\ d[<<i - 1, j - 1>>] = e[<<i - 1, j - 1>>]
        /\ i > 1 /\ j > 1 => d[<<i - 2, j - 2>>] = e[<<i - 2, j - 2>>]
    BY <1>2 DEF Earlier
  <2>2. QED
    BY <2>1 DEF Entry
<1>3. QED BY <1>1, <1>2

\* The distance is the last entry of the table.
LEMMA DistanceDef ==
    ASSUME NEW a, NEW b
    PROVE  lexicalDistance(a, b) =
             (CHOOSE d : d = [p \in Table(a, b) |-> Entry(a, b, d, p[1], p[2])])[<<Len(a), Len(b)>>]
BY DEF lexicalDistance, Entry, Table

\* The earlier entries are those of earlier diagonals.
LEMMA EarlierIsEarlier ==
    ASSUME NEW a, NEW b, NEW p \in Table(a, b), NEW q \in Earlier(p[1], p[2]),
           Len(a) \in Nat, Len(b) \in Nat
    PROVE  /\ q \in Table(a, b) /\ p[1] \in Nat /\ p[2] \in Nat
           /\ q[1] + q[2] < p[1] + p[2]
<1>1. PICK i \in 0 .. Len(a), j \in 0 .. Len(b) : p = <<i, j>>
  BY DEF Table
<1>2. i # 0 /\ j # 0 /\ q \in Earlier(i, j)
  BY <1>1 DEF Earlier
<1>3. \/ q = <<i - 1, j>> \/ q = <<i, j - 1>> \/ q = <<i - 1, j - 1>>
      \/ i > 1 /\ j > 1 /\ q = <<i - 2, j - 2>>
  BY <1>2 DEF Earlier
<1>4. QED
  BY <1>1, <1>2, <1>3 DEF Table

\* There is a table that satisfies the equation, and its entries are numbers: the
\* entries up to each diagonal can be filled in.
LEMMA TableExists ==
    ASSUME NEW a, NEW b, Len(a) \in Nat, Len(b) \in Nat
    PROVE  \E d : d = [p \in Table(a, b) |-> Entry(a, b, d, p[1], p[2])]
<1> DEFINE Fills(d, n) == \A p \in Table(a, b) :
                             p[1] + p[2] < n => d[p] = Entry(a, b, d, p[1], p[2])
           T == {n \in Nat : ~\E d \in [Table(a, b) -> Nat] : Fills(d, n)}
<1>0. \A p \in Table(a, b) : p[1] \in 0 .. Len(a) /\ p[2] \in 0 .. Len(b)
  BY DEF Table
<1>1. T = {}
  <2> SUFFICES ASSUME T # {} PROVE FALSE
    OBVIOUS
  <2>1. PICK n \in T : \A m \in T : n <= m
    BY Least
  <2>2. n # 0
    <3>1. Fills([p \in Table(a, b) |-> 0], 0)
      BY <1>0
    <3>2. [p \in Table(a, b) |-> 0] \in [Table(a, b) -> Nat]
      OBVIOUS
    <3>3. QED BY <3>1, <3>2
  <2>3. PICK d \in [Table(a, b) -> Nat] : Fills(d, n - 1)
    <3> HIDE DEF Fills
    <3>1. n - 1 \in Nat /\ n - 1 \notin T
      BY <2>1, <2>2
    <3>2. QED BY <3>1
  <2> DEFINE e == [p \in Table(a, b) |->
                      IF p[1] + p[2] < n - 1 THEN d[p] ELSE Entry(a, b, d, p[1], p[2])]
  <2>4. \A p \in Table(a, b) : Entry(a, b, d, p[1], p[2]) \in Nat
    <3> SUFFICES ASSUME NEW p \in Table(a, b) PROVE Entry(a, b, d, p[1], p[2]) \in Nat
      OBVIOUS
    <3>1. \A q \in Earlier(p[1], p[2]) : d[q] \in Nat
      BY EarlierIsEarlier
    <3>2. QED BY <1>0, <3>1, EntryType
  <2>5. e \in [Table(a, b) -> Nat]
    BY <2>4
  <2>6. ASSUME NEW p \in Table(a, b), p[1] + p[2] < n
        PROVE  e[p] = Entry(a, b, e, p[1], p[2])
    <3>1. \A q \in Earlier(p[1], p[2]) : q \in Table(a, b) /\ q[1] + q[2] < n - 1
      BY <1>0, <2>6, EarlierIsEarlier
    <3>2. \A q \in Earlier(p[1], p[2]) : e[q] = d[q]
      BY <3>1
    <3>3. Entry(a, b, e, p[1], p[2]) = Entry(a, b, d, p[1], p[2])
      <4> HIDE DEF e
      <4>1. p[1] \in Nat /\ p[2] \in Nat
        BY <1>0
      <4>2. QED BY <4>1, <3>2, EntryLocal
    <3>4. e[p] = Entry(a, b, d, p[1], p[2])
      BY <2>3
    <3>5. QED BY <3>3, <3>4
  <2>7. Fills(e, n)
    BY <2>6
  <2> HIDE DEF e, Fills
  <2>8. QED BY <2>1, <2>5, <2>7
<1>2. PICK d \in [Table(a, b) -> Nat] : Fills(d, Len(a) + Len(b) + 1)
  <2> HIDE DEF Fills
  <2>1. Len(a) + Len(b) + 1 \in Nat
    OBVIOUS
  <2>2. QED BY <1>1, <2>1
<1>3. d = [p \in Table(a, b) |-> Entry(a, b, d, p[1], p[2])]
  BY <1>0, <1>2
<1>4. QED BY <1>3

\* Distances are numbers.
LEMMA DistanceType ==
    ASSUME NEW a, NEW b, Len(a) \in Nat, Len(b) \in Nat
    PROVE  lexicalDistance(a, b) \in Nat
<1> DEFINE d == CHOOSE d : d = [p \in Table(a, b) |-> Entry(a, b, d, p[1], p[2])]
           T == {n \in Nat : \E p \in Table(a, b) : p[1] + p[2] = n /\ d[p] \notin Nat}
<1>1. d = [p \in Table(a, b) |-> Entry(a, b, d, p[1], p[2])]
  BY TableExists
<1>2. lexicalDistance(a, b) = d[<<Len(a), Len(b)>>]
  BY DistanceDef
<1> HIDE DEF d
<1>3. T = {}
  <2> SUFFICES ASSUME T # {} PROVE FALSE
    OBVIOUS
  <2>1. PICK n \in T : \A m \in T : n <= m
    BY Least
  <2>2. PICK p \in Table(a, b) : p[1] + p[2] = n /\ d[p] \notin Nat
    BY <2>1
  <2>3. p[1] \in Nat /\ p[2] \in Nat
    BY DEF Table
  <2>4. \A q \in Earlier(p[1], p[2]) : d[q] \in Nat
    <3> SUFFICES ASSUME NEW q \in Earlier(p[1], p[2]) PROVE d[q] \in Nat
      OBVIOUS
    <3>1. q \in Table(a, b) /\ q[1] + q[2] < n
      BY <2>2, EarlierIsEarlier
    <3>2. q[1] + q[2] \in Nat
      BY <3>1 DEF Table
    <3>3. q[1] + q[2] \notin T
      BY <2>1, <3>1, <3>2
    <3>4. QED BY <3>1, <3>2, <3>3
  <2>5. Entry(a, b, d, p[1], p[2]) \in Nat
    BY <2>3, <2>4, EntryType
  <2>6. QED BY <1>1, <2>2, <2>5
<1>4. <<Len(a), Len(b)>> \in Table(a, b)
  BY DEF Table
<1>5. d[<<Len(a), Len(b)>>] \in Nat
  <2>1. \A p \in Table(a, b) : p[1] + p[2] \in Nat
    BY DEF Table
  <2>2. \A p \in Table(a, b) : d[p] \in Nat
    BY <1>3, <2>1
  <2>3. QED BY <1>4, <2>2
<1>6. QED
  BY <1>2, <1>5

-----------------------------------------------------------------------------
(* The list that is offered.                                                *)

\* Proximities are numbers.
LEMMA ProximityType ==
    ASSUME NEW C, NEW name \in Seq(C), NEW typed \in Seq(C)
    PROVE  getProximity(name, typed) \in Int
<1>1. lexicalDistance(typed, name) \in Nat
  BY DistanceType
<1>2. QED BY <1>1 DEF getProximity

\* An entry of the list, by its fields.
IsEntry(e) == /\ e.at \in Nat /\ e.length \in Nat /\ e.proximity \in Int
              /\ e = [at |-> e.at, length |-> e.length, proximity |-> e.proximity]

\* There is an entry at any place of the order.
LEMMA SortedRanks ==
    ASSUME NEW S, IsFiniteSet(S), \A e \in S : IsEntry(e), NEW k \in 1 .. Cardinality(S)
    PROVE  \E e \in S : Cardinality({f \in S : Closer(f, e)}) = k - 1
<1> DEFINE Less == {ef \in S \X S : Closer(ef[1], ef[2])}
<1>1. \A e, f \in S : <<e, f>> \in Less <=> Closer(e, f)
  OBVIOUS
<1> HIDE DEF Less
<1>2. \A e \in S : ~Closer(e, e)
  BY DEF Closer, IsEntry
<1>3. \A e, f, g \in S : Closer(e, f) /\ Closer(f, g) => Closer(e, g)
  BY DEF Closer, IsEntry
<1>4. ASSUME NEW e \in S, NEW f \in S, e # f
      PROVE  Closer(e, f) \/ Closer(f, e)
  <2>1. e.at # f.at \/ e.length # f.length \/ e.proximity # f.proximity
    BY <1>4 DEF IsEntry
  <2>2. QED BY <2>1 DEF Closer, IsEntry
<1>5. /\ \A e \in S : <<e, e>> \notin Less
      /\ \A e, f, g \in S : <<e, f>> \in Less /\ <<f, g>> \in Less => <<e, g>> \in Less
      /\ \A e, f \in S : e # f => <<e, f>> \in Less \/ <<f, e>> \in Less
  BY <1>1, <1>2, <1>3, <1>4
<1>6. PICK e \in S : Cardinality({f \in S : <<f, e>> \in Less}) = k - 1
  BY <1>5, Ranks
<1>7. {f \in S : <<f, e>> \in Less} = {f \in S : Closer(f, e)}
  BY <1>1
<1> QED BY <1>6, <1>7

\* What is offered are names of the list, at least one if there is one.
LEMMA FilteredAreNames ==
    ASSUME NEW C, NEW list \in Seq(Seq(C)), list # <<>>, NEW typed \in Seq(C)
    PROVE  /\ filterAndSortList(list, typed) \in Seq(Seq(C))
           /\ Len(filterAndSortList(list, typed)) > 0
           /\ \A k \in 1 .. Len(filterAndSortList(list, typed)) :
                 \E i \in DOMAIN list : filterAndSortList(list, typed)[k] = list[i]
<1> DEFINE entry   == [i \in DOMAIN list |-> [at |-> i, length |-> Len(list[i]),
                                             proximity |-> getProximity(list[i], typed)]]
           entries == {[at |-> i, length |-> Len(list[i]),
                        proximity |-> getProximity(list[i], typed)] : i \in DOMAIN list}
           near    == {e \in entries : e.proximity <= 4}
           nth(k)  == CHOOSE e \in near : Cardinality({f \in near : Closer(f, e)}) = k - 1
           sorted  == [k \in 1 .. Cardinality(near) |-> list[nth(k).at]]
<1>1. filterAndSortList(list, typed) = IF typed = <<>> \/ near = {} THEN list ELSE sorted
  BY DEF filterAndSortList
<1>2. CASE typed = <<>> \/ near = {}
  <2>1. filterAndSortList(list, typed) = list
    BY <1>1, <1>2
  <2>2. Len(list) > 0
    OBVIOUS
  <2>3. \A k \in 1 .. Len(list) : k \in DOMAIN list
    OBVIOUS
  <2> HIDE DEF near, sorted, entries, entry
  <2>4. QED BY <2>1, <2>2, <2>3
<1>3. CASE near # {}
  <2>1. \A e \in near : e.at \in DOMAIN list /\ IsEntry(e)
    <3> SUFFICES ASSUME NEW i \in DOMAIN list
                 PROVE  /\ i \in Nat /\ Len(list[i]) \in Nat
                        /\ getProximity(list[i], typed) \in Int
      BY DEF IsEntry
    <3>1. list[i] \in Seq(C)
      OBVIOUS
    <3>2. getProximity(list[i], typed) \in Int
      BY <3>1, ProximityType
    <3>3. i \in Nat /\ Len(list[i]) \in Nat
      BY <3>1
    <3>4. QED BY <3>2, <3>3
  <2>2. IsFiniteSet(near)
    <3>1. IsFiniteSet(DOMAIN list)
      <4>1. DOMAIN list = 1 .. Len(list) /\ 1 \in Int /\ Len(list) \in Int
        OBVIOUS
      <4>2. IsFiniteSet(1 .. Len(list))
        BY <4>1, FS_Interval
      <4>3. QED BY <4>1, <4>2
    <3>2. entry \in Surjection(DOMAIN list, entries)
      BY DEF Surjection
    <3>3. IsFiniteSet(entries)
      BY <3>1, <3>2, FS_Surjection
    <3>4. near \in SUBSET entries
      OBVIOUS
    <3> HIDE DEF near, entries
    <3>5. QED BY <3>3, <3>4, FS_Subset
  <2> HIDE DEF near
  <2>3. Cardinality(near) \in Nat /\ Cardinality(near) > 0
    BY <1>3, <2>2, FS_CardinalityType, FS_EmptySet
  <2>6. \A k \in 1 .. Cardinality(near) : nth(k) \in near
    BY <2>1, <2>2, SortedRanks
  <2> HIDE DEF nth
  <2>7. \A k \in 1 .. Cardinality(near) : nth(k).at \in DOMAIN list
    BY <2>1, <2>6
  <2>8. sorted \in Seq(Seq(C)) /\ Len(sorted) = Cardinality(near)
    <3>1. \A k \in 1 .. Cardinality(near) : list[nth(k).at] \in Seq(C)
      BY <2>7
    <3> DEFINE n == Cardinality(near)
    <3>2. n \in Nat
      BY <2>3
    <3>3. sorted \in [1 .. n -> Seq(C)]
      BY <3>1
    <3> HIDE DEF sorted, n
    <3>4. sorted \in Seq(Seq(C)) /\ Len(sorted) = n
      BY <3>2, <3>3, IsSequence
    <3>5. QED BY <3>4 DEF n
  <2>9. CASE typed # <<>>
    BY <1>1, <1>3, <2>3, <2>7, <2>8, <2>9
  <2>10. QED BY <1>2, <2>9
<1>4. QED BY <1>2, <1>3

\* A table of distances, by its equation.
IsTable(a, b, d) == d = [p \in Table(a, b) |-> Entry(a, b, d, p[1], p[2])]

\* A distance is the last entry of such a table.
LEMMA DistanceTable ==
    ASSUME NEW a, NEW b, Len(a) \in Nat, Len(b) \in Nat
    PROVE  \E d : IsTable(a, b, d) /\ lexicalDistance(a, b) = d[<<Len(a), Len(b)>>]
BY TableExists, DistanceDef DEF IsTable

\* What an entry is, and the diagonal before it, of equal letters.
IsMade(a, b, d, i, j, e) ==
    \/ e = d[<<i - 1, j>>] + 1
    \/ e = d[<<i, j - 1>>] + 1
    \/ e = d[<<i - 1, j - 1>>] + 1
    \/ e = d[<<i - 1, j - 1>>] /\ a[i] = b[j]
    \/ /\ i > 1 /\ j > 1 /\ a[i] = b[j - 1] /\ a[i - 1] = b[j]
       /\ \/ e = d[<<i - 2, j - 2>>] + 1
          \/ e = d[<<i - 2, j - 2>>] /\ a[i] = b[j]

\* An entry is made of an earlier one, and equal letters cost nothing.
LEMMA EntryIs ==
    ASSUME NEW a, NEW b, NEW d, NEW i \in Nat, NEW j \in Nat, i > 0, j > 0,
           \A p \in Earlier(i, j) : d[p] \in Nat
    PROVE  /\ IsMade(a, b, d, i, j, Entry(a, b, d, i, j))
           /\ a[i] = b[j] => Entry(a, b, d, i, j) <= d[<<i - 1, j - 1>>]
<1> DEFINE cost  == IF a[i] = b[j] THEN 0 ELSE 1
           swaps == i > 1 /\ j > 1 /\ a[i] = b[j - 1] /\ a[i - 1] = b[j]
           S == {d[<<i - 1, j>>] + 1, d[<<i, j - 1>>] + 1, d[<<i - 1, j - 1>>] + cost}
                \union (IF swaps THEN {d[<<i - 2, j - 2>>] + cost} ELSE {})
<1>1. S \subseteq Nat /\ S # {} /\ d[<<i - 1, j - 1>>] \in Nat
      /\ (i > 1 /\ j > 1 => d[<<i - 2, j - 2>>] \in Nat)
  BY DEF Earlier
<1>2. Entry(a, b, d, i, j) = Min(S)
  BY DEF Entry
<1>3. Min(S) \in S /\ \A x \in S : Min(S) <= x
  <2> HIDE DEF S
  <2> QED
    BY <1>1, Least DEF Min
<1> DEFINE e == Entry(a, b, d, i, j)
<1>4. e \in S /\ \A x \in S : e <= x
  BY <1>2, <1>3
<1> HIDE DEF e
<1>5. a[i] = b[j] => d[<<i - 1, j - 1>>] \in S
  BY <1>1
<1>6. \/ e = d[<<i - 1, j>>] + 1
      \/ e = d[<<i, j - 1>>] + 1
      \/ e = d[<<i - 1, j - 1>>] + cost
      \/ swaps /\ e = d[<<i - 2, j - 2>>] + cost
  BY <1>4
<1>7. a[i] = b[j] => e <= d[<<i - 1, j - 1>>]
  BY <1>4, <1>5
<1> QED
  BY <1>1, <1>6, <1>7 DEF IsMade, e

\* A distance is at least the difference of the lengths, and that of equal words only is
\* nothing.
LEMMA EntryBounds ==
    ASSUME NEW a, NEW b, Len(a) \in Nat, Len(b) \in Nat, NEW d, IsTable(a, b, d)
    PROVE  \A p \in Table(a, b) :
              /\ d[p] \in Nat /\ d[p] >= p[1] - p[2] /\ d[p] >= p[2] - p[1]
              /\ d[p] = 0 => p[1] = p[2] /\ \A k \in 1 .. p[1] : a[k] = b[k]
<1> DEFINE Good(p) == /\ d[p] \in Nat /\ d[p] >= p[1] - p[2] /\ d[p] >= p[2] - p[1]
                      /\ d[p] = 0 => p[1] = p[2] /\ \A k \in 1 .. p[1] : a[k] = b[k]
           T == {n \in Nat : \E p \in Table(a, b) : p[1] + p[2] = n /\ ~Good(p)}
<1>1. T = {}
  <2> SUFFICES ASSUME T # {} PROVE FALSE
    OBVIOUS
  <2>1. PICK n \in T : \A m \in T : n <= m
    BY Least
  <2>2. PICK p \in Table(a, b) : p[1] + p[2] = n /\ ~Good(p)
    BY <2>1
  <2>3. PICK i \in 0 .. Len(a), j \in 0 .. Len(b) : p = <<i, j>>
    BY DEF Table
  <2>4. \A q \in Earlier(i, j) : Good(q)
    <3> SUFFICES ASSUME NEW q \in Earlier(i, j) PROVE Good(q)
      OBVIOUS
    <3> HIDE DEF Good
    <3>1. q \in Table(a, b) /\ q[1] + q[2] < n
      BY <2>2, <2>3, EarlierIsEarlier
    <3>2. q[1] + q[2] \in Nat
      BY <3>1 DEF Table
    <3>3. q[1] + q[2] \notin T
      BY <2>1, <3>1, <3>2
    <3> QED
      BY <3>1, <3>2, <3>3
  <2>5. d[p] = Entry(a, b, d, i, j)
    BY <2>3 DEF IsTable
  <2>6. CASE i = 0 \/ j = 0
    <3>1. d[p] = i + j
      BY <2>5, <2>6 DEF Entry
    <3>2. Good(p)
      BY <2>3, <2>6, <3>1
    <3> QED
      BY <2>2, <3>2
  <2>7. CASE i > 0 /\ j > 0
    <3>1. /\ Good(<<i - 1, j>>) /\ Good(<<i, j - 1>>) /\ Good(<<i - 1, j - 1>>)
          /\ i > 1 /\ j > 1 => Good(<<i - 2, j - 2>>)
      <4> HIDE DEF Good
      <4> QED
        BY <2>4, <2>7 DEF Earlier
    <3>2. \A q \in Earlier(i, j) : d[q] \in Nat
      BY <2>4
    <3>3. i \in Nat /\ j \in Nat
      OBVIOUS
    <3> DEFINE e == d[p]
               x == d[<<i - 1, j>>]
               y == d[<<i, j - 1>>]
               z == d[<<i - 1, j - 1>>]
               w == d[<<i - 2, j - 2>>]
    <3>4. /\ x \in Nat /\ x >= (i - 1) - j /\ x >= j - (i - 1)
          /\ y \in Nat /\ y >= i - (j - 1) /\ y >= (j - 1) - i
          /\ z \in Nat /\ z >= (i - 1) - (j - 1) /\ z >= (j - 1) - (i - 1)
      BY <3>1
    <3>5. ASSUME i > 1, j > 1
          PROVE  w \in Nat /\ w >= (i - 2) - (j - 2) /\ w >= (j - 2) - (i - 2)
      BY <3>1, <3>5
    <3>6. z = 0 => i - 1 = j - 1 /\ \A k \in 1 .. i - 1 : a[k] = b[k]
      BY <3>1
    <3>7. i > 1 /\ j > 1 /\ w = 0 => i - 2 = j - 2 /\ \A k \in 1 .. i - 2 : a[k] = b[k]
      BY <3>1
    <3>8. IsMade(a, b, d, i, j, d[p])
      <4> HIDE DEF e, x, y, z, w, Good
      <4>1. i > 0 /\ j > 0
        BY <2>7
      <4> QED
        BY <2>5, <4>1, <3>2, <3>3, EntryIs
    <3>9. \/ e = x + 1
          \/ e = y + 1
          \/ e = z + 1
          \/ e = z /\ a[i] = b[j]
          \/ /\ i > 1 /\ j > 1 /\ a[i] = b[j - 1] /\ a[i - 1] = b[j]
             /\ e = w + 1 \/ (e = w /\ a[i] = b[j])
      BY <3>8 DEF IsMade
    <3> HIDE DEF e, x, y, z, w, Good
    <3>10. /\ e \in Nat /\ e >= i - j /\ e >= j - i
           /\ e = 0 => i = j
      <4>1. CASE e = x + 1 \/ e = y + 1
        BY <3>3, <3>4, <4>1
      <4>2. CASE e = z + 1 \/ e = z
        BY <3>3, <3>4, <4>2
      <4>3. CASE i > 1 /\ j > 1 /\ (e = w + 1 \/ e = w)
        BY <3>3, <3>5, <4>3
      <4> QED
        BY <3>9, <4>1, <4>2, <4>3
    <3>11. ASSUME e = 0, NEW k \in 1 .. i
          PROVE  a[k] = b[k]
      <4>1. CASE z = 0 /\ a[i] = b[j]
        <5>1. k = i \/ k \in 1 .. i - 1
          OBVIOUS
        <5> QED
          BY <3>6, <3>10, <3>11, <4>1, <5>1
      <4>2. CASE /\ i > 1 /\ j > 1 /\ a[i] = b[j - 1] /\ a[i - 1] = b[j]
                 /\ w = 0 /\ a[i] = b[j]
        <5>1. k = i \/ k = i - 1 \/ k \in 1 .. i - 2
          OBVIOUS
        <5>2. i = j /\ a[i] = b[i] /\ a[i - 1] = b[i - 1]
          BY <3>10, <3>11, <4>2
        <5>3. \A m \in 1 .. i - 2 : a[m] = b[m]
          BY <3>7, <4>2
        <5> QED
          BY <5>1, <5>2, <5>3
      <4> QED
        BY <3>4, <3>5, <3>9, <3>11, <4>1, <4>2
    <3>12. Good(p)
      <4>1. p[1] = i /\ p[2] = j
        BY <2>3
      <4>2. /\ e \in Nat /\ e >= p[1] - p[2] /\ e >= p[2] - p[1]
            /\ e = 0 => p[1] = p[2] /\ \A k \in 1 .. p[1] : a[k] = b[k]
        BY <3>10, <3>11, <4>1
      <4> QED
        BY <4>2 DEF e, Good
    <3> QED
      BY <2>2, <3>12
  <2> QED
    BY <2>6, <2>7
<1>2. \A p \in Table(a, b) : p[1] + p[2] \in Nat
  BY DEF Table
<1> HIDE DEF Good
<1>3. \A p \in Table(a, b) : Good(p)
  BY <1>1, <1>2
<1> QED
  BY <1>3 DEF Good

\* The distance of a word to itself.
LEMMA NoDistance ==
    ASSUME NEW a, Len(a) \in Nat
    PROVE  lexicalDistance(a, a) = 0
<1>1. PICK d : IsTable(a, a, d) /\ lexicalDistance(a, a) = d[<<Len(a), Len(a)>>]
  BY DistanceTable
<1> DEFINE T == {n \in Nat : n <= Len(a) /\ d[<<n, n>>] # 0}
<1>2. T = {}
  <2> SUFFICES ASSUME T # {} PROVE FALSE
    OBVIOUS
  <2>1. PICK n \in T : \A m \in T : n <= m
    BY Least
  <2>2. n \in Nat /\ <<n, n>> \in Table(a, a) /\ d[<<n, n>>] # 0
    BY DEF Table
  <2>3. d[<<n, n>>] = Entry(a, a, d, n, n)
    BY <1>1, <2>2 DEF IsTable
  <2>4. n # 0
    BY <2>2, <2>3 DEF Entry
  <2>5. d[<<n - 1, n - 1>>] = 0
    <3>1. n - 1 \in Nat /\ n - 1 <= Len(a) /\ n - 1 \notin T
      BY <2>1, <2>4
    <3> QED
      BY <3>1
  <2>6. \A p \in Table(a, a) : d[p] \in Nat
    BY <1>1, EntryBounds
  <2>7. \A q \in Earlier(n, n) : d[q] \in Nat
    BY <2>2, <2>6, EarlierIsEarlier
  <2>8. n > 0 /\ a[n] = a[n]
    BY <2>2, <2>4
  <2>9. Entry(a, a, d, n, n) <= d[<<n - 1, n - 1>>]
    BY <2>2, <2>7, <2>8, EntryIs
  <2> QED
    BY <2>2, <2>3, <2>5, <2>6, <2>9
<1> QED
  BY <1>1, <1>2

\* Only the word itself is as close as that.
LEMMA ProximityBounds ==
    ASSUME NEW C, NEW name \in Seq(C), NEW typed \in Seq(C)
    PROVE  /\ name = typed => getProximity(name, typed) = 0
           /\ getProximity(name, typed) <= 0 => name = typed
<1>1. PICK d : IsTable(typed, name, d)
               /\ lexicalDistance(typed, name) = d[<<Len(typed), Len(name)>>]
  BY DistanceTable
<1> DEFINE n == lexicalDistance(typed, name)
<1>2. <<Len(typed), Len(name)>> \in Table(typed, name)
  BY DEF Table
<1>3. /\ n \in Nat /\ n >= Len(name) - Len(typed)
      /\ n = 0 => Len(typed) = Len(name) /\ \A k \in 1 .. Len(typed) : typed[k] = name[k]
  BY <1>1, <1>2, EntryBounds
<1>4. n = 0 => name = typed
  BY <1>3
<1>5. name = typed => n = 0
  BY NoDistance
<1> HIDE DEF n
<1>6. getProximity(name, typed) =
        2 * n - (IF Len(name) <= Len(typed) THEN 0
                 ELSE 2 * (Len(name) - Len(typed) - 1) + (IF Begins(name, typed) THEN 0 ELSE -1))
  BY DEF getProximity, n
<1>7. CASE Len(name) <= Len(typed)
  <2>1. n \in Nat
    BY <1>3
  <2>2. getProximity(name, typed) = 2 * n
    BY <1>6, <1>7, <2>1
  <2>3. getProximity(name, typed) <= 0 => n = 0
    BY <2>1, <2>2
  <2> QED
    BY <1>4, <1>5, <2>2, <2>3
<1>8. CASE Len(name) > Len(typed)
  <2>1. Len(name) \in Nat /\ Len(typed) \in Nat /\ name # typed
    BY <1>8
  <2>2. getProximity(name, typed) > 0
    <3> DEFINE b == IF Begins(name, typed) THEN 0 ELSE -1
    <3>1. b \in Int /\ b <= 0
      OBVIOUS
    <3>2. getProximity(name, typed) = 2 * n - (2 * (Len(name) - Len(typed) - 1) + b)
      <4>1. ~(Len(name) <= Len(typed))
        BY <1>8, <2>1
      <4> QED
        BY <1>6, <4>1
    <3>3. n \in Nat /\ n >= Len(name) - Len(typed)
      BY <1>3
    <3> HIDE DEF b
    <3> QED
      BY <2>1, <3>1, <3>2, <3>3
  <2>3. getProximity(name, typed) \in Int
    BY ProximityType
  <2> QED
    BY <2>1, <2>2, <2>3
<1> QED
  BY <1>7, <1>8

\* A name that is typed in full is offered first (4430), which is what Enter picks.
THEOREM TypedInFullComesFirst ==
    ASSUME NEW C, NEW list \in Seq(Seq(C)), NEW typed \in Seq(C), typed # <<>>,
           NEW i \in DOMAIN list, list[i] = typed
    PROVE  filterAndSortList(list, typed)[1] = typed
<1> DEFINE entry   == [j \in DOMAIN list |-> [at |-> j, length |-> Len(list[j]),
                                             proximity |-> getProximity(list[j], typed)]]
           entries == {[at |-> j, length |-> Len(list[j]),
                        proximity |-> getProximity(list[j], typed)] : j \in DOMAIN list}
           near    == {e \in entries : e.proximity <= 4}
           nth(k)  == CHOOSE e \in near : Cardinality({f \in near : Closer(f, e)}) = k - 1
           sorted  == [k \in 1 .. Cardinality(near) |-> list[nth(k).at]]
           mine    == [at |-> i, length |-> Len(list[i]), proximity |-> getProximity(list[i], typed)]
<1>1. filterAndSortList(list, typed) = IF typed = <<>> \/ near = {} THEN list ELSE sorted
  BY DEF filterAndSortList
<1>2. mine \in near /\ mine.proximity = 0
  <2>1. getProximity(list[i], typed) = 0
    BY ProximityBounds
  <2> QED
    BY <2>1
<1>3. \A e \in near : /\ e.at \in DOMAIN list /\ IsEntry(e)
                       /\ e.proximity = getProximity(list[e.at], typed)
  <2> SUFFICES ASSUME NEW j \in DOMAIN list
               PROVE  /\ j \in Nat /\ Len(list[j]) \in Nat
                      /\ getProximity(list[j], typed) \in Int
    BY DEF IsEntry
  <2>1. list[j] \in Seq(C)
    OBVIOUS
  <2>2. getProximity(list[j], typed) \in Int
    BY <2>1, ProximityType
  <2> QED
    BY <2>1, <2>2
<1>4. IsFiniteSet(near)
  <2>1. DOMAIN list = 1 .. Len(list) /\ 1 \in Int /\ Len(list) \in Int
    OBVIOUS
  <2>2. IsFiniteSet(DOMAIN list)
    BY <2>1, FS_Interval
  <2>3. entry \in Surjection(DOMAIN list, entries)
    BY DEF Surjection
  <2>4. IsFiniteSet(entries)
    BY <2>2, <2>3, FS_Surjection
  <2>5. near \in SUBSET entries
    OBVIOUS
  <2> HIDE DEF near, entries
  <2> QED
    BY <2>4, <2>5, FS_Subset
<1> HIDE DEF near, mine
<1>5. Cardinality(near) \in Nat /\ 1 \in 1 .. Cardinality(near)
  BY <1>2, <1>4, FS_CardinalityType, FS_EmptySet
<1>6. \E e \in near : Cardinality({f \in near : Closer(f, e)}) = 1 - 1
  BY <1>3, <1>4, <1>5, SortedRanks
<1> DEFINE first == nth(1)
<1>7. first \in near /\ Cardinality({f \in near : Closer(f, first)}) = 0
  <2>1. nth(1) \in near /\ Cardinality({f \in near : Closer(f, nth(1))}) = 1 - 1
    BY <1>6, Zenon
  <2> HIDE DEF nth
  <2> QED
    BY <2>1
<1> HIDE DEF nth, first
<1>8. ~Closer(mine, first)
  <2>1. {f \in near : Closer(f, first)} \in SUBSET near
    OBVIOUS
  <2>2. {f \in near : Closer(f, first)} = {}
    BY <1>4, <1>7, <2>1, FS_Subset, FS_EmptySet
  <2> QED
    BY <1>2, <2>2
<1>9. first.proximity <= 0
  BY <1>2, <1>3, <1>7, <1>8 DEF Closer, IsEntry
<1>10. list[first.at] = typed
  <2>1. list[first.at] \in Seq(C) /\ getProximity(list[first.at], typed) <= 0
    BY <1>3, <1>7, <1>9
  <2> QED
    BY <2>1, ProximityBounds
<1> QED
  BY <1>1, <1>2, <1>5, <1>10 DEF first

-----------------------------------------------------------------------------
(* The word at the cursor.                                                  *)

\* The token around a position.
LEMMA RunIsMaximal ==
    ASSUME NEW C, NEW l \in Seq(C), NEW p \in 1 .. Len(l), NEW S, l[p] \in S
    PROVE  /\ Run(l, p, S).start \in 0 .. p - 1
           /\ \A k \in Run(l, p, S).start + 1 .. p : l[k] \in S
           /\ Run(l, p, S).start > 0 => l[Run(l, p, S).start] \notin S
           /\ Run(l, p, S).end \in p .. Len(l)
           /\ \A k \in p + 1 .. Run(l, p, S).end : l[k] \in S
           /\ Run(l, p, S).end < Len(l) => l[Run(l, p, S).end + 1] \notin S
<1> DEFINE Starts(s) == (\A k \in s + 1 .. p : l[k] \in S) /\ (s > 0 => l[s] \notin S)
           Ends(e)   == (\A k \in p + 1 .. e : l[k] \in S) /\ (e < Len(l) => l[e + 1] \notin S)
<1>1. \E s \in 0 .. p - 1 : Starts(s)
  <2> DEFINE T == {s \in 0 .. p - 1 : \A k \in s + 1 .. p : l[k] \in S}
  <2>1. T \subseteq Nat /\ p - 1 \in T
    OBVIOUS
  <2>2. PICK s \in T : \A t \in T : s <= t
    BY <2>1, Least
  <2>3. ASSUME s > 0, l[s] \in S
        PROVE  FALSE
    <3>1. s - 1 \in T
      <4>1. s - 1 \in 0 .. p - 1
        BY <2>3
      <4>2. \A k \in (s - 1) + 1 .. p : k = s \/ k \in s + 1 .. p
        BY <2>3
      <4>3. QED BY <2>3, <4>1, <4>2
    <3>2. QED BY <2>2, <2>3, <3>1
  <2>4. QED BY <2>3
<1>2. \E e \in p .. Len(l) : Ends(e)
  <2> DEFINE T == {e \in p .. Len(l) : e < Len(l) => l[e + 1] \notin S}
  <2>1. T \subseteq Nat /\ Len(l) \in T
    OBVIOUS
  <2>2. PICK e \in T : \A t \in T : e <= t
    BY <2>1, Least
  <2>3. ASSUME NEW k \in p + 1 .. e
        PROVE  l[k] \in S
    <3>1. k - 1 \in p .. Len(l) /\ k - 1 < Len(l) /\ ~(e <= k - 1) /\ (k - 1) + 1 = k
      BY <2>3
    <3>2. k - 1 \notin T
      BY <2>2, <3>1
    <3>3. QED BY <3>1, <3>2
  <2>4. QED BY <2>3
<1>3. Run(l, p, S) = [start |-> CHOOSE s \in 0 .. p - 1 : Starts(s),
                      end   |-> CHOOSE e \in p .. Len(l) : Ends(e)]
  BY DEF Run
<1> HIDE DEF Starts, Ends
<1>4. /\ Run(l, p, S).start \in 0 .. p - 1 /\ Starts(Run(l, p, S).start)
      /\ Run(l, p, S).end \in p .. Len(l) /\ Ends(Run(l, p, S).end)
  BY <1>1, <1>2, <1>3
<1>5. QED
  BY <1>4 DEF Starts, Ends

\* What stands before a position.
LEMMA BeforeType ==
    ASSUME NEW C, NEW l \in Seq(C), NEW p \in 0 .. Len(l)
    PROVE  Before(l, p) \in (C \ {Space}) \union {None}
<1> DEFINE seen == {k \in 1 .. p : l[k] # Space}
           T    == {p - k : k \in seen}
<1>1. CASE seen = {}
  BY <1>1 DEF Before
<1>2. CASE seen # {}
  <2>1. T \subseteq Nat /\ T # {}
    BY <1>2
  <2>2. PICK n \in T : \A m \in T : n <= m
    BY <2>1, Least
  <2>3. PICK k \in seen : n = p - k
    OBVIOUS
  <2>4. ASSUME NEW j \in seen
        PROVE  j <= k
    <3>1. p - j \in T /\ j \in Int /\ k \in Int
      OBVIOUS
    <3>2. p - k <= p - j
      BY <2>2, <2>3, <3>1
    <3>3. QED BY <3>1, <3>2
  <2>5. Max(seen) \in seen
    BY <2>3, <2>4 DEF Max
  <2>6. QED BY <1>2, <2>5 DEF Before
<1>3. QED BY <1>1, <1>2

\* What a list of hints is made of, when there is one: names that can stand there, and
\* the place of the word.
LEMMA HintsAreOfTheWord ==
    ASSUME EditorsAssumption, NEW s \in Schemas,
           line \in Seq(Characters), cursor \in 0 .. Len(line),
           Hints(s, line, cursor) # None
    PROVE  LET data == Hints(s, line, cursor)
           IN  /\ s # NoSchema
               /\ data.list \in Seq(Seq(Characters)) /\ Len(data.list) > 0
               /\ data.from \in 0 .. Len(line) /\ data.to \in 0 .. Len(line) /\ data.from <= data.to
               /\ IsWord(data.from, data.to)
               /\ \A k \in DOMAIN data.list :
                     \E state \in DOMAIN NamesAfter[s] : \E i \in DOMAIN NamesAfter[s][state] :
                        data.list[k] = NamesAfter[s][state][i]
<1> DEFINE token  == getTokenAt(line, cursor)
           isWord == cursor > 0 /\ line[cursor] \in Letters
           word   == IF isWord THEN SubSeq(line, token.start + 1, token.end) ELSE <<>>
           before == IF isWord THEN token.start ELSE token.end
           state  == Before(line, before)
           list   == IF s = NoSchema THEN <<>> ELSE NamesAfter[s][state]
           data   == [list |-> filterAndSortList(list, word), from |-> before, to |-> token.end]
<1>1. token.start \in 0 .. cursor /\ token.end \in cursor .. Len(line)
      /\ IsWord(before, token.end)
  <2>1. CASE cursor = 0
    <3>1. token = [start |-> 0, end |-> 0]
      BY <2>1 DEF getTokenAt
    <3> HIDE DEF token
    <3>2. QED BY <2>1, <3>1 DEF IsWord
  <2>2. CASE cursor > 0 /\ line[cursor] \in Letters
    <3>1. token = Run(line, cursor, Letters) /\ before = token.start
      BY <2>2 DEF getTokenAt
    <3>2. cursor \in 1 .. Len(line)
      BY <2>2
    <3> HIDE DEF token, before
    <3>3. /\ token.start \in 0 .. cursor - 1 /\ token.end \in cursor .. Len(line)
          /\ \A k \in token.start + 1 .. cursor : line[k] \in Letters
          /\ token.start > 0 => line[token.start] \notin Letters
          /\ \A k \in cursor + 1 .. token.end : line[k] \in Letters
          /\ token.end < Len(line) => line[token.end + 1] \notin Letters
      BY <2>2, <3>1, <3>2, RunIsMaximal
    <3>4. \A k \in token.start + 1 .. token.end :
             k \in token.start + 1 .. cursor \/ k \in cursor + 1 .. token.end
      BY <3>3
    <3>5. IsWord(token.start, token.end)
      BY <2>2, <3>3, <3>4 DEF IsWord
    <3>6. QED BY <3>1, <3>2, <3>3, <3>5
  <2>3. CASE cursor > 0 /\ line[cursor] \notin Letters /\ line[cursor] = Space
    <3>1. token = Run(line, cursor, {Space}) /\ before = token.end
      BY <2>3 DEF getTokenAt
    <3>2. cursor \in 1 .. Len(line) /\ line[cursor] \in {Space}
      BY <2>3
    <3> HIDE DEF token, before
    <3>3. /\ token.start \in 0 .. cursor - 1 /\ token.end \in cursor .. Len(line)
          /\ \A k \in cursor + 1 .. token.end : line[k] \in {Space}
          /\ token.end < Len(line) => line[token.end + 1] \notin {Space}
      BY <3>1, <3>2, RunIsMaximal
    <3>4. token.end \in Int /\ cursor <= token.end /\ \A k \in cursor + 1 .. token.end : line[k] = Space
      BY <3>2, <3>3
    <3>5. IsWord(token.end, token.end)
      BY <2>3, <3>3, <3>4 DEF IsWord
    <3>6. QED BY <3>1, <3>2, <3>3, <3>5
  <2>4. CASE cursor > 0 /\ line[cursor] \notin Letters /\ line[cursor] # Space
    <3>1. token = [start |-> cursor - 1, end |-> cursor] /\ before = token.end
      BY <2>4 DEF getTokenAt
    <3> HIDE DEF token, before
    <3>2. QED BY <2>4, <3>1 DEF IsWord
  <2>5. QED BY <2>1, <2>2, <2>3, <2>4
<1>2. before \in 0 .. Len(line) /\ before <= token.end /\ token.end \in 0 .. Len(line)
  BY <1>1
<1>3. Hints(s, line, cursor) = IF list = <<>> THEN None ELSE data
  BY DEF Hints, hintList
<1>4. word \in Seq(Characters)
  <2>1. SubSeq(line, token.start + 1, token.end) \in Seq(Characters)
    <3>1. token.start + 1 \in Int /\ token.end \in Int
          /\ 1 <= token.start + 1 /\ token.end <= Len(line)
      BY <1>1
    <3> HIDE DEF token
    <3>2. QED BY <3>1
  <2>2. QED BY <2>1
<1> HIDE DEF token, before, word
<1>5. list # <<>> /\ s # NoSchema /\ list = NamesAfter[s][state]
  BY <1>3
<1>6. state \in DOMAIN NamesAfter[s] /\ list \in Seq(Seq(Characters))
  <2>1. NamesAfter[s] \in [(Characters \ {Space}) \union {None} -> Seq(Seq(Characters))]
    BY DEF EditorsAssumption
  <2>2. state \in (Characters \ {Space}) \union {None}
    BY <1>2, BeforeType
  <2> HIDE DEF state
  <2>3. QED BY <1>5, <2>1, <2>2
<1>7. Hints(s, line, cursor) = data
  BY <1>3, <1>5
<1> HIDE DEF list, state, data
<1>8. /\ filterAndSortList(list, word) \in Seq(Seq(Characters))
      /\ Len(filterAndSortList(list, word)) > 0
      /\ \A k \in 1 .. Len(filterAndSortList(list, word)) :
            \E i \in DOMAIN list : filterAndSortList(list, word)[k] = list[i]
  <2>1. list # <<>> /\ list \in Seq(Seq(Characters))
    BY <1>5, <1>6
  <2>2. QED BY <1>4, <2>1, FilteredAreNames
<1>9. /\ data.list \in Seq(Seq(Characters)) /\ Len(data.list) > 0
      /\ data.from = before /\ data.to = token.end
      /\ \A k \in DOMAIN data.list : \E i \in DOMAIN NamesAfter[s][state] :
            data.list[k] = NamesAfter[s][state][i]
  BY <1>5, <1>8 DEF data
<1>10. QED
  BY <1>1, <1>2, <1>5, <1>6, <1>7, <1>9

-----------------------------------------------------------------------------
(* The line.                                                                *)

\* A list that is shown: names, and a place that was one of the line.
IsList(data) ==
    /\ data # None /\ data.list \in Seq(Seq(Characters)) /\ Len(data.list) > 0
    /\ data.from \in Nat /\ data.to \in Nat /\ data.from <= data.to

\* Inductive together with EditorsInv: the line is one, the cursor stands in it, and a
\* widget that takes keys has no frame to wait for.
PicksInv ==
    /\ line \in Seq(Characters) /\ cursor \in 0 .. Len(line) /\ schema \in Schemas
    /\ completion.active => completion.schema \in Schemas
    /\ widget.shown => /\ IsList(widget.data)
                       /\ widget.selected \in 1 .. Len(widget.data.list)
                       /\ widget.enabled => ~frame

IsText(l, p) == l \in Seq(Characters) /\ p \in 0 .. Len(l)

\* A part of a line that is replaced.
LEMMA ReplacedIsLine ==
    ASSUME line \in Seq(Characters), NEW from \in 0 .. Len(line), NEW to \in from .. Len(line),
           NEW name \in Seq(Characters)
    PROVE  /\ Replaced(from, to, name) \in Seq(Characters)
           /\ Len(Replaced(from, to, name)) = from + Len(name) + (Len(line) - to)
<1>1. SubSeq(line, 1, from) \in Seq(Characters) /\ Len(SubSeq(line, 1, from)) = from
  OBVIOUS
<1>2. SubSeq(line, to + 1, Len(line)) \in Seq(Characters)
      /\ Len(SubSeq(line, to + 1, Len(line))) = Len(line) - to
  OBVIOUS
<1> DEFINE a == SubSeq(line, 1, from)
           b == SubSeq(line, to + 1, Len(line))
<1>3. Replaced(from, to, name) = a \o name \o b
  BY DEF Replaced
<1>4. a \in Seq(Characters) /\ Len(a) = from /\ b \in Seq(Characters) /\ Len(b) = Len(line) - to
  BY <1>1, <1>2
<1> HIDE DEF a, b
<1>5. a \o name \in Seq(Characters) /\ Len(a \o name) = from + Len(name)
  BY <1>4, Joined
<1>6. (a \o name) \o b \in Seq(Characters)
      /\ Len((a \o name) \o b) = from + Len(name) + (Len(line) - to)
  <2> DEFINE c == a \o name
  <2>1. c \in Seq(Characters) /\ Len(c) = from + Len(name)
    BY <1>5
  <2> HIDE DEF c
  <2>2. c \o b \in Seq(Characters) /\ Len(c \o b) = Len(c) + Len(b)
    BY <1>4, <2>1, Joined
  <2> QED
    BY <1>4, <2>1, <2>2 DEF c
<1> QED
  BY <1>3, <1>6

\* close leaves nothing behind.
LEMMA ClosedIsTyped ==
    ASSUME close, IsText(line', cursor'), schema' \in Schemas
    PROVE  PicksInv'
<1>1. completion' = [active |-> FALSE] /\ widget' = [shown |-> FALSE] /\ ~frame'
  BY DEF close, NoCompletion, NoWidget
<1>2. ~completion'.active /\ ~widget'.shown
  BY <1>1
<1> QED
  BY <1>2 DEF PicksInv, IsText

\* A pick of a list, be it of this line or of an earlier one.
LEMMA PickIsTyped ==
    ASSUME PicksInv, NEW data, IsList(data), NEW i \in DOMAIN data.list,
           pick(data, i), UNCHANGED schema
    PROVE  PicksInv'
<1> DEFINE from == Clip(data.from)
           to   == Clip(data.to)
           name == data.list[i]
<1>1. name \in Seq(Characters)
  BY DEF IsList
<1>2. from \in 0 .. Len(line) /\ to \in from .. Len(line)
  BY DEF PicksInv, IsList, Clip
<1>3. /\ line' = Replaced(from, to, name) /\ cursor' = Adjusted(cursor, from, to, name)
      /\ close
  BY DEF pick
<1> HIDE DEF from, to, name
<1>4. line' \in Seq(Characters) /\ Len(line') = from + Len(name) + (Len(line) - to)
  BY <1>1, <1>2, <1>3, ReplacedIsLine DEF PicksInv
<1>5. cursor \in 0 .. Len(line) /\ Len(name) \in Nat /\ Len(line) \in Nat
  BY <1>1 DEF PicksInv
<1>6. cursor' \in 0 .. Len(line')
  BY <1>2, <1>3, <1>4, <1>5 DEF Adjusted
<1> QED
  BY <1>3, <1>4, <1>6, ClosedIsTyped DEF PicksInv, IsText

\* What an update has to show is such a list.
LEMMA HintsAreAList ==
    ASSUME EditorsAssumption, PicksInv, NEW s \in Schemas, Hints(s, line, cursor) # None
    PROVE  IsList(Hints(s, line, cursor))
<1> DEFINE data == Hints(s, line, cursor)
<1>1. line \in Seq(Characters) /\ cursor \in 0 .. Len(line)
  BY DEF PicksInv
<1>2. /\ data.list \in Seq(Seq(Characters)) /\ Len(data.list) > 0
      /\ data.from \in 0 .. Len(line) /\ data.to \in 0 .. Len(line) /\ data.from <= data.to
  BY <1>1, HintsAreOfTheWord
<1> HIDE DEF data
<1>3. data # None
  BY DEF data
<1>4. IsList(data)
  BY <1>2, <1>3 DEF IsList
<1> QED
  BY <1>4 DEF data

\* An update, of the active completion or of a new one.
LEMMA UpdateIsTyped ==
    ASSUME EditorsAssumption, PicksInv, NEW c, IsCompletion(c), c.schema \in Schemas,
           NEW picked, NEW timers, update(c, picked, timers), UNCHANGED schema
    PROVE  PicksInv'
<1> DEFINE data == Hints(c.schema, line, cursor)
           new  == WidgetAfter(c, data)
<1>1. data # None => IsList(data)
  BY HintsAreAList
<1>2. new.shown => data # None /\ new = Widget(data)
  BY DEF WidgetAfter, NoWidget
<1>3. CASE picked /\ new.shown /\ Len(data.list) = 1
  <2>1. pick(data, 1)
    BY <1>3 DEF update
  <2>2. IsList(data)
    BY <1>1, <1>2, <1>3
  <2> HIDE DEF data
  <2>3. 1 \in DOMAIN data.list
    BY <2>2 DEF IsList
  <2> QED
    BY <2>1, <2>2, <2>3, PickIsTyped
<1>4. CASE ~(picked /\ new.shown /\ Len(data.list) = 1)
  <2>1. /\ completion' = IF data = None \/ new.shown THEN [c EXCEPT !.data = data] ELSE c
        /\ widget' = new /\ frame' = FALSE /\ UNCHANGED <<line, cursor>>
    BY <1>4 DEF update, text
  <2>2. completion'.schema \in Schemas
    BY <2>1 DEF IsCompletion
  <2> HIDE DEF data, new
  <2>3. ASSUME new.shown
        PROVE  /\ IsList(widget'.data) /\ widget'.selected \in 1 .. Len(widget'.data.list)
    <3>1. widget'.data = data /\ widget'.selected = 1 /\ IsList(data)
      BY <1>1, <1>2, <2>1, <2>3 DEF Widget
    <3> QED
      BY <3>1 DEF IsList
  <2> QED
    BY <2>1, <2>2, <2>3 DEF PicksInv
<1> QED
  BY <1>3, <1>4

\* The cursor's activity closes the completion or disables the widget until the frame.
LEMMA ActivityIsTyped ==
    ASSUME EditorsInv, PicksInv, cursorActivity, IsText(line', cursor'), schema' \in Schemas
    PROVE  PicksInv'
<1>1. CASE ~completion.active
  <2>1. ~widget.shown
    BY <1>1 DEF EditorsInv, PopupIsOfTheWord, NoWidget
  <2>2. UNCHANGED <<completion, widget, frame>>
    BY <1>1 DEF cursorActivity, popup
  <2> QED
    BY <1>1, <2>1, <2>2 DEF PicksInv, IsText
<1>2. CASE close
  BY <1>2, ClosedIsTyped
<1>3. CASE completion.active /\ ~close
  <2>1. widget' = disable(widget) /\ UNCHANGED completion
    BY <1>3 DEF cursorActivity
  <2>2. CASE ~widget.shown
    BY <1>3, <2>1, <2>2 DEF PicksInv, IsText, disable
  <2>3. CASE widget.shown
    <3>1. PICK d, i, n, e, p : widget = [shown |-> TRUE, data |-> d, selected |-> i,
                                information |-> n, enabled |-> e, picked |-> p]
      BY <2>3 DEF EditorsInv, IsWidget, NoWidget
    <3>2. widget' = [shown |-> TRUE, data |-> d, selected |-> i,
                     information |-> n, enabled |-> FALSE, picked |-> p]
      BY <2>1, <3>1 DEF disable
    <3>3. IsList(widget'.data) /\ widget'.selected \in 1 .. Len(widget'.data.list)
      BY <2>3, <3>1, <3>2 DEF PicksInv
    <3> QED
      BY <1>3, <2>1, <3>2, <3>3 DEF PicksInv, IsText
  <2> QED
    BY <2>2, <2>3
<1> QED
  BY <1>1, <1>2, <1>3 DEF cursorActivity

\* A step that leaves the popup and the text alone.
LEMMA UntouchedIsTyped ==
    ASSUME PicksInv, UNCHANGED <<line, cursor, completion, widget, frame>>, schema' \in Schemas
    PROVE  PicksInv'
BY DEF PicksInv, IsList

\* Nothing unsound ever gets into the editor or onto the popup.
LEMMA PicksInvariant == Spec => [](EditorsInv /\ PicksInv)
<1> USE EditorsAssumption
<1>1. Init => PicksInv
  BY DEF Init, PicksInv, NoCompletion, NoWidget
<1>2. EditorsInv /\ PicksInv /\ [Next]_vars => PicksInv'
  <2> SUFFICES ASSUME EditorsInv, PicksInv, [Next]_vars
               PROVE  PicksInv'
    OBVIOUS
  <2>0. line \in Seq(Characters) /\ cursor \in 0 .. Len(line) /\ schema \in Schemas
    BY DEF PicksInv
  <2>1. ASSUME NEW new \in Seq(Characters), NEW at \in 0 .. Len(new), Edit(new, at)
        PROVE  PicksInv'
    BY <2>0, <2>1, ActivityIsTyped DEF Edit, IsText
  <2>2. ASSUME NEW from \in 0 .. Len(line), NEW to \in from .. Len(line),
               NEW name \in Seq(Characters), NEW at, at \in 0 .. from + Len(name) + (Len(line) - to),
               Edit(Replaced(from, to, name), at)
        PROVE  PicksInv'
    <3>1. /\ Replaced(from, to, name) \in Seq(Characters)
          /\ Len(Replaced(from, to, name)) = from + Len(name) + (Len(line) - to)
      BY <2>0, ReplacedIsLine
    <3> QED
      BY <2>1, <2>2, <3>1
  <2>3. CASE UNCHANGED vars
    BY <2>0, <2>3, UntouchedIsTyped DEF vars, text, popup
  <2>4. CASE \E c \in Characters : Type(c)
    <3>1. PICK c \in Characters : Edit(Replaced(cursor, cursor, <<c>>), cursor + 1)
      BY <2>4 DEF Type
    <3>2. /\ cursor \in cursor .. Len(line) /\ <<c>> \in Seq(Characters)
          /\ cursor + 1 \in 0 .. cursor + Len(<<c>>) + (Len(line) - cursor)
      BY <2>0
    <3> QED
      BY <2>0, <2>2, <3>1, <3>2
  <2>5. CASE Backspace
    <3>1. cursor > 0 /\ Edit(Replaced(cursor - 1, cursor, <<>>), cursor - 1)
      BY <2>5 DEF Backspace
    <3>2. /\ cursor - 1 \in 0 .. Len(line) /\ cursor \in cursor - 1 .. Len(line)
          /\ <<>> \in Seq(Characters)
          /\ cursor - 1 \in 0 .. (cursor - 1) + Len(<<>>) + (Len(line) - cursor)
      BY <2>0, <3>1
    <3> QED
      BY <2>2, <3>1, <3>2
  <2>6. CASE MoveCursor
    BY <2>0, <2>6, ActivityIsTyped DEF MoveCursor, IsText
  <2>7. CASE OnKeyUp \/ CtrlSpace
    <3>1. PICK single : showHint(single) /\ UNCHANGED <<editor, schema>>
      BY <2>7 DEF OnKeyUp, CtrlSpace
    <3> DEFINE c == [active |-> TRUE, start |-> cursor, rest |-> Len(line) - cursor,
                     schema |-> schema, data |-> None]
    <3>2. IsCompletion(c) /\ c.schema \in Schemas
      BY <2>0 DEF IsCompletion
    <3>3. update(c, single, {})
      BY <3>1 DEF showHint
    <3> HIDE DEF c
    <3> QED
      BY <3>1, <3>2, <3>3, UpdateIsTyped
  <2>8. CASE WidgetKey
    <3>1. CASE Select(screenAmount)
      <4>1. widget.shown /\ UNCHANGED <<line, cursor, schema, completion, frame>>
        BY <2>8, <3>1 DEF WidgetKey, Select, text
      <4>2. PICK d, s, n, e, p : widget = [shown |-> TRUE, data |-> d, selected |-> s,
                                  information |-> n, enabled |-> e, picked |-> p]
        BY <4>1 DEF EditorsInv, IsWidget, NoWidget
      <4>3. IsList(d) /\ Len(d.list) \in Nat /\ Len(d.list) > 0 /\ s \in Int
        BY <4>2 DEF PicksInv, IsList
      <4>4. ASSUME NEW i \in Int, NEW b, changeActive(i, b)
            PROVE  \E j \in 1 .. Len(d.list) :
                      widget' = [widget EXCEPT !.selected = j, !.information = d.list[j]]
        <5> DEFINE j == IF i > Len(d.list) THEN IF b THEN Len(d.list) ELSE 1
                        ELSE IF i < 1 THEN IF b THEN 1 ELSE Len(d.list)
                        ELSE i
        <5>1. widget' = [widget EXCEPT !.selected = j, !.information = d.list[j]]
          BY <4>2, <4>4 DEF changeActive
        <5>2. j \in 1 .. Len(d.list)
          BY <4>3
        <5> HIDE DEF j
        <5> QED
          BY <5>1, <5>2
      <4>5. PICK j \in 1 .. Len(d.list) :
                widget' = [widget EXCEPT !.selected = j, !.information = d.list[j]]
        <5>1. CASE \E n1 \in {-1, 1} : changeActive(s + n1, FALSE)
          <6>1. PICK n1 \in {-1, 1} : changeActive(s + n1, FALSE)
            BY <5>1
          <6>2. s + n1 \in Int
            BY <4>3
          <6> QED
            BY <4>4, <6>1, <6>2
        <5>2. CASE \E n1 \in {1 - screenAmount, screenAmount - 1} : changeActive(s + n1, TRUE)
          <6>1. PICK n1 \in {1 - screenAmount, screenAmount - 1} : changeActive(s + n1, TRUE)
            BY <5>2
          <6>2. s + n1 \in Int
            BY <4>3 DEF EditorsAssumption
          <6> QED
            BY <4>4, <6>1, <6>2
        <5>3. CASE \E i \in {1, Len(d.list)} : changeActive(i, FALSE)
          <6>1. PICK i \in {1, Len(d.list)} : changeActive(i, FALSE)
            BY <5>3
          <6>2. i \in Int
            BY <4>3
          <6> QED
            BY <4>4, <6>1, <6>2
        <5> QED
          BY <3>1, <4>2, <5>1, <5>2, <5>3 DEF Select
      <4>6. widget' = [shown |-> TRUE, data |-> d, selected |-> j,
                       information |-> d.list[j], enabled |-> e, picked |-> p]
        BY <4>2, <4>5
      <4> QED
        BY <4>1, <4>2, <4>3, <4>6 DEF PicksInv
    <3>2. CASE Enter /\ ~widget.enabled
      <4>1. /\ widget' = [widget EXCEPT !.picked = TRUE]
            /\ widget.shown
            /\ UNCHANGED <<line, cursor, schema, completion, frame>>
        BY <2>8, <3>2 DEF WidgetKey, Enter, text
      <4>2. PICK d, s, n, e, p : widget = [shown |-> TRUE, data |-> d, selected |-> s,
                                  information |-> n, enabled |-> e, picked |-> p]
        BY <4>1 DEF EditorsInv, IsWidget, NoWidget
      <4>3. widget' = [shown |-> TRUE, data |-> d, selected |-> s,
                       information |-> n, enabled |-> e, picked |-> TRUE]
        BY <4>1, <4>2
      <4> QED
        BY <4>1, <4>2, <4>3 DEF PicksInv
    <3>3. CASE Enter /\ widget.enabled
      <4>1. pick(widget.data, widget.selected) /\ widget.shown /\ UNCHANGED schema
        BY <3>3 DEF Enter
      <4>2. IsList(widget.data) /\ widget.selected \in DOMAIN widget.data.list
        BY <4>1 DEF PicksInv, IsList
      <4> QED
        BY <4>1, <4>2, PickIsTyped
    <3>4. CASE Esc
      BY <2>0, <2>8, <3>4, ClosedIsTyped DEF Esc, IsText, text
    <3> QED
      BY <2>8, <3>1, <3>2, <3>3, <3>4 DEF WidgetKey
  <2>9. CASE ClickHint
    <3>1. PICK i \in DOMAIN widget.data.list : pick(widget.data, i)
      BY <2>9 DEF ClickHint, Click
    <3>2. IsList(widget.data) /\ UNCHANGED schema
      BY <2>9 DEF ClickHint, Click, PicksInv
    <3> QED
      BY <3>1, <3>2, PickIsTyped
  <2>10. CASE Frame /\ UNCHANGED <<editor, focused>>
    <3>1. /\ frame /\ UNCHANGED <<editor, schema>>
          /\ update(completion, widget.shown /\ widget.picked, {"gone" : t \in blurTimers})
      BY <2>10 DEF Frame
    <3>2. completion.active /\ IsCompletion(completion)
      BY <3>1 DEF EditorsInv, NoCompletion
    <3>3. completion.schema \in Schemas
      BY <3>2 DEF PicksInv
    <3> QED
      BY <3>1, <3>2, <3>3, UpdateIsTyped
  <2>11. CASE Blur \/ Focus \/ LintTimer
    BY <2>0, <2>11, UntouchedIsTyped DEF Blur, Focus, LintTimer, text, popup
  <2>12. CASE BlurTimer
    BY <2>0, <2>3, <2>12, ClosedIsTyped DEF BlurTimer, IsText, text
  <2>13. CASE Prettify
    <3>1. PICK new \in PrettyLines : Edit(new, 0)
      BY <2>13 DEF Prettify
    <3>2. new \in Seq(Characters) /\ 0 \in 0 .. Len(new)
      BY DEF EditorsAssumption
    <3> QED
      BY <2>1, <3>1, <3>2
  <2>14. CASE AutoCompleteLeafs
    <3>1. PICK index \in 0 .. Len(line) :
              Edit(Replaced(index, index, Leafs),
                   IF index < cursor THEN cursor + Len(Leafs) ELSE cursor)
      BY <2>14 DEF AutoCompleteLeafs
    <3>2. Leafs \in Seq(Characters) /\ Len(Leafs) \in Nat
      BY DEF EditorsAssumption
    <3>3. /\ index \in index .. Len(line)
          /\ (IF index < cursor THEN cursor + Len(Leafs) ELSE cursor)
                \in 0 .. index + Len(Leafs) + (Len(line) - index)
      BY <2>0, <3>2
    <3> QED
      BY <2>2, <3>1, <3>2, <3>3
  <2>15. CASE SchemaChanges
    BY <2>15, UntouchedIsTyped DEF SchemaChanges, ComponentDidUpdate, text, popup
  <2> QED
    BY <2>3, <2>4, <2>5, <2>6, <2>7, <2>8, <2>9, <2>10, <2>11, <2>12, <2>13, <2>14, <2>15
    DEF Next, Step
<1> QED
  BY <1>1, <1>2, EditorsInvariant, PTL DEF Spec

\* The names of a list of the word at the cursor take its place.
LEMMA PickReplaces ==
    ASSUME EditorsAssumption, PicksInv, NEW s \in Schemas, editor = "query" => s = schema,
           Hints(s, line, cursor) # None, NEW i \in DOMAIN Hints(s, line, cursor).list,
           pick(Hints(s, line, cursor), i)
    PROVE  ReplacesTheWord
<1> DEFINE data == Hints(s, line, cursor)
<1>1. line \in Seq(Characters) /\ cursor \in 0 .. Len(line)
  BY DEF PicksInv
<1>2. /\ data.from \in 0 .. Len(line) /\ data.to \in 0 .. Len(line)
      /\ IsWord(data.from, data.to)
      /\ \E state \in DOMAIN NamesAfter[s] : \E j \in DOMAIN NamesAfter[s][state] :
            data.list[i] = NamesAfter[s][state][j]
  BY <1>1, HintsAreOfTheWord
<1>3. line' = Replaced(Clip(data.from), Clip(data.to), data.list[i])
  BY DEF pick
<1> HIDE DEF data
<1>4. Clip(data.from) = data.from /\ Clip(data.to) = data.to
  BY <1>1, <1>2 DEF Clip
<1>5. s \in IF editor = "query" THEN {schema} ELSE Schemas
  OBVIOUS
<1> QED
  BY <1>2, <1>3, <1>4, <1>5 DEF ReplacesTheWord

\* An update that picks, picks of the hints of the word.
LEMMA UpdateReplaces ==
    ASSUME EditorsAssumption, PicksInv, NEW c, c.schema \in Schemas, NEW picked, NEW timers,
           editor = "query" => c.schema \in {NoSchema, schema},
           update(c, picked, timers), line' # line
    PROVE  ReplacesTheWord
<1> DEFINE data == Hints(c.schema, line, cursor)
           new  == WidgetAfter(c, data)
<1>1. new.shown /\ Len(data.list) = 1 /\ pick(data, 1)
  BY DEF update, text
<1>2. data # None
  BY <1>1 DEF WidgetAfter, NoWidget
<1>3. c.schema # NoSchema
  BY <1>2, NothingWithoutSchema
<1>4. IsList(data)
  BY <1>2, HintsAreAList
<1>5. 1 \in DOMAIN data.list
  <2> HIDE DEF data
  <2> QED
    BY <1>1, <1>4 DEF IsList
<1> QED
  BY <1>1, <1>2, <1>3, <1>5, PickReplaces

\* A hint that is picked takes the place of the word at the cursor and leaves the rest
\* of the line alone, also unasked or by a key pressed before the list was up to date.
THEOREM PicksReplace == Spec => PicksReplaceTheWord
<1> USE EditorsAssumption
<1>1. EditorsInv /\ PicksInv /\ [Next]_vars => [line' # line /\ Picks => ReplacesTheWord]_vars
  <2> SUFFICES ASSUME EditorsInv, PicksInv, line' # line /\ Picks
               PROVE  ReplacesTheWord
    OBVIOUS
  <2>0. line' # line /\ Picks
    OBVIOUS
  <2>1. ASSUME NEW i, widget.shown, ~frame, i \in DOMAIN widget.data.list, pick(widget.data, i)
        PROVE  ReplacesTheWord
    <3>1. widget.data = Hints(completion.schema, line, cursor) /\ completion.active
          /\ (editor = "query" => completion.schema = schema)
      BY <2>1 DEF EditorsInv, PopupIsOfTheWord
    <3>2. completion.schema \in Schemas /\ widget.data # None
      BY <2>1, <3>1 DEF PicksInv, IsList
    <3> QED
      BY <2>1, <3>1, <3>2, PickReplaces
  <2>2. CASE WidgetKey
    <3>1. CASE Enter /\ widget.enabled
      <4>1. pick(widget.data, widget.selected) /\ widget.shown
        BY <3>1 DEF Enter
      <4>2. ~frame /\ widget.selected \in DOMAIN widget.data.list
        BY <3>1, <4>1 DEF PicksInv, IsList
      <4> QED
        BY <2>1, <4>1, <4>2
    <3>2. CASE Select(screenAmount) \/ Esc \/ (Enter /\ ~widget.enabled)
      BY <2>0, <3>2 DEF Select, Esc, Enter, text
    <3> QED
      BY <2>2, <3>1, <3>2 DEF WidgetKey
  <2>3. CASE Frame
    <3>1. update(completion, widget.shown /\ widget.picked, {"gone" : t \in blurTimers})
          /\ frame
      BY <2>3 DEF Frame
    <3>2. /\ completion.active /\ completion.schema \in Schemas
          /\ (editor = "query" => completion.schema \in {NoSchema, schema})
      BY <3>1 DEF EditorsInv, PicksInv
    <3> QED
      BY <2>0, <3>1, <3>2, UpdateReplaces
  <2>4. CASE OnKeyUp \/ CtrlSpace
    <3>1. PICK single : showHint(single)
      BY <2>4 DEF OnKeyUp, CtrlSpace
    <3> DEFINE c == [active |-> TRUE, start |-> cursor, rest |-> Len(line) - cursor,
                     schema |-> schema, data |-> None]
    <3>2. c.schema = schema /\ c.schema \in Schemas
      BY DEF PicksInv
    <3>3. update(c, single, {})
      BY <3>1 DEF showHint
    <3> HIDE DEF c
    <3> QED
      BY <2>0, <3>2, <3>3, UpdateReplaces
  <2>5. CASE ClickHint /\ ~frame
    BY <2>1, <2>5 DEF ClickHint, Click
  <2> QED
    BY <2>0, <2>2, <2>3, <2>4, <2>5 DEF Picks
<1> QED
  BY <1>1, PicksInvariant, PTL DEF PicksReplaceTheWord, Spec

=============================================================================
