------------------------------ MODULE HintList ------------------------------
(***************************************************************************)
(* What the editors of the page offer at the cursor of a line: the names   *)
(* that fit what stands before the word, the closest to it first.          *)
(*                                                                         *)
(* A line is a sequence of characters: letters, Space (the lexer joins     *)
(* several), and marks, each a token of its own.  A position is the number *)
(* of characters before it.  What the incremental parser knows of the text *)
(* before the word is told by the last mark or letter there.               *)
(***************************************************************************)
EXTENDS Integers, FiniteSets, SequencesExt

CONSTANTS Letters, Space, Marks,
          Schemas, NoSchema,
          NamesAfter,      \* [Schemas -> [what stands before -> names in order]]
          None

Characters == Letters \union Marks \union {Space}

\* The token that ends at or behind the position and begins before it; the empty one
\* at the start of the line.
Run(line, p, S) ==
    [start |-> CHOOSE s \in 0 .. p - 1 :
                   /\ \A k \in s + 1 .. p : line[k] \in S
                   /\ s > 0 => line[s] \notin S,
     end   |-> CHOOSE e \in p .. Len(line) :
                   /\ \A k \in p + 1 .. e : line[k] \in S
                   /\ e < Len(line) => line[e + 1] \notin S]
getTokenAt(line, p) ==
    IF p = 0 THEN [start |-> 0, end |-> 0]
    ELSE IF line[p] \in Letters THEN Run(line, p, Letters)
    ELSE IF line[p] = Space THEN Run(line, p, {Space})
    ELSE [start |-> p - 1, end |-> p]

-----------------------------------------------------------------------------
(* How close a name is to the letters of the word; proximities are doubled. *)

\* The edits that make b of a: insertions, deletions, substitutions, and swaps of
\* neighbours.
lexicalDistance(a, b) ==
    LET d[at \in (0 .. Len(a)) \X (0 .. Len(b))] ==
            LET i     == at[1]
                j     == at[2]
                cost  == IF a[i] = b[j] THEN 0 ELSE 1
                swaps == i > 1 /\ j > 1 /\ a[i] = b[j - 1] /\ a[i - 1] = b[j]
            IN  IF i = 0 \/ j = 0 THEN i + j
                ELSE Min({d[<<i - 1, j>>] + 1, d[<<i, j - 1>>] + 1, d[<<i - 1, j - 1>>] + cost}
                         \union (IF swaps THEN {d[<<i - 2, j - 2>>] + cost} ELSE {}))
    IN  d[<<Len(a), Len(b)>>]

Begins(name, text) == Len(text) <= Len(name) /\ SubSeq(name, 1, Len(text)) = text

\* A long name is not penalised for its length, but for another beginning.
getProximity(name, text) ==
    2 * lexicalDistance(text, name)
    - (IF Len(name) <= Len(text) THEN 0
       ELSE 2 * (Len(name) - Len(text) - 1) + (IF Begins(name, text) THEN 0 ELSE -1))

\* The order of the entries of a list: the closest first, then the shortest.
Closer(e, f) ==
    \/ e.proximity < f.proximity
    \/ e.proximity = f.proximity /\ e.length < f.length
    \/ e.proximity = f.proximity /\ e.length = f.length /\ e.at < f.at

\* The close names in that order; if there is none, all.
filterAndSortList(list, text) ==
    LET entries == {[at |-> i, length |-> Len(list[i]),
                     proximity |-> getProximity(list[i], text)] : i \in DOMAIN list}
        close   == {e \in entries : e.proximity <= 4}
        nth(k)  == CHOOSE e \in close : Cardinality({f \in close : Closer(f, e)}) = k - 1
    IN  IF text = <<>> \/ close = {} THEN list
        ELSE [k \in 1 .. Cardinality(close) |-> list[nth(k).at]]

\* A word is replaced; behind anything else the name is inserted.
hintList(token, isWord, word, list) ==
    [list |-> filterAndSortList(list, word),
     from |-> IF isWord THEN token.start ELSE token.end, to |-> token.end]

\* What tells the incremental parser's state at a position.
Before(line, p) ==
    LET seen == {k \in 1 .. p : line[k] # Space}
    IN  IF seen = {} THEN None ELSE line[Max(seen)]

\* The hint helpers: nothing without a schema or where no name can stand.
Hints(schema, line, cursor) ==
    LET token  == getTokenAt(line, cursor)
        isWord == cursor > 0 /\ line[cursor] \in Letters
        word   == IF isWord THEN SubSeq(line, token.start + 1, token.end) ELSE <<>>
        state  == Before(line, IF isWord THEN token.start ELSE token.end)
        list   == IF schema = NoSchema THEN <<>> ELSE NamesAfter[schema][state]
    IN  IF list = <<>> THEN None ELSE hintList(token, isWord, word, list)

=============================================================================
