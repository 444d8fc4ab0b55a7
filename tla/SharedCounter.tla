--------------------------- MODULE SharedCounter ---------------------------
(***************************************************************************)
(* What the distributed lock test promises its reader: a group of workers  *)
(* counts to Total together.  Every count is one atomic increment, nothing *)
(* is ever counted past Total, and a worker goes home only once the whole  *)
(* count has been made.  The lock, its lease and the threads' local state  *)
(* do not appear here; RedisLock implements this specification.            *)
(***************************************************************************)
EXTENDS Naturals

CONSTANTS Workers,   \* the workers that count together
          Total      \* where the count stops

VARIABLES count,     \* increments made so far
          finished   \* workers that left, the whole count being made

vars == <<count, finished>>

Init == count = 0 /\ finished = {}

Increment ==
    /\ count < Total
    /\ count' = count + 1
    /\ UNCHANGED finished

Finish(w) ==
    /\ count = Total
    /\ finished' = finished \union {w}
    /\ UNCHANGED count

Next == Increment \/ \E w \in Workers : Finish(w)

Spec == Init /\ [][Next]_vars

=============================================================================
