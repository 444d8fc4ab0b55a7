---------------------------- MODULE VendorStore ----------------------------
(***************************************************************************)
(* VendorQuery keeps its vendors in a LinkedHashSet that nothing guards,   *)
(* while each HTTP request runs its resolvers on a thread of its own.  An  *)
(* id is the size of the set plus one, read some time before the vendor is *)
(* added; vendors are equal if their ids are.                              *)
(*                                                                         *)
(* Two calls of add that overlap are a data race: besides the two orderly  *)
(* outcomes an entry may be left out of the set, or the size may miss an   *)
(* increment.                                                              *)
(***************************************************************************)
EXTENDS Naturals, Sequences, SequencesExt

VARIABLES vendors,     \* the set in the order of insertion
          size,        \* what size() returns
          creating,    \* vendors that are built and not yet added
          created,     \* vendors that createVendor has returned
          overlapped   \* two calls of createVendor have overlapped

storeVars == <<vendors, size, creating, created, overlapped>>

StoreInit ==
    /\ vendors = <<>> /\ size = 0
    /\ creating = {} /\ created = {}
    /\ overlapped = FALSE

\* createVendor up to the call of add.
CreateBegin(call) ==
    /\ creating' = creating \union {[id |-> size + 1, by |-> call]}
    /\ overlapped' = (overlapped \/ creating # {})
    /\ UNCHANGED <<vendors, size, created>>

Holds(id) == \E i \in DOMAIN vendors : vendors[i].id = id

\* mockVendorStorage.add and the return of createVendor.
CreateEnd(v) ==
    /\ v \in creating
    /\ creating' = creating \ {v}
    /\ created' = created \union {v}
    /\ \/ /\ Holds(v.id)
          /\ UNCHANGED <<vendors, size>>
       \/ /\ ~Holds(v.id)
          /\ vendors' = Append(vendors, v) /\ size' = size + 1
       \/ /\ creating # {v} /\ ~Holds(v.id)
          /\ \/ vendors' = Append(vendors, v) /\ UNCHANGED size
             \/ UNCHANGED vendors /\ size' = size + 1
             \/ UNCHANGED <<vendors, size>>
    /\ UNCHANGED overlapped

\* Mutant: the vendor at the index id, counted from 0.
Lookup_mutant(id) ==
    IF id + 1 \in DOMAIN vendors THEN <<vendors[id + 1]>> ELSE <<>>

\* getVendor: the first vendor with the id, if there is one.
Lookup(id) ==
    LET found == {i \in DOMAIN vendors : vendors[i].id = id}
    IN  IF found = {} THEN <<>> ELSE <<vendors[Min(found)]>>

\* What createVendor has returned is found under its id, and so no two vendors
\* have the same id, as long as no two calls have overlapped.
VendorsAreFound ==
    ~overlapped => \A v \in created : Lookup(v.id) = <<v>>

=============================================================================
