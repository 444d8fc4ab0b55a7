--------------------------- MODULE FragmentCycles ---------------------------
(***************************************************************************)
(* The two searches the validation makes through the fragments of a        *)
(* document: what an operation or a fragment refers to, and the cycles.    *)
(*                                                                         *)
(* Fragments are numbered as they are defined: name[i] is what fragment i  *)
(* is called, spreads[i] the fragments it spreads.  The order of the       *)
(* spreads within a fragment only decides which cycles are named.          *)
(***************************************************************************)
EXTENDS FiniteSetsExt

\* getRecursivelyReferencedFragments, of something that spreads those of a set: whole
\* frontiers, until they are collected already.
Referenced(spreads, those) ==
    LET collect[s \in [frontier : SUBSET DOMAIN spreads, collected : SUBSET DOMAIN spreads]] ==
            IF s.frontier \subseteq s.collected THEN s.collected
            ELSE collect[[frontier  |-> UNION {spreads[i] : i \in s.frontier},
                          collected |-> s.collected \union s.frontier]]
    IN  collect[[frontier |-> those, collected |-> {}]]

NamesOf(name) == {name[i] : i \in DOMAIN name}

\* A search within a fragment: what is left of its spreads, the fragments on the spread
\* path, and those visited.
Searches(name, spreads) ==
    [left : SUBSET DOMAIN spreads, inside : SUBSET NamesOf(name), visited : SUBSET NamesOf(name)]

\* Mutant: a visited fragment is left before the path is looked at.
detectCycles_mutant(name, spreads) ==
    LET search[s \in Searches(name, spreads)] ==
            LET i     == Min(s.left)
                inner == search[[left    |-> spreads[i],
                                 inside  |-> s.inside \union {name[i]},
                                 visited |-> s.visited \union {name[i]}]]
                rest(visited) == search[[left |-> s.left \ {i}, inside |-> s.inside,
                                         visited |-> visited]]
            IN  IF s.left = {} THEN [visited |-> s.visited, cycles |-> {}]
                ELSE IF name[i] \in s.visited THEN rest(s.visited)
                ELSE IF name[i] \in s.inside
                THEN [rest(s.visited) EXCEPT !.cycles = @ \union {name[i]}]
                ELSE [rest(inner.visited) EXCEPT !.cycles = @ \union inner.cycles]
    IN  search[[left |-> DOMAIN spreads, inside |-> {}, visited |-> {}]].cycles

\* The depth-first search of NoFragmentCycles.  Its entries are all fragments, as those a
\* fragment spreads are within it, one after the other.
detectCycles(name, spreads) ==
    LET search[s \in Searches(name, spreads)] ==
            LET i     == Min(s.left)
                inner == search[[left    |-> spreads[i],
                                 inside  |-> s.inside \union {name[i]},
                                 visited |-> s.visited \union {name[i]}]]
                rest(visited) == search[[left |-> s.left \ {i}, inside |-> s.inside,
                                         visited |-> visited]]
            IN  IF s.left = {} THEN [visited |-> s.visited, cycles |-> {}]
                ELSE IF name[i] \in s.inside
                THEN [rest(s.visited) EXCEPT !.cycles = @ \union {name[i]}]
                ELSE IF name[i] \in s.visited THEN rest(s.visited)
                ELSE [rest(inner.visited) EXCEPT !.cycles = @ \union inner.cycles]
    IN  search[[left |-> DOMAIN spreads, inside |-> {}, visited |-> {}]].cycles

\* The fragments that refer to themselves, and what the search says of them: it finds a
\* cycle if there is one, and names only fragments on one.
Cyclic(spreads) == {i \in DOMAIN spreads : i \in Referenced(spreads, spreads[i])}
CyclesAreThose(name, spreads) ==
    /\ detectCycles(name, spreads) # {} <=> Cyclic(spreads) # {}
    /\ detectCycles(name, spreads) \subseteq {name[i] : i \in Cyclic(spreads)}

=============================================================================
