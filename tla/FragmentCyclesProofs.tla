------------------------ MODULE FragmentCyclesProofs ------------------------
(***************************************************************************)
(* The two searches of FragmentCycles, for any number of fragments that    *)
(* spread each other in any way.                                           *)
(***************************************************************************)
EXTENDS FragmentCycles, Naturals, FiniteSetTheorems, TLAPS

-----------------------------------------------------------------------------
(* Numbers and finite sets.                                                 *)

\* The least number of a set: every proof by induction below is one by a least
\* counterexample.
LEMMA Least ==
    ASSUME NEW T, T \subseteq Nat, T # {}
    PROVE  \E x \in T : \A y \in T : x <= y
<1> DEFINE R == {ss \in Nat \X Nat : ss[1] < ss[2]}
<1>1. IsWellFoundedOn(R, Nat)
  BY NatLessThanWellFounded DEF OpToRel
<1>2. \A a, b \in Nat : <<a, b>> \in R <=> a < b
  OBVIOUS
<1> HIDE DEF R
<1>3. PICK x \in T : \A y \in T : ~ (<<y, x>> \in R)
  BY <1>1, WFMin
<1>4. x \in Nat /\ \A y \in T : y \in Nat /\ ~(y < x)
  BY <1>2, <1>3
<1> QED
  BY <1>3, <1>4

\* Fewer elements are left outside a set that grows.
LEMMA FewerLeft ==
    ASSUME NEW S, IsFiniteSet(S), NEW A, NEW B, A \subseteq B
    PROVE  /\ Cardinality(S \ A) \in Nat /\ Cardinality(S \ B) \in Nat
           /\ Cardinality(S \ B) <= Cardinality(S \ A)
           /\ (\E x \in S : x \in B /\ x \notin A) => Cardinality(S \ B) < Cardinality(S \ A)
<1>1. IsFiniteSet(S \ A) /\ (S \ B) \in SUBSET (S \ A)
  BY FS_Subset
<1>2. IsFiniteSet(S \ B) /\ Cardinality(S \ B) <= Cardinality(S \ A)
      /\ (Cardinality(S \ B) = Cardinality(S \ A) => S \ B = S \ A)
  BY <1>1, FS_Subset
<1>3. Cardinality(S \ A) \in Nat /\ Cardinality(S \ B) \in Nat
  BY <1>1, <1>2, FS_CardinalityType
<1> QED
  BY <1>2, <1>3

-----------------------------------------------------------------------------
(* What is referred to.                                                     *)

\* Any fragments that spread each other.
IsGraph(spreads) ==
    /\ IsFiniteSet(DOMAIN spreads) /\ DOMAIN spreads \subseteq Nat
    /\ spreads \in [DOMAIN spreads -> SUBSET DOMAIN spreads]

Collections(spreads) == [frontier : SUBSET DOMAIN spreads, collected : SUBSET DOMAIN spreads]
NextFrontier(spreads, s) == [frontier  |-> UNION {spreads[i] : i \in s.frontier},
                     collected |-> s.collected \union s.frontier]
Collect(spreads, f, s) ==
    IF s.frontier \subseteq s.collected THEN s.collected ELSE f[NextFrontier(spreads, s)]
Uncollected(spreads, s) == Cardinality(DOMAIN spreads \ s.collected)

\* Each frontier collects something.
LEMMA Progress ==
    ASSUME NEW spreads, IsGraph(spreads), NEW s \in Collections(spreads)
    PROVE  /\ Uncollected(spreads, s) \in Nat
           /\ NextFrontier(spreads, s) \in Collections(spreads)
           /\ ~(s.frontier \subseteq s.collected) =>
                 Uncollected(spreads, NextFrontier(spreads, s)) < Uncollected(spreads, s)
<1>1. /\ s.frontier \subseteq DOMAIN spreads /\ s.collected \subseteq DOMAIN spreads
      /\ \A i \in s.frontier : spreads[i] \subseteq DOMAIN spreads
  BY DEF Collections, IsGraph
<1>2. NextFrontier(spreads, s) \in Collections(spreads)
      /\ NextFrontier(spreads, s).collected = s.collected \union s.frontier
  BY <1>1 DEF NextFrontier, Collections
<1>3. s.collected \subseteq NextFrontier(spreads, s).collected
  BY <1>2
<1>4. ~(s.frontier \subseteq s.collected) =>
         \E x \in DOMAIN spreads : x \in NextFrontier(spreads, s).collected /\ x \notin s.collected
  BY <1>1, <1>2
<1>5. IsFiniteSet(DOMAIN spreads)
  BY DEF IsGraph
<1> QED
  BY <1>2, <1>3, <1>4, <1>5, FewerLeft DEF Uncollected

\* There is a function that satisfies the equation of Referenced: it can be defined for
\* more and more that is uncollected.
LEMMA CollectExists ==
    ASSUME NEW spreads, IsGraph(spreads)
    PROVE  \E f : f = [s \in Collections(spreads) |-> Collect(spreads, f, s)]
<1> DEFINE C == Collections(spreads)
           M(s) == Uncollected(spreads, s)
           Fills(f, n) == \A s \in C : M(s) < n => f[s] = Collect(spreads, f, s)
           T == {n \in Nat : ~\E f \in [C -> SUBSET DOMAIN spreads] : Fills(f, n)}
<1>0. \A s \in C : M(s) \in Nat
  BY Progress
<1>1. T = {}
  <2> SUFFICES ASSUME T # {} PROVE FALSE
    OBVIOUS
  <2>1. PICK n \in T : \A m \in T : n <= m
    BY Least
  <2>2. n # 0
    <3>1. Fills([s \in C |-> {}], 0)
      <4> HIDE DEF M, C
      <4> QED
        BY <1>0
    <3>2. [s \in C |-> {}] \in [C -> SUBSET DOMAIN spreads]
      OBVIOUS
    <3> HIDE DEF Fills
    <3> QED
      BY <3>1, <3>2
  <2>3. PICK f \in [C -> SUBSET DOMAIN spreads] : Fills(f, n - 1)
    <3> HIDE DEF Fills
    <3>1. n - 1 \in Nat /\ n - 1 \notin T
      BY <2>1, <2>2
    <3> QED
      BY <3>1
  <2> DEFINE e == [s \in C |-> Collect(spreads, f, s)]
  <2>4. e \in [C -> SUBSET DOMAIN spreads]
    <3> SUFFICES ASSUME NEW s \in C PROVE Collect(spreads, f, s) \in SUBSET DOMAIN spreads
      OBVIOUS
    <3>1. NextFrontier(spreads, s) \in C /\ s.collected \in SUBSET DOMAIN spreads
      BY Progress DEF Collections
    <3> HIDE DEF C
    <3> QED
      BY <3>1 DEF Collect
  <2>5. ASSUME NEW s \in C, M(s) < n
        PROVE  e[s] = Collect(spreads, e, s)
    <3>1. CASE s.frontier \subseteq s.collected
      BY <3>1 DEF Collect
    <3>2. CASE ~(s.frontier \subseteq s.collected)
      <4>1. NextFrontier(spreads, s) \in C /\ M(NextFrontier(spreads, s)) < M(s)
        BY <3>2, Progress
      <4> HIDE DEF M, C
      <4>2. M(NextFrontier(spreads, s)) < n - 1
        BY <1>0, <2>5, <4>1
      <4>3. f[NextFrontier(spreads, s)] = Collect(spreads, f, NextFrontier(spreads, s))
        BY <2>3, <4>1, <4>2
      <4>4. e[NextFrontier(spreads, s)] = f[NextFrontier(spreads, s)]
        BY <4>1, <4>3
      <4> QED
        BY <3>2, <4>4 DEF Collect
    <3> QED
      BY <3>1, <3>2
  <2>6. Fills(e, n)
    BY <2>5
  <2> HIDE DEF e, Fills
  <2> QED
    BY <2>1, <2>4, <2>6
<1>2. PICK f \in [C -> SUBSET DOMAIN spreads] : Fills(f, Cardinality(DOMAIN spreads) + 1)
  <2> HIDE DEF Fills
  <2>1. Cardinality(DOMAIN spreads) + 1 \in Nat
    BY FS_CardinalityType DEF IsGraph
  <2> QED
    BY <1>1, <2>1
<1>3. \A s \in C : M(s) < Cardinality(DOMAIN spreads) + 1
  <2> SUFFICES ASSUME NEW s \in C PROVE M(s) < Cardinality(DOMAIN spreads) + 1
    OBVIOUS
  <2>1. DOMAIN spreads \ {} = DOMAIN spreads
    OBVIOUS
  <2>2. Cardinality(DOMAIN spreads \ s.collected) <= Cardinality(DOMAIN spreads \ {})
        /\ Cardinality(DOMAIN spreads) \in Nat
    BY <2>1, FewerLeft DEF IsGraph
  <2> QED
    BY <1>0, <2>1, <2>2 DEF Uncollected
<1>4. f = [s \in C |-> Collect(spreads, f, s)]
  <2> HIDE DEF M, C
  <2> QED
    BY <1>2, <1>3
<1> QED
  BY <1>4

\* The fragments that a set is closed under.
IsClosed(spreads, S) == \A i \in S \intersect DOMAIN spreads : spreads[i] \subseteq S

\* What is collected is the least set with those that is closed under spreads.
THEOREM ReferencedIsLeast ==
    ASSUME NEW spreads, IsGraph(spreads), NEW those \in SUBSET DOMAIN spreads
    PROVE  /\ Referenced(spreads, those) \subseteq DOMAIN spreads
           /\ those \subseteq Referenced(spreads, those)
           /\ IsClosed(spreads, Referenced(spreads, those))
           /\ \A S : those \subseteq S /\ IsClosed(spreads, S)
                       => Referenced(spreads, those) \subseteq S
<1> DEFINE C == Collections(spreads)
           M(s) == Uncollected(spreads, s)
           collect == CHOOSE f : f = [s \in C |-> Collect(spreads, f, s)]
           start == [frontier |-> those, collected |-> {}]
           Sane(s) == \A i \in s.collected : spreads[i] \subseteq s.collected \union s.frontier
           Right(s) ==
              /\ collect[s] \subseteq DOMAIN spreads
              /\ s.collected \union s.frontier \subseteq collect[s]
              /\ Sane(s) => IsClosed(spreads, collect[s])
              /\ \A S : s.collected \union s.frontier \subseteq S /\ IsClosed(spreads, S)
                          => collect[s] \subseteq S
           T == {n \in Nat : \E s \in C : M(s) = n /\ ~Right(s)}
<1>1. collect = [s \in C |-> Collect(spreads, collect, s)]
  BY CollectExists
<1>2. Referenced(spreads, those) = collect[start]
  BY DEF Referenced, Collections, Collect, NextFrontier
<1> HIDE DEF collect
<1>3. T = {}
  <2> SUFFICES ASSUME T # {} PROVE FALSE
    OBVIOUS
  <2>1. PICK n \in T : \A m \in T : n <= m
    BY Least
  <2>2. PICK s \in C : M(s) = n /\ ~Right(s)
    BY <2>1
  <2> DEFINE next == NextFrontier(spreads, s)
  <2>3. /\ s.frontier \subseteq DOMAIN spreads /\ s.collected \subseteq DOMAIN spreads
        /\ \A i \in DOMAIN spreads : spreads[i] \subseteq DOMAIN spreads
    BY DEF Collections, IsGraph
  <2>4. CASE s.frontier \subseteq s.collected
    <3>1. collect[s] = s.collected
      BY <1>1, <2>4 DEF Collect
    <3>2. Right(s)
      BY <2>3, <2>4, <3>1 DEF IsClosed
    <3> QED
      BY <2>2, <3>2
  <2>5. CASE ~(s.frontier \subseteq s.collected)
    <3>1. collect[s] = collect[next]
      BY <1>1, <2>5 DEF Collect
    <3>2. next \in C /\ M(next) \in Nat /\ M(next) < M(s)
      BY <2>5, Progress
    <3>3. Right(next)
      <4> HIDE DEF Right, C, M, next
      <4>1. M(next) \notin T
        BY <2>1, <2>2, <3>2
      <4> QED
        BY <3>2, <4>1
    <3>4. /\ next.collected = s.collected \union s.frontier
          /\ next.frontier = UNION {spreads[i] : i \in s.frontier}
      BY DEF NextFrontier
    <3> HIDE DEF next
    <3>5. Sane(s) => Sane(next)
      BY <3>4
    <3>6. ASSUME NEW S, s.collected \union s.frontier \subseteq S, IsClosed(spreads, S)
          PROVE  collect[s] \subseteq S
      <4>1. next.collected \union next.frontier \subseteq S
        BY <2>3, <3>4, <3>6 DEF IsClosed
      <4> QED
        BY <3>1, <3>3, <3>6, <4>1
    <3>7. Right(s)
      BY <3>1, <3>3, <3>4, <3>5, <3>6
    <3> QED
      BY <2>2, <3>7
  <2> QED
    BY <2>4, <2>5
<1>4. start \in C /\ start.collected \union start.frontier = those /\ Sane(start)
  BY DEF Collections
<1>5. Right(start)
  <2>1. M(start) \in Nat
    BY <1>4, Progress
  <2> HIDE DEF Right, C, M, start
  <2> QED
    BY <1>3, <1>4, <2>1
<1> HIDE DEF start
<1> QED
  BY <1>2, <1>4, <1>5

-----------------------------------------------------------------------------
(* The search for cycles: it comes to an end.                               *)

Results(name) == [visited : SUBSET NamesOf(name), cycles : SUBSET NamesOf(name)]

\* The two searches that are made in one for its first spread.
Inner(name, spreads, s) ==
    [left    |-> spreads[Min(s.left)],
     inside  |-> s.inside \union {name[Min(s.left)]},
     visited |-> s.visited \union {name[Min(s.left)]}]
Rest(s, visited) == [left |-> s.left \ {Min(s.left)}, inside |-> s.inside, visited |-> visited]

Search(name, spreads, f, s) ==
    IF s.left = {} THEN [visited |-> s.visited, cycles |-> {}]
    ELSE IF name[Min(s.left)] \in s.inside
    THEN [f[Rest(s, s.visited)] EXCEPT !.cycles = @ \union {name[Min(s.left)]}]
    ELSE IF name[Min(s.left)] \in s.visited THEN f[Rest(s, s.visited)]
    ELSE [f[Rest(s, f[Inner(name, spreads, s)].visited)]
             EXCEPT !.cycles = @ \union f[Inner(name, spreads, s)].cycles]

AreNamed(name, spreads) == IsGraph(spreads) /\ DOMAIN name = DOMAIN spreads

\* What a search still has before it: the fragments not visited, each with all there is to
\* spread, and what is left.
Size(name, spreads, s) ==
    Cardinality(NamesOf(name) \ s.visited) * (Cardinality(DOMAIN spreads) + 1)
        + Cardinality(s.left)

\* Sizes are compared by what is not visited first, then by what is left.
LEMMA Lexicographic ==
    ASSUME NEW u \in Nat, NEW v \in Nat, u < v,
           NEW n \in Nat, NEW k \in Nat, k <= n, NEW l \in Nat
    PROVE  u * (n + 1) + k < v * (n + 1) + l
<1>1. PICK d \in Nat : v = u + 1 + d
  <2>1. v - u - 1 \in Nat /\ v = u + 1 + (v - u - 1)
    OBVIOUS
  <2> QED
    BY <2>1
<1>2. v * (n + 1) = u * (n + 1) + (n + 1) + d * (n + 1)
  BY <1>1
<1>3. d * (n + 1) \in Nat /\ u * (n + 1) \in Nat
  OBVIOUS
<1> QED
  BY <1>2, <1>3

\* The names of the fragments are finitely many.
LEMMA NamesAreFinite ==
    ASSUME NEW name, NEW spreads, AreNamed(name, spreads)
    PROVE  IsFiniteSet(NamesOf(name))
<1> DEFINE called == [i \in DOMAIN spreads |-> name[i]]
<1>1. called \in Surjection(DOMAIN spreads, NamesOf(name))
  BY DEF AreNamed, NamesOf, Surjection
<1>2. IsFiniteSet(DOMAIN spreads)
  BY DEF AreNamed, IsGraph
<1> HIDE DEF called
<1> QED
  BY <1>1, <1>2, FS_Surjection

\* The first of what is left is one of it.
LEMMA FirstIsLeft ==
    ASSUME NEW T, T \subseteq Nat, T # {}
    PROVE  Min(T) \in T
BY Least DEF Min

\* Every search leads to smaller ones.
LEMMA SearchesGoDown ==
    ASSUME NEW name, NEW spreads, AreNamed(name, spreads), NEW s \in Searches(name, spreads)
    PROVE  /\ Size(name, spreads, s) \in Nat
           /\ s.left # {} =>
                /\ Min(s.left) \in s.left /\ name[Min(s.left)] \in NamesOf(name)
                /\ Inner(name, spreads, s) \in Searches(name, spreads)
                /\ name[Min(s.left)] \notin s.visited =>
                      Size(name, spreads, Inner(name, spreads, s)) < Size(name, spreads, s)
                /\ \A v \in SUBSET NamesOf(name) :
                      /\ Rest(s, v) \in Searches(name, spreads)
                      /\ s.visited \subseteq v =>
                            Size(name, spreads, Rest(s, v)) < Size(name, spreads, s)
<1> DEFINE D == DOMAIN spreads
           N == NamesOf(name)
<1>1. IsFiniteSet(D) /\ D \subseteq Nat /\ DOMAIN name = D /\ \A i \in D : spreads[i] \subseteq D
  BY DEF AreNamed, IsGraph
<1>2. N = {name[i] : i \in D}
  BY <1>1 DEF NamesOf
<1>3. IsFiniteSet(N)
  BY NamesAreFinite
<1>4. s.left \subseteq D /\ s.inside \subseteq N /\ s.visited \subseteq N
  BY DEF Searches
<1>5. \A T \in SUBSET D : IsFiniteSet(T) /\ Cardinality(T) \in Nat
                          /\ Cardinality(T) <= Cardinality(D)
  BY <1>1, FS_Subset, FS_CardinalityType
<1>6. Cardinality(D) \in Nat
  BY <1>1, FS_CardinalityType
<1>7. \A v \in SUBSET N : Cardinality(N \ v) \in Nat
  BY <1>3, FewerLeft
<1>8. Size(name, spreads, s) \in Nat
  <2>1. Cardinality(N \ s.visited) \in Nat /\ Cardinality(s.left) \in Nat
    BY <1>4, <1>5, <1>7
  <2> HIDE DEF N, D
  <2>2. Cardinality(N \ s.visited) * (Cardinality(D) + 1) \in Nat
    BY <2>1, <1>6
  <2> QED
    BY <2>1, <2>2 DEF Size, N, D
<1>9. ASSUME s.left # {}
      PROVE  /\ Min(s.left) \in s.left /\ name[Min(s.left)] \in N
             /\ Inner(name, spreads, s) \in Searches(name, spreads)
             /\ name[Min(s.left)] \notin s.visited =>
                   Size(name, spreads, Inner(name, spreads, s)) < Size(name, spreads, s)
             /\ \A v \in SUBSET N :
                   /\ Rest(s, v) \in Searches(name, spreads)
                   /\ s.visited \subseteq v =>
                         Size(name, spreads, Rest(s, v)) < Size(name, spreads, s)
  <2> DEFINE i == Min(s.left)
             inner == Inner(name, spreads, s)
  <2>1. i \in s.left
    BY <1>1, <1>4, <1>9, FirstIsLeft
  <2> HIDE DEF D, N
  <2>2. i \in D /\ name[i] \in N /\ spreads[i] \subseteq D
    BY <1>1, <1>2, <1>4, <2>1
  <2>3. /\ inner.left = spreads[i] /\ inner.visited = s.visited \union {name[i]}
        /\ inner \in Searches(name, spreads)
    BY <1>4, <2>2 DEF Inner, Searches, D, N
  <2>4. ASSUME name[i] \notin s.visited
        PROVE  Size(name, spreads, inner) < Size(name, spreads, s)
    <3> HIDE DEF i, inner
    <3>1. Cardinality(N \ inner.visited) < Cardinality(N \ s.visited)
      <4>1. s.visited \subseteq inner.visited /\ name[i] \in inner.visited
        BY <2>3
      <4> QED
        BY <1>3, <2>2, <2>4, <4>1, FewerLeft
    <3>2. inner.visited \subseteq N
      BY <1>4, <2>2, <2>3
    <3>3. /\ Cardinality(N \ inner.visited) \in Nat /\ Cardinality(N \ s.visited) \in Nat
          /\ Cardinality(inner.left) \in Nat /\ Cardinality(inner.left) <= Cardinality(D)
          /\ Cardinality(s.left) \in Nat
      BY <1>4, <1>5, <1>7, <2>2, <2>3, <3>2
    <3> QED
      BY <1>6, <3>1, <3>3, Lexicographic DEF Size, N, D
  <2>5. ASSUME NEW v \in SUBSET N
        PROVE  /\ Rest(s, v) \in Searches(name, spreads)
               /\ s.visited \subseteq v =>
                     Size(name, spreads, Rest(s, v)) < Size(name, spreads, s)
    <3> DEFINE rest == Rest(s, v)
    <3>1. /\ rest.left = s.left \ {i} /\ rest.visited = v
          /\ rest \in Searches(name, spreads)
      BY <1>4 DEF Rest, Searches, D, N
    <3> HIDE DEF rest, i, inner
    <3>2. ASSUME s.visited \subseteq v
          PROVE  Size(name, spreads, rest) < Size(name, spreads, s)
      <4>1. Cardinality(N \ v) <= Cardinality(N \ s.visited)
        BY <1>3, <3>2, FewerLeft
      <4>2. Cardinality(rest.left) = Cardinality(s.left) - 1
        BY <1>4, <1>5, <2>1, <3>1, FS_RemoveElement
      <4>3. /\ Cardinality(N \ v) \in Nat /\ Cardinality(N \ s.visited) \in Nat
            /\ Cardinality(s.left) \in Nat /\ Cardinality(rest.left) \in Nat
            /\ Cardinality(rest.left) <= Cardinality(D)
        <5>1. rest.left \subseteq D
          BY <1>4, <3>1
        <5> QED
          BY <1>4, <1>5, <1>7, <5>1
      <4>4. CASE Cardinality(N \ v) < Cardinality(N \ s.visited)
        BY <1>6, <3>1, <4>3, <4>4, Lexicographic DEF Size, N, D
      <4>5. CASE Cardinality(N \ v) = Cardinality(N \ s.visited)
        <5>1. Cardinality(N \ v) * (Cardinality(D) + 1) \in Nat
          BY <1>6, <4>3
        <5> QED
          BY <3>1, <4>2, <4>3, <4>5, <5>1 DEF Size, N, D
      <4> QED
        BY <4>1, <4>3, <4>4, <4>5
    <3> QED
      BY <3>1, <3>2 DEF rest
  <2> QED
    BY <2>1, <2>2, <2>3, <2>4, <2>5
<1> HIDE DEF N, D
<1> QED
  BY <1>8, <1>9 DEF N

\* The sizes of the searches have a bound.
LEMMA SearchesAreBounded ==
    ASSUME NEW name, NEW spreads, AreNamed(name, spreads)
    PROVE  \E b \in Nat : \A s \in Searches(name, spreads) : Size(name, spreads, s) < b
<1> DEFINE D == DOMAIN spreads
           N == NamesOf(name)
           b == (Cardinality(N) + 1) * (Cardinality(D) + 1) + 0
<1>1. IsFiniteSet(D) /\ IsFiniteSet(N)
  BY NamesAreFinite DEF AreNamed, IsGraph
<1>2. Cardinality(D) \in Nat /\ Cardinality(N) \in Nat
  BY <1>1, FS_CardinalityType
<1>3. ASSUME NEW s \in Searches(name, spreads)
      PROVE  Size(name, spreads, s) < b
  <2>1. s.left \in SUBSET D /\ {} \subseteq s.visited /\ N \ {} = N
    BY DEF Searches
  <2> HIDE DEF D, N
  <2>2. Cardinality(s.left) \in Nat /\ Cardinality(s.left) <= Cardinality(D)
    BY <1>1, <2>1, FS_Subset, FS_CardinalityType
  <2>3. Cardinality(N \ s.visited) \in Nat /\ Cardinality(N \ s.visited) <= Cardinality(N)
    BY <1>1, <2>1, FewerLeft
  <2>4. Cardinality(N \ s.visited) < Cardinality(N) + 1 /\ Cardinality(N) + 1 \in Nat /\ 0 \in Nat
    BY <1>2, <2>3
  <2> QED
    BY <1>2, <2>2, <2>3, <2>4, Lexicographic DEF Size, D, N
<1>4. b \in Nat
  <2> HIDE DEF D, N
  <2>1. (Cardinality(N) + 1) * (Cardinality(D) + 1) \in Nat
    BY <1>2
  <2> QED
    BY <2>1
<1> HIDE DEF b
<1> QED
  BY <1>3, <1>4

\* What holds of a search whenever it holds of the smaller ones holds of all.
LEMMA SearchInduction ==
    ASSUME NEW name, NEW spreads, AreNamed(name, spreads), NEW P,
           \A s \in Searches(name, spreads) :
               (\A t \in Searches(name, spreads) :
                   Size(name, spreads, t) < Size(name, spreads, s) => t \in P) => s \in P
    PROVE  Searches(name, spreads) \subseteq P
<1> DEFINE S == Searches(name, spreads)
           M(s) == Size(name, spreads, s)
           T == {n \in Nat : \E s \in S : M(s) = n /\ s \notin P}
<1>1. \A s \in S : M(s) \in Nat
  BY SearchesGoDown
<1> HIDE DEF S, M
<1>2. T = {}
  <2> SUFFICES ASSUME T # {} PROVE FALSE
    OBVIOUS
  <2>1. PICK n \in T : \A m \in T : n <= m
    BY Least
  <2>2. PICK s \in S : M(s) = n /\ s \notin P
    BY <2>1
  <2>3. \A t \in S : M(t) < M(s) => t \in P
    BY <1>1, <2>1, <2>2
  <2> QED
    BY <2>2, <2>3 DEF S, M
<1> QED
  BY <1>1, <1>2 DEF S

\* What any search answers: names, and it forgets none that is visited.
IsAnswer(name, s, result) == result \in Results(name) /\ s.visited \subseteq result.visited

\* A search whose smaller searches answer with names, forgetting none that is visited,
\* does so itself.
LEMMA AnswersFollow ==
    ASSUME NEW name, NEW spreads, AreNamed(name, spreads), NEW s \in Searches(name, spreads),
           NEW f, \A t \in Searches(name, spreads) :
                     Size(name, spreads, t) < Size(name, spreads, s) => IsAnswer(name, t, f[t])
    PROVE  /\ IsAnswer(name, s, Search(name, spreads, f, s))
           /\ s.left # {} /\ name[Min(s.left)] \notin s.visited =>
                 /\ f[Inner(name, spreads, s)].visited \in SUBSET NamesOf(name)
                 /\ s.visited \union {name[Min(s.left)]}
                       \subseteq f[Inner(name, spreads, s)].visited
<1> DEFINE N == NamesOf(name)
           n == name[Min(s.left)]
           inner == Inner(name, spreads, s)
<1>1. s.visited \in SUBSET N
  BY DEF Searches
<1>2. CASE s.left = {}
  <2>1. Search(name, spreads, f, s) = [visited |-> s.visited, cycles |-> {}]
    BY <1>2 DEF Search
  <2> QED
    BY <1>1, <1>2, <2>1 DEF IsAnswer, Results
<1>3. CASE s.left # {}
  <2>1. n \in N
    BY <1>3, SearchesGoDown
  <2>2. ASSUME NEW v \in SUBSET N, s.visited \subseteq v
        PROVE  f[Rest(s, v)] \in Results(name) /\ v \subseteq f[Rest(s, v)].visited
    <3>1. Rest(s, v) \in Searches(name, spreads)
          /\ Size(name, spreads, Rest(s, v)) < Size(name, spreads, s)
      BY <1>3, <2>2, SearchesGoDown
    <3>2. Rest(s, v).visited = v
      BY DEF Rest
    <3> QED
      BY <3>1, <3>2 DEF IsAnswer
  <2>3. ASSUME n \notin s.visited
        PROVE  f[inner] \in Results(name) /\ s.visited \union {n} \subseteq f[inner].visited
    <3>1. inner \in Searches(name, spreads)
          /\ Size(name, spreads, inner) < Size(name, spreads, s)
      BY <1>3, <2>3, SearchesGoDown
    <3>2. inner.visited = s.visited \union {n}
      BY DEF Inner
    <3> HIDE DEF inner, n
    <3> QED
      BY <3>1, <3>2 DEF IsAnswer
  <2>4. ASSUME n \notin s.visited
        PROVE  f[inner].visited \in SUBSET N /\ f[inner].cycles \in SUBSET N
    BY <2>3, <2>4 DEF Results
  <2>5. CASE n \in s.inside
    <3> DEFINE rest == f[Rest(s, s.visited)]
    <3>1. Search(name, spreads, f, s) = [rest EXCEPT !.cycles = @ \union {n}]
      BY <1>3, <2>5 DEF Search
    <3>2. rest \in Results(name) /\ s.visited \subseteq rest.visited
      BY <1>1, <2>2
    <3> HIDE DEF rest, n
    <3> QED
      BY <1>1, <1>3, <2>1, <2>3, <2>4, <3>1, <3>2 DEF IsAnswer, Results, n
  <2>6. CASE n \notin s.inside /\ n \in s.visited
    <3>1. Search(name, spreads, f, s) = f[Rest(s, s.visited)]
      BY <1>3, <2>6 DEF Search
    <3> QED
      BY <1>1, <2>2, <2>6, <3>1 DEF IsAnswer
  <2>7. CASE n \notin s.inside /\ n \notin s.visited
    <3> DEFINE rest == f[Rest(s, f[inner].visited)]
    <3>1. Search(name, spreads, f, s) = [rest EXCEPT !.cycles = @ \union f[inner].cycles]
      BY <1>3, <2>7 DEF Search
    <3>2. rest \in Results(name) /\ f[inner].visited \subseteq rest.visited
      BY <2>2, <2>3, <2>4, <2>7
    <3>3. s.visited \subseteq f[inner].visited /\ f[inner].cycles \in SUBSET N
      BY <2>3, <2>4, <2>7
    <3> HIDE DEF rest, inner
    <3>4. IsAnswer(name, s, Search(name, spreads, f, s))
      BY <3>1, <3>2, <3>3 DEF IsAnswer, Results
    <3> QED
      BY <2>3, <2>4, <2>7, <3>4 DEF inner
  <2> QED
    BY <2>5, <2>6, <2>7
<1> QED
  BY <1>2, <1>3

\* There is a function that satisfies the equation of detectCycles: it can be defined for
\* larger and larger searches.
LEMMA SearchExists ==
    ASSUME NEW name, NEW spreads, AreNamed(name, spreads)
    PROVE  \E f : f = [s \in Searches(name, spreads) |-> Search(name, spreads, f, s)]
<1> DEFINE S == Searches(name, spreads)
           M(s) == Size(name, spreads, s)
           Fills(f, n) == \A s \in S : M(s) < n => /\ f[s] = Search(name, spreads, f, s)
                                                   /\ IsAnswer(name, s, f[s])
           T == {n \in Nat : ~\E f : f = [s \in S |-> f[s]] /\ Fills(f, n)}
<1>0. \A s \in S : M(s) \in Nat
  BY SearchesGoDown
<1>1. T = {}
  <2> SUFFICES ASSUME T # {} PROVE FALSE
    OBVIOUS
  <2>1. PICK n \in T : \A m \in T : n <= m
    BY Least
  <2>2. n # 0
    <3> DEFINE none == [s \in S |-> {}]
    <3>1. none = [s \in S |-> none[s]]
      OBVIOUS
    <3>2. Fills(none, 0)
      <4> HIDE DEF M, S, none
      <4> QED
        BY <1>0
    <3> HIDE DEF Fills, none
    <3> QED
      BY <3>1, <3>2
  <2>3. PICK f : f = [s \in S |-> f[s]] /\ Fills(f, n - 1)
    <3> HIDE DEF Fills
    <3>1. n - 1 \in Nat /\ n - 1 \notin T
      BY <2>1, <2>2
    <3> QED
      BY <3>1
  <2> DEFINE e == [s \in S |-> Search(name, spreads, f, s)]
  <2>4. e = [s \in S |-> e[s]]
    OBVIOUS
  <2>5. ASSUME NEW t \in S, M(t) < n - 1
        PROVE  e[t] = f[t] /\ IsAnswer(name, t, f[t])
    <3> HIDE DEF M, S
    <3> QED
      BY <2>3, <2>5
  <2>6. ASSUME NEW s \in S, M(s) < n
        PROVE  e[s] = Search(name, spreads, e, s) /\ IsAnswer(name, s, e[s])
    <3>1. \A t \in S : M(t) < M(s) => e[t] = f[t] /\ IsAnswer(name, t, f[t])
      <4> HIDE DEF M, S, e
      <4> QED
        BY <1>0, <2>1, <2>5, <2>6
    <3>2. e[s] = Search(name, spreads, f, s)
      OBVIOUS
    <3> HIDE DEF e
    <3>3. IsAnswer(name, s, e[s])
      BY <3>1, <3>2, AnswersFollow
    <3>4. Search(name, spreads, e, s) = Search(name, spreads, f, s)
      <4>1. CASE s.left = {}
        BY <4>1 DEF Search
      <4>2. CASE s.left # {}
        <5> DEFINE i == name[Min(s.left)]
                   inner == Inner(name, spreads, s)
        <5>1. \A v \in SUBSET NamesOf(name) :
                 s.visited \subseteq v => e[Rest(s, v)] = f[Rest(s, v)]
          BY <3>1, <4>2, SearchesGoDown
        <5>2. e[Rest(s, s.visited)] = f[Rest(s, s.visited)]
          BY <5>1 DEF Searches
        <5>3. CASE i \in s.inside \/ i \in s.visited
          BY <4>2, <5>2, <5>3 DEF Search
        <5>4. CASE i \notin s.inside /\ i \notin s.visited
          <6>1. e[inner] = f[inner]
            BY <3>1, <4>2, <5>4, SearchesGoDown
          <6>2. f[inner].visited \in SUBSET NamesOf(name) /\ s.visited \subseteq f[inner].visited
            BY <3>1, <4>2, <5>4, AnswersFollow
          <6>3. e[Rest(s, e[inner].visited)] = f[Rest(s, f[inner].visited)]
            BY <5>1, <6>1, <6>2
          <6> QED
            BY <4>2, <5>4, <6>1, <6>3 DEF Search
        <5> QED
          BY <5>3, <5>4
      <4> QED
        BY <4>1, <4>2
    <3> QED
      BY <3>2, <3>3, <3>4
  <2>7. Fills(e, n)
    BY <2>6
  <2> HIDE DEF e, Fills
  <2> QED
    BY <2>1, <2>4, <2>7
<1>2. PICK b \in Nat : \A s \in S : M(s) < b
  BY SearchesAreBounded
<1>3. PICK f : f = [s \in S |-> f[s]] /\ Fills(f, b)
  <2> HIDE DEF Fills
  <2> QED
    BY <1>1
<1>4. \A s \in S : f[s] = Search(name, spreads, f, s)
  <2> HIDE DEF S, M
  <2> QED
    BY <1>2, <1>3
<1> QED
  BY <1>3, <1>4

-----------------------------------------------------------------------------
(* The search for cycles: what it finds.                                    *)

\* The search of detectCycles answers all it can be asked.
TheSearch(name, spreads) ==
    CHOOSE f : f = [s \in Searches(name, spreads) |-> Search(name, spreads, f, s)]
Entered(spreads) == [left |-> DOMAIN spreads, inside |-> {}, visited |-> {}]

\* There is a depth-first search: detectCycles is its answer from all fragments.
LEMMA SearchAnswers ==
    ASSUME NEW name, NEW spreads, AreNamed(name, spreads)
    PROVE  /\ \A s \in Searches(name, spreads) :
                 /\ TheSearch(name, spreads)[s] = Search(name, spreads, TheSearch(name, spreads), s)
                 /\ IsAnswer(name, s, TheSearch(name, spreads)[s])
           /\ detectCycles(name, spreads) = TheSearch(name, spreads)[Entered(spreads)].cycles
           /\ Entered(spreads) \in Searches(name, spreads)
<1> DEFINE S == Searches(name, spreads)
           f == TheSearch(name, spreads)
           P == {s \in S : IsAnswer(name, s, f[s])}
<1>1. f = [s \in S |-> Search(name, spreads, f, s)]
  BY SearchExists DEF TheSearch
<1>2. detectCycles(name, spreads) = f[Entered(spreads)].cycles
  BY DEF detectCycles, TheSearch, Search, Inner, Rest, Entered
<1> HIDE DEF f
<1>3. \A s \in S : f[s] = Search(name, spreads, f, s)
  BY <1>1
<1>4. ASSUME NEW s \in S, \A t \in S : Size(name, spreads, t) < Size(name, spreads, s) => t \in P
      PROVE  s \in P
  BY <1>3, <1>4, AnswersFollow
<1>5. S \subseteq P
  <2> HIDE DEF P
  <2> QED
    BY <1>4, SearchInduction
<1>6. Entered(spreads) \in S
  BY DEF Entered, Searches
<1> QED
  BY <1>2, <1>3, <1>5, <1>6 DEF f

\* What a fragment refers to, by its spreads.
Refers(spreads, i) == Referenced(spreads, spreads[i])

\* What a fragment refers to is the least set with its spreads that is closed under them.
LEMMA RefersIsClosed ==
    ASSUME NEW spreads, IsGraph(spreads), NEW i \in DOMAIN spreads
    PROVE  /\ spreads[i] \subseteq Refers(spreads, i) /\ Refers(spreads, i) \subseteq DOMAIN spreads
           /\ \A j \in Refers(spreads, i) : spreads[j] \subseteq Refers(spreads, i)
           /\ \A S : spreads[i] \subseteq S /\ (\A j \in S \intersect DOMAIN spreads : spreads[j] \subseteq S)
                        => Refers(spreads, i) \subseteq S
<1>1. spreads[i] \in SUBSET DOMAIN spreads
  BY DEF IsGraph
<1>2. /\ Refers(spreads, i) \subseteq DOMAIN spreads
      /\ spreads[i] \subseteq Refers(spreads, i)
      /\ IsClosed(spreads, Refers(spreads, i))
      /\ \A S : spreads[i] \subseteq S /\ IsClosed(spreads, S) => Refers(spreads, i) \subseteq S
  BY <1>1, ReferencedIsLeast DEF Refers
<1>3. \A S : IsClosed(spreads, S) <=> \A j \in S \intersect DOMAIN spreads : spreads[j] \subseteq S
  BY DEF IsClosed
<1> QED
  BY <1>2, <1>3

\* The fragments on the spread path refer to what is left: what the search names is
\* on a cycle.
LEMMA FoundAreCycles ==
    ASSUME NEW name, NEW spreads, AreNamed(name, spreads),
           \A i, j \in DOMAIN name : name[i] = name[j] => i = j,
           NEW i \in DOMAIN spreads, name[i] \in detectCycles(name, spreads)
    PROVE  i \in Refers(spreads, i)
<1> DEFINE D == DOMAIN spreads
           S == Searches(name, spreads)
           F == TheSearch(name, spreads)
           Led(s) == \A j \in D, k \in s.left : name[j] \in s.inside => k \in Refers(spreads, j)
           Found(s) == \A j \in D : name[j] \in F[s].cycles => j \in Refers(spreads, j)
           P == {s \in S : Led(s) => Found(s)}
<1>1. ASSUME NEW s \in S,
             \A t \in S : Size(name, spreads, t) < Size(name, spreads, s) => t \in P,
             Led(s)
      PROVE  Found(s)
  <2> DEFINE n == Min(s.left)
             inner == Inner(name, spreads, s)
  <2>1. F[s] = Search(name, spreads, F, s) /\ s.visited \in SUBSET NamesOf(name)
    BY SearchAnswers DEF Searches
  <2>2. CASE s.left = {}
    <3>1. F[s].cycles = {}
      BY <2>1, <2>2 DEF Search
    <3> QED
      BY <3>1
  <2>3. CASE s.left # {}
    <3>0. n \in s.left /\ n \in D
      BY <2>3, SearchesGoDown DEF Searches
    <3>1. ASSUME NEW v \in SUBSET NamesOf(name), s.visited \subseteq v
          PROVE  Found(Rest(s, v)) /\ F[Rest(s, v)] \in Results(name)
      <4>1. Rest(s, v) \in S /\ Size(name, spreads, Rest(s, v)) < Size(name, spreads, s)
        BY <2>3, <3>1, SearchesGoDown
      <4>2. Led(Rest(s, v))
        BY <1>1 DEF Rest
      <4>3. F[Rest(s, v)] \in Results(name)
        BY <4>1, SearchAnswers DEF IsAnswer
      <4>4. Rest(s, v) \in P
        BY <1>1, <4>1
      <4> HIDE DEF Led, Found, S, F
      <4> QED
        BY <4>2, <4>3, <4>4
    <3>2. CASE name[n] \in s.inside
      <4> DEFINE rest == F[Rest(s, s.visited)]
      <4>1. F[s] = [rest EXCEPT !.cycles = @ \union {name[n]}]
        BY <2>1, <2>3, <3>2 DEF Search
      <4>2. rest \in Results(name) /\ Found(Rest(s, s.visited))
        BY <2>1, <3>1
      <4>3. F[s].cycles = rest.cycles \union {name[n]}
        <5> HIDE DEF rest, F
        <5> QED
          BY <4>1, <4>2 DEF Results
      <4>4. n \in Refers(spreads, n)
        BY <1>1, <3>0, <3>2
      <4>5. \A j \in D : name[j] = name[n] => j = n
        BY <3>0 DEF AreNamed
      <4> QED
        BY <4>2, <4>3, <4>4, <4>5
    <3>3. CASE name[n] \notin s.inside /\ name[n] \in s.visited
      <4>1. F[s] = F[Rest(s, s.visited)]
        BY <2>1, <2>3, <3>3 DEF Search
      <4> QED
        BY <2>1, <3>1, <4>1
    <3>4. CASE name[n] \notin s.inside /\ name[n] \notin s.visited
      <4> DEFINE rest == F[Rest(s, F[inner].visited)]
      <4>1. F[s] = [rest EXCEPT !.cycles = @ \union F[inner].cycles]
        BY <2>1, <2>3, <3>4 DEF Search
      <4>2. inner \in S /\ Size(name, spreads, inner) < Size(name, spreads, s)
        BY <2>3, <3>4, SearchesGoDown
      <4>3. inner.left = spreads[n] /\ inner.inside = s.inside \union {name[n]}
            /\ inner.visited = s.visited \union {name[n]}
        BY DEF Inner
      <4>4. F[inner].visited \in SUBSET NamesOf(name) /\ s.visited \subseteq F[inner].visited
        <5>1. IsAnswer(name, inner, F[inner])
          BY <4>2, SearchAnswers
        <5> HIDE DEF inner, F
        <5> QED
          BY <4>3, <5>1 DEF IsAnswer, Results
      <4>5. Led(inner)
        <5> SUFFICES ASSUME NEW j \in D, NEW k \in spreads[n], name[j] \in s.inside \union {name[n]}
                     PROVE  k \in Refers(spreads, j)
          BY <4>3
        <5>1. CASE name[j] = name[n]
          <6>1. j = n
            BY <3>0, <5>1 DEF AreNamed
          <6> QED
            BY <6>1, RefersIsClosed DEF AreNamed
        <5>2. CASE name[j] \in s.inside
          <6>1. n \in Refers(spreads, j)
            BY <1>1, <3>0, <5>2
          <6> QED
            BY <6>1, RefersIsClosed DEF AreNamed
        <5> QED
          BY <5>1, <5>2
      <4>6. Found(inner)
        <5>1. inner \in P
          BY <1>1, <4>2
        <5> HIDE DEF Led, Found, S, inner
        <5> QED
          BY <4>5, <5>1
      <4>7. rest \in Results(name) /\ Found(Rest(s, F[inner].visited))
        BY <3>1, <4>4
      <4>8. F[s].cycles = rest.cycles \union F[inner].cycles
        <5> HIDE DEF rest, F, inner
        <5> QED
          BY <4>1, <4>7 DEF Results
      <4> QED
        BY <4>6, <4>7, <4>8
    <3> QED
      BY <3>2, <3>3, <3>4
  <2> QED
    BY <2>2, <2>3
<1>2. S \subseteq P
  <2>1. \A s \in S : (\A t \in S : Size(name, spreads, t) < Size(name, spreads, s) => t \in P)
                       => s \in P
    <3> SUFFICES ASSUME NEW s \in S,
                        \A t \in S : Size(name, spreads, t) < Size(name, spreads, s) => t \in P
                 PROVE  Led(s) => Found(s)
      OBVIOUS
    <3> HIDE DEF Led, Found, P, S
    <3> QED
      BY <1>1
  <2> HIDE DEF P
  <2> QED
    BY <2>1, SearchInduction
<1>3. Entered(spreads) \in S /\ Led(Entered(spreads))
  BY SearchAnswers DEF Entered
<1>4. Found(Entered(spreads))
  <2> HIDE DEF Led, Found, S
  <2> QED
    BY <1>2, <1>3
<1> QED
  BY <1>4, SearchAnswers

\* Fragments that are done with: they spread only such fragments, and none is on a cycle.
Done(name, spreads, V) ==
    \A j \in DOMAIN spreads : name[j] \in V =>
        /\ \A k \in spreads[j] : name[k] \in V
        /\ j \notin Refers(spreads, j)

\* What is visited and no longer on the spread path is done with, as long as no cycle is
\* found: with none found, there is none.
LEMMA CyclesAreNotMissed ==
    ASSUME NEW name, NEW spreads, AreNamed(name, spreads),
           \A i, j \in DOMAIN name : name[i] = name[j] => i = j,
           detectCycles(name, spreads) = {}
    PROVE  \A i \in DOMAIN spreads : i \notin Refers(spreads, i)
<1> DEFINE D == DOMAIN spreads
           S == Searches(name, spreads)
           F == TheSearch(name, spreads)
           Left(s) == s.visited \ s.inside
           Sane(s) == s.inside \subseteq s.visited /\ Done(name, spreads, s.visited \ s.inside)
           Right(s) == F[s].cycles = {} =>
                          /\ Done(name, spreads, F[s].visited \ s.inside)
                          /\ \A k \in s.left : name[k] \in F[s].visited \ s.inside
           P == {s \in S : Sane(s) => Right(s)}
<1>1. ASSUME NEW s \in S,
             \A t \in S : Size(name, spreads, t) < Size(name, spreads, s) => t \in P,
             Sane(s), F[s].cycles = {}
      PROVE  /\ Done(name, spreads, F[s].visited \ s.inside)
             /\ \A k \in s.left : name[k] \in F[s].visited \ s.inside
  <2> DEFINE n == Min(s.left)
             inner == Inner(name, spreads, s)
  <2>1. F[s] = Search(name, spreads, F, s) /\ s.visited \in SUBSET NamesOf(name)
    BY SearchAnswers DEF Searches
  <2>2. CASE s.left = {}
    <3>1. F[s].visited = s.visited
      BY <2>1, <2>2 DEF Search
    <3> QED
      BY <1>1, <2>2, <3>1
  <2>3. CASE s.left # {}
    <3>0. n \in s.left /\ n \in D
      BY <2>3, SearchesGoDown DEF Searches
    <3>1. ASSUME NEW v \in SUBSET NamesOf(name), s.visited \subseteq v,
                 Done(name, spreads, v \ s.inside), F[Rest(s, v)].cycles = {}
          PROVE  /\ v \subseteq F[Rest(s, v)].visited
                 /\ Done(name, spreads, F[Rest(s, v)].visited \ s.inside)
                 /\ \A k \in s.left \ {n} : name[k] \in F[Rest(s, v)].visited \ s.inside
      <4> DEFINE rest == Rest(s, v)
      <4>1. rest \in S /\ Size(name, spreads, rest) < Size(name, spreads, s)
        BY <2>3, <3>1, SearchesGoDown
      <4>2. rest.left = s.left \ {n} /\ rest.inside = s.inside /\ rest.visited = v
        BY DEF Rest
      <4>3. IsAnswer(name, rest, F[rest])
        BY <4>1, SearchAnswers
      <4>4. rest \in P
        BY <1>1, <4>1
      <4> HIDE DEF rest, F, n, S
      <4>5. Sane(rest)
        BY <1>1, <3>1, <4>2
      <4>6. Right(rest)
        BY <4>4, <4>5
      <4>7. F[rest].cycles = {}
        BY <3>1 DEF rest
      <4>8. /\ v \subseteq F[rest].visited
            /\ Done(name, spreads, F[rest].visited \ s.inside)
            /\ \A k \in s.left \ {n} : name[k] \in F[rest].visited \ s.inside
        BY <4>2, <4>3, <4>6, <4>7 DEF IsAnswer
      <4> QED
        BY <4>8 DEF rest
    <3>2. ASSUME NEW v \in SUBSET NamesOf(name), s.visited \subseteq v
          PROVE  F[Rest(s, v)] \in Results(name)
      <4>1. Rest(s, v) \in S
        BY <2>3, <3>2, SearchesGoDown
      <4> QED
        BY <4>1, SearchAnswers DEF IsAnswer
    <3>3. CASE name[n] \in s.inside
      <4> DEFINE rest == F[Rest(s, s.visited)]
      <4>1. F[s] = [rest EXCEPT !.cycles = @ \union {name[n]}] /\ rest \in Results(name)
        BY <2>1, <2>3, <3>2, <3>3 DEF Search
      <4> HIDE DEF rest, F, n
      <4> QED
        BY <1>1, <4>1 DEF Results
    <3>4. CASE name[n] \notin s.inside /\ name[n] \in s.visited
      <4>1. F[s] = F[Rest(s, s.visited)]
        BY <2>1, <2>3, <3>4 DEF Search
      <4> DEFINE rest == F[Rest(s, s.visited)]
      <4>2. /\ s.visited \subseteq rest.visited
            /\ Done(name, spreads, rest.visited \ s.inside)
            /\ \A k \in s.left \ {n} : name[k] \in rest.visited \ s.inside
        BY <1>1, <2>1, <3>1, <4>1
      <4> HIDE DEF n, F, rest
      <4> QED
        BY <3>4, <4>1, <4>2 DEF rest
    <3>5. CASE name[n] \notin s.inside /\ name[n] \notin s.visited
      <4> DEFINE v == F[inner].visited
                 rest == F[Rest(s, v)]
      <4>1. F[s] = [rest EXCEPT !.cycles = @ \union F[inner].cycles]
        BY <2>1, <2>3, <3>5 DEF Search
      <4>2. inner \in S /\ Size(name, spreads, inner) < Size(name, spreads, s)
        BY <2>3, <3>5, SearchesGoDown
      <4>3. inner.left = spreads[n] /\ inner.inside = s.inside \union {name[n]}
            /\ inner.visited = s.visited \union {name[n]}
        BY DEF Inner
      <4>4. v \in SUBSET NamesOf(name) /\ s.visited \union {name[n]} \subseteq v
        <5>1. IsAnswer(name, inner, F[inner])
          BY <4>2, SearchAnswers
        <5> HIDE DEF inner, F
        <5> QED
          BY <4>3, <5>1 DEF IsAnswer, Results
      <4>5. rest \in Results(name)
        BY <3>2, <4>4
      <4>6. rest.cycles = {} /\ F[inner].cycles = {}
        <5> HIDE DEF rest, F, inner
        <5>1. F[s].cycles = rest.cycles \union F[inner].cycles
          BY <4>1, <4>5 DEF Results
        <5> QED
          BY <1>1, <5>1
      <4>7. /\ Done(name, spreads, v \ (s.inside \union {name[n]}))
            /\ \A k \in spreads[n] : name[k] \in v \ (s.inside \union {name[n]})
        <5>1. inner \in P
          BY <1>1, <4>2
        <5>2. inner.visited \ inner.inside = s.visited \ s.inside
          BY <3>5, <4>3
        <5>3. Sane(inner)
          BY <1>1, <4>3, <5>2
        <5> HIDE DEF inner, F, n, S
        <5>4. Right(inner)
          BY <5>1, <5>3
        <5> QED
          BY <4>3, <4>6, <5>4
      <4>8. Done(name, spreads, v \ s.inside)
        <5> DEFINE V == v \ (s.inside \union {name[n]})
                   K == {j \in D : name[j] \in V}
        <5>1. v \ s.inside = V \union {name[n]}
          BY <3>5, <4>4
        <5>2. spreads[n] \subseteq K /\ n \notin K
          <6>1. spreads[n] \subseteq D
            BY <3>0 DEF AreNamed, IsGraph
          <6> QED
            BY <4>7, <6>1
        <5>3. \A j \in K \intersect D : spreads[j] \subseteq K
          <6>1. \A j \in D : spreads[j] \subseteq D
            BY DEF AreNamed, IsGraph
          <6> HIDE DEF n, v
          <6> QED
            BY <4>7, <6>1 DEF Done
        <5>4. Refers(spreads, n) \subseteq K
          <6> HIDE DEF K
          <6> QED
            BY <3>0, <5>2, <5>3, RefersIsClosed DEF AreNamed
        <5>5. \A j \in D : name[j] = name[n] => j = n
          BY <3>0 DEF AreNamed
        <5> HIDE DEF n, v
        <5>6. \A k \in spreads[n] : name[k] \in V
          BY <4>7
        <5>7. Done(name, spreads, V) /\ n \notin Refers(spreads, n)
          BY <4>7, <5>2, <5>4
        <5> HIDE DEF V
        <5>8. Done(name, spreads, V \union {name[n]})
          BY <5>5, <5>6, <5>7 DEF Done
        <5> QED
          BY <5>1, <5>8
      <4>9. /\ v \subseteq rest.visited
            /\ Done(name, spreads, rest.visited \ s.inside)
            /\ \A k \in s.left \ {n} : name[k] \in rest.visited \ s.inside
        <5>1. s.visited \subseteq v
          BY <4>4
        <5> HIDE DEF v
        <5> QED
          BY <3>1, <4>4, <4>6, <4>8, <5>1
      <4>10. F[s].visited = rest.visited
        <5> HIDE DEF rest, F, inner
        <5> QED
          BY <4>1, <4>5 DEF Results
      <4>11. name[n] \in rest.visited \ s.inside
        <5> HIDE DEF rest, v, n
        <5> QED
          BY <3>5, <4>4, <4>9
      <4> HIDE DEF rest, v, n, F
      <4> QED
        BY <4>9, <4>10, <4>11
    <3> QED
      BY <3>3, <3>4, <3>5
  <2> QED
    BY <2>2, <2>3
<1>2. S \subseteq P
  <2>1. \A s \in S : (\A t \in S : Size(name, spreads, t) < Size(name, spreads, s) => t \in P)
                       => s \in P
    <3> SUFFICES ASSUME NEW s \in S,
                        \A t \in S : Size(name, spreads, t) < Size(name, spreads, s) => t \in P,
                        Sane(s), F[s].cycles = {}
                 PROVE  /\ Done(name, spreads, F[s].visited \ s.inside)
                        /\ \A k \in s.left : name[k] \in F[s].visited \ s.inside
      OBVIOUS
    <3> HIDE DEF Sane, P, S, F
    <3> QED
      BY <1>1
  <2> HIDE DEF P
  <2> QED
    BY <2>1, SearchInduction
<1>3. Entered(spreads) \in S /\ Sane(Entered(spreads))
  BY SearchAnswers DEF Entered, Done
<1>4. Right(Entered(spreads))
  <2> HIDE DEF Sane, Right, S
  <2> QED
    BY <1>2, <1>3
<1>5. F[Entered(spreads)].cycles = {} /\ Entered(spreads).left = D /\ Entered(spreads).inside = {}
  BY SearchAnswers DEF Entered
<1> HIDE DEF F
<1> QED
  BY <1>4, <1>5 DEF Done

\* The search of NoFragmentCycles (29935), which visits each fragment once: it finds a cycle
\* if and only if a fragment refers to itself, and names only such, whatever the fragments
\* and their spreads, as long as no two have one name.
THEOREM CyclesAreFound ==
    ASSUME NEW name, NEW spreads, AreNamed(name, spreads),
           \A i, j \in DOMAIN name : name[i] = name[j] => i = j
    PROVE  CyclesAreThose(name, spreads)
<1> DEFINE found == detectCycles(name, spreads)
<1>1. Cyclic(spreads) = {i \in DOMAIN spreads : i \in Refers(spreads, i)}
  BY DEF Cyclic, Refers
<1>2. found \subseteq NamesOf(name)
  <2>1. IsAnswer(name, Entered(spreads), TheSearch(name, spreads)[Entered(spreads)])
    BY SearchAnswers
  <2>2. TheSearch(name, spreads)[Entered(spreads)].cycles \in SUBSET NamesOf(name)
    BY <2>1 DEF IsAnswer, Results
  <2> QED
    BY <2>2, SearchAnswers
<1>3. \A n \in found : \E i \in DOMAIN spreads : n = name[i]
  BY <1>2 DEF NamesOf, AreNamed
<1>4. found \subseteq {name[i] : i \in Cyclic(spreads)}
  BY <1>1, <1>3, FoundAreCycles
<1>5. found = {} => Cyclic(spreads) = {}
  BY <1>1, CyclesAreNotMissed
<1> HIDE DEF found
<1>6. found # {} => Cyclic(spreads) # {}
  BY <1>4
<1> QED
  BY <1>4, <1>5, <1>6 DEF CyclesAreThose, found

=============================================================================
