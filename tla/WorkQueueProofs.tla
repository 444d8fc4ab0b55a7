-------------------------- MODULE WorkQueueProofs --------------------------
(***************************************************************************)
(* Proofs about WorkQueue for any tasks, any workers and any number of     *)
(* crashes and restarts: no task leaves the queue before it was worked,    *)
(* a task is repeated at most once per failure, and a busy Worker gets     *)
(* no second task; and tasks that are due move on.                         *)
(***************************************************************************)
EXTENDS WorkQueue, FiniteSetTheorems, TLAPS

\* The queue holds what was sent.
QueuedWasSent ==
    /\ onDisk \subseteq sent /\ ready \subseteq sent
    /\ \A w \in Workers : \A k \in 1 .. Len(unacked[w]) : unacked[w][k] \in sent

\* What the acknowledgements under way acknowledge has been worked.
AckedIsDone ==
    \A w \in Workers : \A k \in 1 .. acks[w] : done[unacked[w][k]] > 0

\* A callback works on the first delivery of its worker that has no
\* acknowledgement, unless its channel is gone.
CurrentIsNext ==
    \A w \in Workers :
        current[w] # None /\ w \notin stale =>
            /\ acks[w] < Len(unacked[w])
            /\ current[w] = unacked[w][acks[w] + 1]

\* Inductive: an acknowledgement removes the first delivery of its worker, so
\* NoTaskLost needs to know which deliveries those are and that they are done.
QueueInv ==
    TypeOK /\ QueuedWasSent /\ AckedIsDone /\ CurrentIsNext /\ NoTaskLost

\* A task is in the queue if it is ready or delivered at some position.
LEMMA InTheQueueDef ==
  ASSUME TypeOK, NEW m
  PROVE  InTheQueue(m) <=>
            \/ m \in ready
            \/ \E w \in Workers : \E k \in 1 .. Len(unacked[w]) :
                  unacked[w][k] = m
BY DEF InTheQueue, Held, TypeOK

\* The same of the next state.
LEMMA InTheQueueNext ==
  ASSUME TypeOK', NEW m
  PROVE  InTheQueue(m)' <=>
            \/ m \in ready'
            \/ \E w \in Workers : \E k \in 1 .. Len(unacked'[w]) :
                  unacked'[w][k] = m
BY DEF InTheQueue, Held, TypeOK

\* The senders.
LEMMA SendKeepsQueueInv ==
  ASSUME QueueInv, NEW m \in Tasks, Send(m)
  PROVE  QueueInv'
<1> USE DEF QueueInv
<1>1. TypeOK'
  BY DEF Send, TypeOK, failureVars
<1>2. QueuedWasSent' /\ AckedIsDone' /\ CurrentIsNext'
  BY DEF Send, QueuedWasSent, AckedIsDone, CurrentIsNext
<1>3. NoTaskLost'
  BY DEF Send, NoTaskLost, InTheQueue, Held, failureVars, TypeOK, QueuedWasSent
<1>4. QED BY <1>1, <1>2, <1>3

\* The disk.
LEMMA WriteToDiskKeepsQueueInv ==
  ASSUME QueueInv, NEW m \in Tasks, WriteToDisk(m)
  PROVE  QueueInv'
<1> USE DEF QueueInv
<1>1. TypeOK'
  BY DEF WriteToDisk, TypeOK, failureVars
<1>2. m \in sent
  BY InTheQueueDef DEF WriteToDisk, QueuedWasSent
<1>3. QueuedWasSent' /\ AckedIsDone' /\ CurrentIsNext'
  BY <1>2 DEF WriteToDisk, QueuedWasSent, AckedIsDone, CurrentIsNext
<1>4. NoTaskLost'
  BY DEF WriteToDisk, NoTaskLost, InTheQueue, Held, failureVars
<1>5. QED BY <1>1, <1>3, <1>4

\* A delivery goes behind those the worker has already.
LEMMA DeliverKeepsQueueInv ==
  ASSUME QueueInv, NEW w \in Workers, Deliver(w)
  PROVE  QueueInv'
<1> USE DEF QueueInv
<1>1. PICK m \in ready :
         /\ ready' = ready \ {m}
         /\ unacked' = [unacked EXCEPT ![w] = Append(@, m)]
  BY DEF Deliver
<1>2. UNCHANGED <<program, sent, onDisk, acks, current, stale, up, done,
                  crashes, restarts>>
  BY DEF Deliver, failureVars
<1>3. TypeOK'
  BY <1>1, <1>2 DEF TypeOK
<1>4. /\ Len(unacked'[w]) = Len(unacked[w]) + 1
      /\ unacked'[w][Len(unacked[w]) + 1] = m
      /\ \A k \in 1 .. Len(unacked[w]) : unacked'[w][k] = unacked[w][k]
      /\ \A v \in Workers \ {w} : unacked'[v] = unacked[v]
  BY <1>1 DEF TypeOK
<1>5. QueuedWasSent'
  BY <1>1, <1>2, <1>4 DEF QueuedWasSent, TypeOK
<1>6. AckedIsDone'
  <2> SUFFICES ASSUME NEW v \in Workers, NEW k \in 1 .. acks[v]
               PROVE  done[unacked'[v][k]] > 0
    BY <1>2 DEF AckedIsDone
  <2>1. k \in 1 .. Len(unacked[v])
    BY DEF TypeOK
  <2>2. unacked'[v][k] = unacked[v][k]
    BY <1>4, <2>1
  <2>3. QED BY <2>2 DEF AckedIsDone
<1>7. CurrentIsNext'
  <2> SUFFICES ASSUME NEW v \in Workers, current[v] # None, v \notin stale
               PROVE  /\ acks[v] < Len(unacked'[v])
                      /\ current[v] = unacked'[v][acks[v] + 1]
    BY <1>2 DEF CurrentIsNext
  <2>1. acks[v] < Len(unacked[v]) /\ current[v] = unacked[v][acks[v] + 1]
    BY DEF CurrentIsNext
  <2>2. acks[v] + 1 \in 1 .. Len(unacked[v]) /\ Len(unacked[v]) \in Nat
    BY <2>1 DEF TypeOK
  <2>3. CASE v = w
    BY <1>4, <2>1, <2>2, <2>3 DEF TypeOK
  <2>4. CASE v # w
    BY <1>4, <2>1, <2>4
  <2>5. QED BY <2>3, <2>4
<1>8. ASSUME NEW x, InTheQueue(x)
      PROVE  InTheQueue(x)'
  <2>1. CASE x = m
    <3>1. Len(unacked[w]) + 1 \in 1 .. Len(unacked'[w])
      BY <1>4 DEF TypeOK
    <3>2. QED BY <1>3, <1>4, <2>1, <3>1, InTheQueueNext
  <2>2. CASE x \in ready /\ x # m
    BY <1>1, <1>3, <2>2, InTheQueueNext
  <2>3. CASE \E v \in Workers : \E k \in 1 .. Len(unacked[v]) :
                unacked[v][k] = x
    <3>1. PICK v \in Workers : \E k \in 1 .. Len(unacked[v]) :
                 unacked[v][k] = x
      BY <2>3
    <3>2. PICK k \in 1 .. Len(unacked[v]) : unacked[v][k] = x
      BY <3>1
    <3>3. k \in 1 .. Len(unacked'[v]) /\ unacked'[v][k] = x
      <4>1. Len(unacked[w]) \in Nat
        BY DEF TypeOK
      <4>2. CASE v = w
        BY <1>4, <3>2, <4>1, <4>2
      <4>3. CASE v # w
        BY <1>4, <3>2, <4>3
      <4>4. QED BY <4>2, <4>3
    <3>4. QED BY <1>3, <3>3, InTheQueueNext
  <2>4. QED BY <1>8, <2>1, <2>2, <2>3, InTheQueueDef
<1>9. NoTaskLost'
  BY <1>2, <1>8 DEF NoTaskLost
<1>10. QED BY <1>3, <1>5, <1>6, <1>7, <1>9

\* An acknowledgement takes away the first delivery, and that is done.
LEMMA AckArrivesKeepsQueueInv ==
  ASSUME QueueInv, NEW w \in Workers, AckArrives(w)
  PROVE  QueueInv'
<1> USE DEF QueueInv
<1>1. UNCHANGED <<program, sent, onDisk, ready, current, stale, up, done,
                  crashes, restarts>>
  BY DEF AckArrives, failureVars
<1>2. /\ acks[w] > 0 /\ acks[w] \in Nat /\ acks[w] <= Len(unacked[w])
      /\ Len(unacked[w]) \in Nat
      /\ acks'[w] = acks[w] - 1
      /\ \A v \in Workers \ {w} : acks'[v] = acks[v]
  BY DEF AckArrives, TypeOK
<1>3. /\ Len(unacked'[w]) = Len(unacked[w]) - 1
      /\ \A k \in 1 .. Len(unacked[w]) - 1 :
            unacked'[w][k] = unacked[w][k + 1]
      /\ \A v \in Workers \ {w} : unacked'[v] = unacked[v]
  <2>1. unacked[w] \in Seq(Tasks) /\ unacked'[w] = Tail(unacked[w])
        /\ unacked[w] # <<>>
    BY <1>2 DEF AckArrives, TypeOK
  <2>2. \A v \in Workers \ {w} : unacked'[v] = unacked[v]
    BY DEF AckArrives, TypeOK
  <2>3. QED BY <2>1, <2>2
<1>4. TypeOK'
  <2>1. unacked' \in [Workers -> Seq(Tasks)]
    BY <1>2 DEF AckArrives, TypeOK
  <2>2. acks' \in [Workers -> Nat]
    BY <1>2 DEF AckArrives, TypeOK
  <2>3. ASSUME NEW v \in Workers
        PROVE  acks'[v] <= Len(unacked'[v])
    <3>1. CASE v = w
      BY <1>2, <1>3, <3>1
    <3>2. CASE v # w
      <4>1. acks'[v] = acks[v] /\ unacked'[v] = unacked[v]
        BY <1>2, <1>3, <3>2
      <4>2. QED BY <4>1 DEF TypeOK
    <3>3. QED BY <3>1, <3>2
  <2>4. QED BY <1>1, <2>1, <2>2, <2>3 DEF TypeOK
<1>5. QueuedWasSent'
  <2> SUFFICES ASSUME NEW v \in Workers, NEW k \in 1 .. Len(unacked'[v])
               PROVE  unacked'[v][k] \in sent
    BY <1>1 DEF QueuedWasSent
  <2>1. CASE v = w
    <3>1. k \in 1 .. Len(unacked[w]) - 1 /\ k + 1 \in 1 .. Len(unacked[w])
      BY <1>2, <1>3, <2>1
    <3>2. QED BY <1>3, <2>1, <3>1 DEF QueuedWasSent
  <2>2. CASE v # w
    BY <1>3, <2>2 DEF QueuedWasSent
  <2>3. QED BY <2>1, <2>2
<1>6. AckedIsDone'
  <2> SUFFICES ASSUME NEW v \in Workers, NEW k \in 1 .. acks'[v]
               PROVE  done[unacked'[v][k]] > 0
    BY <1>1 DEF AckedIsDone
  <2>1. CASE v = w
    <3>1. k \in 1 .. Len(unacked[w]) - 1 /\ k + 1 \in 1 .. acks[w]
      BY <1>2, <2>1
    <3>2. QED BY <1>3, <2>1, <3>1 DEF AckedIsDone
  <2>2. CASE v # w
    BY <1>2, <1>3, <2>2 DEF AckedIsDone
  <2>3. QED BY <2>1, <2>2
<1>7. CurrentIsNext'
  <2> SUFFICES ASSUME NEW v \in Workers, current[v] # None, v \notin stale
               PROVE  /\ acks'[v] < Len(unacked'[v])
                      /\ current[v] = unacked'[v][acks'[v] + 1]
    BY <1>1 DEF CurrentIsNext
  <2>1. acks[v] < Len(unacked[v]) /\ current[v] = unacked[v][acks[v] + 1]
    BY DEF CurrentIsNext
  <2>2. CASE v = w
    <3>1. acks[w] \in 1 .. Len(unacked[w]) - 1 /\ acks'[w] + 1 = acks[w]
      BY <1>2, <2>1, <2>2
    <3>2. acks'[w] < Len(unacked'[w])
      BY <1>2, <1>3, <3>1
    <3>3. unacked'[w][acks'[w] + 1] = unacked[w][acks[w] + 1]
      BY <1>3, <3>1
    <3>4. QED BY <2>1, <2>2, <3>2, <3>3
  <2>3. CASE v # w
    BY <1>2, <1>3, <2>1, <2>3
  <2>4. QED BY <2>2, <2>3
<1>8. ASSUME NEW x, InTheQueue(x)
      PROVE  InTheQueue(x)' \/ done[x] > 0
  <2>1. CASE x \in ready
    BY <1>1, <1>4, <2>1, InTheQueueNext
  <2>2. CASE \E v \in Workers : \E k \in 1 .. Len(unacked[v]) :
                unacked[v][k] = x
    <3>1. PICK v \in Workers : \E k \in 1 .. Len(unacked[v]) :
                 unacked[v][k] = x
      BY <2>2
    <3>2. PICK k \in 1 .. Len(unacked[v]) : unacked[v][k] = x
      BY <3>1
    <3>3. CASE v # w
      <4>1. k \in 1 .. Len(unacked'[v]) /\ unacked'[v][k] = x
        BY <1>3, <3>2, <3>3
      <4>2. QED BY <1>4, <4>1, InTheQueueNext
    <3>4. CASE v = w /\ k = 1
      BY <1>2, <3>2, <3>4 DEF AckedIsDone
    <3>5. CASE v = w /\ k # 1
      <4>1. k - 1 \in 1 .. Len(unacked[w]) - 1 /\ (k - 1) + 1 = k
        BY <1>2, <3>5
      <4>2. k - 1 \in 1 .. Len(unacked'[w]) /\ unacked'[w][k - 1] = x
        BY <1>3, <3>2, <3>5, <4>1
      <4>3. QED BY <1>4, <4>2, InTheQueueNext
    <3>6. QED BY <3>3, <3>4, <3>5
  <2>3. QED BY <1>8, <2>1, <2>2, InTheQueueDef
<1>9. NoTaskLost'
  BY <1>1, <1>8 DEF NoTaskLost
<1>10. QED BY <1>4, <1>5, <1>6, <1>7, <1>9

\* A callback takes the first delivery that has no acknowledgement.
LEMMA StartWorkKeepsQueueInv ==
  ASSUME QueueInv, NEW w \in Workers, StartWork(w)
  PROVE  QueueInv'
<1> USE DEF QueueInv
<1>1. UNCHANGED <<program, sent, onDisk, ready, unacked, acks, stale, up, done,
                  crashes, restarts>>
  BY DEF StartWork, failureVars
<1>2. current' = [current EXCEPT ![w] = unacked[w][acks[w] + 1]]
      /\ acks[w] < Len(unacked[w])
  BY DEF StartWork
<1>3. unacked[w][acks[w] + 1] \in Tasks
  BY <1>2 DEF TypeOK
<1>4. TypeOK'
  BY <1>1, <1>2, <1>3 DEF TypeOK
<1>5. QueuedWasSent' /\ AckedIsDone'
  BY <1>1 DEF QueuedWasSent, AckedIsDone
<1>6. CurrentIsNext'
  BY <1>1, <1>2 DEF CurrentIsNext, TypeOK
<1>7. NoTaskLost'
  BY <1>1 DEF NoTaskLost, InTheQueue, Held
<1>8. QED BY <1>4, <1>5, <1>6, <1>7

\* The acknowledgement a callback sends is for the delivery it has worked.
LEMMA FinishWorkKeepsQueueInv ==
  ASSUME QueueInv, NEW w \in Workers, FinishWork(w)
  PROVE  QueueInv'
<1> USE DEF QueueInv
<1>1. UNCHANGED <<program, sent, onDisk, ready, unacked, up, crashes, restarts>>
  BY DEF FinishWork, failureVars
<1>2. current[w] \in Tasks
  BY DEF FinishWork, TypeOK
<1>3. /\ done' \in [Tasks -> Nat]
      /\ done'[current[w]] > 0
      /\ \A m \in Tasks : done[m] > 0 => done'[m] > 0
  BY <1>2 DEF FinishWork, TypeOK
<1>4. /\ current' \in [Workers -> Tasks \union {None}]
      /\ current'[w] = None
      /\ \A v \in Workers \ {w} : current'[v] = current[v]
      /\ stale' = stale \ {w}
  BY DEF FinishWork, TypeOK
<1>5. /\ acks' \in [Workers -> Nat]
      /\ \A v \in Workers \ {w} : acks'[v] = acks[v]
      /\ w \in stale => acks'[w] = acks[w]
      /\ w \notin stale => acks'[w] = acks[w] + 1
  BY DEF FinishWork, TypeOK
<1>6. \A v \in Workers : acks'[v] <= Len(unacked[v])
  <2> TAKE v \in Workers
  <2>1. w \notin stale => acks[w] < Len(unacked[w])
    BY DEF CurrentIsNext, FinishWork
  <2>2. acks[v] \in Nat /\ Len(unacked[v]) \in Nat /\ acks[v] <= Len(unacked[v])
    BY DEF TypeOK
  <2>3. CASE v = w
    BY <1>5, <2>1, <2>2, <2>3
  <2>4. CASE v # w
    BY <1>5, <2>2, <2>4
  <2>5. QED BY <2>3, <2>4
<1>7. TypeOK'
  BY <1>1, <1>3, <1>4, <1>5, <1>6 DEF TypeOK
<1>8. QueuedWasSent'
  BY <1>1 DEF QueuedWasSent
<1>9. AckedIsDone'
  <2> SUFFICES ASSUME NEW v \in Workers, NEW k \in 1 .. acks'[v]
               PROVE  done'[unacked[v][k]] > 0
    BY <1>1 DEF AckedIsDone
  <2>1. unacked[v][k] \in Tasks
    BY <1>5, <1>6 DEF TypeOK
  <2>2. CASE k \in 1 .. acks[v]
    BY <1>3, <2>1, <2>2 DEF AckedIsDone
  <2>3. CASE k \notin 1 .. acks[v]
    <3>1. v = w /\ w \notin stale /\ k = acks[w] + 1
      BY <1>5, <2>3 DEF TypeOK
    <3>2. unacked[w][acks[w] + 1] = current[w]
      BY <3>1 DEF CurrentIsNext, FinishWork
    <3>3. QED BY <1>3, <3>1, <3>2
  <2>4. QED BY <2>2, <2>3
<1>10. CurrentIsNext'
  BY <1>1, <1>4, <1>5 DEF CurrentIsNext
<1>11. NoTaskLost'
  <2>1. \A m : InTheQueue(m)' <=> InTheQueue(m)
    BY <1>1 DEF InTheQueue, Held
  <2>2. \A m \in Tasks : done[m] > 0 => done'[m] > 0
    BY <1>3
  <2>3. QED BY <1>1, <2>1, <2>2 DEF NoTaskLost, TypeOK
<1>12. QED BY <1>7, <1>8, <1>9, <1>10, <1>11

\* What a dead worker held is ready again.
LEMMA CrashKeepsQueueInv ==
  ASSUME QueueInv, NEW w \in Workers, Crash(w)
  PROVE  QueueInv'
<1> USE DEF QueueInv
<1>1. UNCHANGED <<program, sent, onDisk, done, restarts>>
  BY DEF Crash
<1>2. /\ unacked' \in [Workers -> Seq(Tasks)]
      /\ Len(unacked'[w]) = 0
      /\ \A v \in Workers \ {w} : unacked'[v] = unacked[v]
  BY DEF Crash, TypeOK
<1>3. /\ acks' \in [Workers -> Nat]
      /\ acks'[w] = 0
      /\ \A v \in Workers \ {w} : acks'[v] = acks[v]
  BY DEF Crash, TypeOK
<1>4. /\ current' \in [Workers -> Tasks \union {None}]
      /\ current'[w] = None
      /\ \A v \in Workers \ {w} : current'[v] = current[v]
      /\ stale' = stale \ {w}
  BY DEF Crash, TypeOK
<1>5. ready' = ready \union {unacked[w][k] : k \in 1 .. Len(unacked[w])}
  BY DEF Crash, Held, TypeOK
<1>6. TypeOK'
  <2>1. ready' \subseteq Tasks
    BY <1>5 DEF TypeOK
  <2>2. up' \subseteq Workers /\ crashes' \in 0 .. MaxCrashes
    BY WorkQueueAssumption DEF Crash, TypeOK
  <2>3. ASSUME NEW v \in Workers
        PROVE  acks'[v] <= Len(unacked'[v])
    <3>1. CASE v = w
      BY <1>2, <1>3, <3>1
    <3>2. CASE v # w
      <4>1. acks'[v] = acks[v] /\ unacked'[v] = unacked[v]
        BY <1>2, <1>3, <3>2
      <4>2. QED BY <4>1 DEF TypeOK
    <3>3. QED BY <3>1, <3>2
  <2>4. QED BY <1>1, <1>2, <1>3, <1>4, <2>1, <2>2, <2>3 DEF TypeOK, Crash
<1>7. QueuedWasSent'
  BY <1>1, <1>2, <1>5 DEF QueuedWasSent
<1>8. AckedIsDone'
  <2> SUFFICES ASSUME NEW v \in Workers, NEW k \in 1 .. acks'[v]
               PROVE  done[unacked'[v][k]] > 0
    BY <1>1 DEF AckedIsDone
  <2>1. v # w
    BY <1>3
  <2>2. acks'[v] = acks[v] /\ unacked'[v] = unacked[v]
    BY <1>2, <1>3, <2>1
  <2>3. QED BY <2>2 DEF AckedIsDone
<1>9. CurrentIsNext'
  BY <1>2, <1>3, <1>4 DEF CurrentIsNext
<1>10. ASSUME NEW x, InTheQueue(x)
       PROVE  InTheQueue(x)'
  <2>1. CASE x \in ready'
    BY <1>6, <2>1, InTheQueueNext
  <2>2. CASE x \notin ready'
    <3>1. PICK v \in Workers : \E k \in 1 .. Len(unacked[v]) :
                 unacked[v][k] = x
      BY <1>5, <1>10, <2>2, InTheQueueDef
    <3>2. v # w
      BY <1>5, <2>2, <3>1
    <3>3. QED BY <1>2, <1>6, <3>1, <3>2, InTheQueueNext
  <2>3. QED BY <2>1, <2>2
<1>11. NoTaskLost'
  BY <1>1, <1>10 DEF NoTaskLost
<1>12. QED BY <1>6, <1>7, <1>8, <1>9, <1>11

\* A restart keeps what is in the queue and on disk.
LEMMA BrokerRestartsKeepsQueueInv ==
  ASSUME QueueInv, BrokerRestarts
  PROVE  QueueInv'
<1> USE DEF QueueInv
<1>1. UNCHANGED <<program, sent, onDisk, current, up, done, crashes>>
      /\ restarts' = restarts + 1
  BY DEF BrokerRestarts
<1>2. \A x : x \in ready' <=> InTheQueue(x) /\ x \in onDisk
  BY DEF BrokerRestarts, InTheQueue
<1>3. /\ unacked' = [w \in Workers |-> <<>>]
      /\ acks' = [w \in Workers |-> 0]
      /\ stale' = {w \in Workers : current[w] # None}
  BY DEF BrokerRestarts
<1>4. TypeOK'
  <2>1. ready' \subseteq Tasks /\ stale' \subseteq Workers
    BY <1>2, <1>3 DEF TypeOK
  <2>2. restarts' \in 0 .. MaxRestarts
    BY WorkQueueAssumption DEF BrokerRestarts, TypeOK
  <2>3. /\ unacked' \in [Workers -> Seq(Tasks)]
        /\ acks' \in [Workers -> Nat]
        /\ \A w \in Workers : acks'[w] <= Len(unacked'[w])
    BY <1>3
  <2>4. QED BY <1>1, <2>1, <2>2, <2>3 DEF TypeOK
<1>5. QueuedWasSent'
  BY <1>1, <1>2, <1>3 DEF QueuedWasSent
<1>6. AckedIsDone' /\ CurrentIsNext'
  BY <1>1, <1>3 DEF AckedIsDone, CurrentIsNext, TypeOK
<1>7. NoTaskLost'
  <2>1. restarts' # 0
    BY <1>1 DEF TypeOK
  <2> SUFFICES ASSUME NEW m \in onDisk
               PROVE  InTheQueue(m)' \/ done[m] > 0
    BY <1>1, <2>1 DEF NoTaskLost
  <2>2. InTheQueue(m) \/ done[m] > 0
    BY DEF NoTaskLost, QueuedWasSent
  <2>3. InTheQueue(m) => InTheQueue(m)'
    BY <1>2 DEF InTheQueue
  <2>4. QED BY <2>2, <2>3
<1>8. QED BY <1>4, <1>5, <1>6, <1>7

-----------------------------------------------------------------------------
\* The inductive invariant: deliveries, acknowledgements under way and callbacks
\* stay in step whichever workers die and however often the broker restarts.
THEOREM QueueInvHolds == Spec => []QueueInv
<1>1. Init => QueueInv
  BY WorkQueueAssumption
  DEF Init, QueueInv, TypeOK, QueuedWasSent, AckedIsDone, CurrentIsNext,
      NoTaskLost
<1>2. QueueInv /\ [Next]_vars => QueueInv'
  <2> SUFFICES ASSUME QueueInv, [Next]_vars PROVE QueueInv'
    OBVIOUS
  <2>1. ASSUME NEW m \in Tasks, Send(m) PROVE QueueInv'
    BY <2>1, SendKeepsQueueInv
  <2>2. ASSUME NEW m \in Tasks, WriteToDisk(m) PROVE QueueInv'
    BY <2>2, WriteToDiskKeepsQueueInv
  <2>3. ASSUME NEW w \in Workers, Deliver(w) PROVE QueueInv'
    BY <2>3, DeliverKeepsQueueInv
  <2>4. ASSUME NEW w \in Workers, AckArrives(w) PROVE QueueInv'
    BY <2>4, AckArrivesKeepsQueueInv
  <2>5. ASSUME NEW w \in Workers, StartWork(w) PROVE QueueInv'
    BY <2>5, StartWorkKeepsQueueInv
  <2>6. ASSUME NEW w \in Workers, FinishWork(w) PROVE QueueInv'
    BY <2>6, FinishWorkKeepsQueueInv
  <2>7. ASSUME NEW w \in Workers, Crash(w) PROVE QueueInv'
    BY <2>7, CrashKeepsQueueInv
  <2>8. CASE BrokerRestarts
    BY <2>8, BrokerRestartsKeepsQueueInv
  <2>9. CASE UNCHANGED vars
    BY <2>9 DEF QueueInv, TypeOK, QueuedWasSent, AckedIsDone, CurrentIsNext,
                NoTaskLost, InTheQueue, Held, vars, failureVars
  <2>10. QED
    BY <2>1, <2>2, <2>3, <2>4, <2>5, <2>6, <2>7, <2>8, <2>9
    DEF Next, Broker, Worker, Idle
<1>3. QED BY <1>1, <1>2, PTL DEF Spec

\* Every task the broker took, or after a restart every task it had on disk, is
\* in the queue or has been worked: the promise of the acknowledgement in the
\* finally block of Worker.
THEOREM NothingLost == Spec => []NoTaskLost
<1>1. QueueInv => NoTaskLost
  BY DEF QueueInv
<1>2. QED BY <1>1, QueueInvHolds, PTL

\* The types of the queue, with an acknowledgement for a delivery at most.
THEOREM QueueTypeCorrect == Spec => []TypeOK
<1>1. QueueInv => TypeOK
  BY DEF QueueInv
<1>2. QED BY <1>1, QueueInvHolds, PTL

-----------------------------------------------------------------------------
(* Repeats, and what a busy Worker holds.                                    *)

\* A task is in one place of the queue at most.
OncePlaced ==
    /\ \A v, w \in Workers : \A j \in 1 .. Len(unacked[v]), k \in 1 .. Len(unacked[w]) :
          unacked[v][j] = unacked[w][k] => v = w /\ j = k
    /\ \A w \in Workers : \A k \in 1 .. Len(unacked[w]) : unacked[w][k] \notin ready

\* Nobody works on a task that was not sent, and a callback whose channel is gone works.
UnsentIsNew ==
    /\ \A m \in Tasks \ sent : done[m] = 0 /\ \A w \in Workers : current[w] # m
    /\ \A w \in stale : current[w] # None

\* A Worker has one delivery at most.
RoomInv == program = "worker" => \A w \in Workers : Len(unacked[w]) <= 1

\* A task that a callback has still to end whose acknowledgement counts.
ToCome(m) ==
    \/ m \in ready
    \/ \E w \in Workers : \E k \in 1 .. Len(unacked[w]) : k > acks[w] /\ unacked[w][k] = m

\* The callbacks that work on a task whose delivery the broker has forgotten.
Orphans(m) == {w \in stale : current[w] = m}

\* How often a task has been worked, is being worked in vain and will be worked is paid
\* for by the failures.
Within(m) ==
    /\ IsFiniteSet(Orphans(m))
    /\ done[m] + Cardinality(Orphans(m)) + (IF ToCome(m) THEN 1 ELSE 0)
          <= 1 + crashes + restarts

\* The inductive invariant, on top of QueueInv.
RepeatInv ==
    OncePlaced /\ UnsentIsNew /\ RoomInv /\ \A m \in Tasks : Within(m)

\* The numbers the account is made of.
LEMMA Numbers ==
    ASSUME TypeOK
    PROVE  /\ crashes \in Nat /\ restarts \in Nat
           /\ \A m \in Tasks : done[m] \in Nat
           /\ \A w \in Workers : /\ Len(unacked[w]) \in Nat /\ acks[w] \in Nat
                                 /\ acks[w] <= Len(unacked[w]) /\ unacked[w] \in Seq(Tasks)
                                 /\ \A k \in 1 .. Len(unacked[w]) : unacked[w][k] \in Tasks
BY DEF TypeOK

\* An account that loses nothing but what a failure pays for.
LEMMA Account ==
    ASSUME NEW d \in Nat, NEW n \in Nat, NEW nn \in Nat, NEW t \in Nat, NEW tt \in Nat,
           NEW f \in Nat, NEW ff \in Nat,
           d + n + t <= 1 + f, nn <= n, tt <= t + 1, tt <= t \/ ff = f + 1, ff >= f
    PROVE  d + nn + tt <= 1 + ff
OBVIOUS

\* Failures are only counted upwards.
LEMMA Failures ==
    ASSUME NEW c \in Nat, NEW r \in Nat, NEW cc \in Nat, NEW rr \in Nat,
           cc + rr = c + r \/ cc + rr = c + r + 1
    PROVE  /\ c + r \in Nat /\ cc + rr \in Nat /\ cc + rr >= c + r
           /\ 1 + (cc + rr) = 1 + cc + rr
OBVIOUS

\* A step that ends no callback keeps the account if it brings no task back or is a
\* failure.
LEMMA WithinKept ==
    ASSUME TypeOK, TypeOK', NEW m \in Tasks, Within(m), Orphans(m)' \subseteq Orphans(m),
           done'[m] = done[m],
           \/ (ToCome(m)' => ToCome(m)) /\ crashes' + restarts' = crashes + restarts
           \/ crashes' + restarts' = crashes + restarts + 1
    PROVE  Within(m)'
<1> DEFINE n == Cardinality(Orphans(m))
           nn == Cardinality(Orphans(m)')
           t == IF ToCome(m) THEN 1 ELSE 0
           tt == IF ToCome(m)' THEN 1 ELSE 0
<1>1. IsFiniteSet(Orphans(m)') /\ nn \in Nat /\ n \in Nat /\ nn <= n
  BY FS_Subset, FS_CardinalityType DEF Within
<1>2. crashes \in Nat /\ restarts \in Nat /\ crashes' \in Nat /\ restarts' \in Nat
  <2>1. crashes' \in 0 .. MaxCrashes /\ restarts' \in 0 .. MaxRestarts
    BY DEF TypeOK
  <2> QED
    BY <2>1, Numbers, WorkQueueAssumption
<1>3. done[m] \in Nat /\ done[m] + n + t <= 1 + crashes + restarts
  BY Numbers DEF Within
<1>4. t \in Nat /\ tt \in Nat /\ tt <= t + 1 /\ ((ToCome(m)' => ToCome(m)) => tt <= t)
  OBVIOUS
<1> HIDE DEF n, nn, t, tt
<1>5. PICK c \in Nat, r \in Nat, cc \in Nat, rr \in Nat :
         c = crashes /\ r = restarts /\ cc = crashes' /\ rr = restarts'
  BY <1>2
<1>6. \/ (ToCome(m)' => ToCome(m)) /\ cc + rr = c + r
      \/ cc + rr = c + r + 1
  BY <1>5
<1>7. /\ c + r \in Nat /\ cc + rr \in Nat /\ cc + rr >= c + r
      /\ tt <= t \/ cc + rr = (c + r) + 1
  BY <1>4, <1>6, Failures
<1>8. done[m] + n + t <= 1 + (c + r)
  BY <1>1, <1>3, <1>4, <1>5
<1>9. done[m] + nn + tt <= 1 + (cc + rr)
  BY <1>1, <1>3, <1>4, <1>7, <1>8, Account
<1>10. 1 + (cc + rr) = 1 + cc + rr
  OBVIOUS
<1>11. done'[m] + nn + tt <= 1 + crashes' + restarts'
  BY <1>5, <1>9, <1>10
<1> QED
  BY <1>1, <1>11 DEF Within, nn, tt

\* A task comes into the queue once.
LEMMA SendKeepsRepeatInv ==
    ASSUME QueueInv, QueueInv', RepeatInv, NEW x \in Tasks, Send(x)
    PROVE  RepeatInv'
<1> USE DEF QueueInv, RepeatInv
<1>1. /\ x \notin sent /\ sent' = sent \union {x} /\ ready' = ready \union {x}
      /\ UNCHANGED <<program, unacked, acks, current, stale, done, crashes, restarts>>
  BY DEF Send, failureVars
<1>2. \A w \in Workers : \A k \in 1 .. Len(unacked[w]) : unacked[w][k] # x
  BY <1>1 DEF QueuedWasSent
<1>3. OncePlaced' /\ UnsentIsNew' /\ RoomInv'
  BY <1>1, <1>2 DEF OncePlaced, UnsentIsNew, RoomInv
<1>4. ASSUME NEW m \in Tasks
      PROVE  Within(m)'
  <2>1. Orphans(m)' = Orphans(m)
    BY <1>1 DEF Orphans
  <2>2. CASE m # x
    <3>1. ToCome(m)' => ToCome(m)
      BY <1>1, <2>2 DEF ToCome
    <3> QED
      BY <1>1, <2>1, <3>1, WithinKept
  <2>3. CASE m = x
    <3>1. done[m] = 0 /\ Orphans(m) = {}
      BY <1>1, <2>3 DEF UnsentIsNew, Orphans, TypeOK
    <3>2. IsFiniteSet(Orphans(m)') /\ Cardinality(Orphans(m)') = 0
      BY <2>1, <3>1, FS_EmptySet
    <3> QED
      BY <1>1, <3>1, <3>2, Numbers DEF Within
  <2> QED
    BY <2>2, <2>3
<1> QED
  BY <1>3, <1>4

\* A delivery moves a task, to a worker that has room.
LEMMA DeliverKeepsRepeatInv ==
    ASSUME QueueInv, QueueInv', RepeatInv, NEW w \in Workers, Deliver(w)
    PROVE  RepeatInv'
<1> USE DEF QueueInv, RepeatInv
<1>1. PICK x \in ready :
         ready' = ready \ {x} /\ unacked' = [unacked EXCEPT ![w] = Append(@, x)]
  BY DEF Deliver
<1>2. UNCHANGED <<program, sent, acks, current, stale, done, crashes, restarts>>
  BY DEF Deliver, failureVars
<1>3. /\ Len(unacked'[w]) = Len(unacked[w]) + 1 /\ Len(unacked[w]) \in Nat
      /\ unacked'[w][Len(unacked[w]) + 1] = x
      /\ \A k \in 1 .. Len(unacked[w]) : unacked'[w][k] = unacked[w][k]
      /\ \A v \in Workers \ {w} : unacked'[v] = unacked[v]
  BY <1>1 DEF TypeOK
<1>4. \A v \in Workers : \A k \in 1 .. Len(unacked'[v]) :
         \/ k \in 1 .. Len(unacked[v]) /\ unacked'[v][k] = unacked[v][k]
         \/ v = w /\ k = Len(unacked[w]) + 1 /\ unacked'[v][k] = x
  <2> TAKE v \in Workers
  <2> TAKE k \in 1 .. Len(unacked'[v])
  <2>1. CASE v # w
    BY <1>3, <2>1
  <2>2. CASE v = w
    BY <1>3, <2>2
  <2> QED
    BY <2>1, <2>2
<1>5. OncePlaced'
  <2>1. \A v \in Workers : \A k \in 1 .. Len(unacked[v]) : unacked[v][k] # x
    BY DEF OncePlaced
  <2>2. ASSUME NEW u \in Workers, NEW v \in Workers, NEW j \in 1 .. Len(unacked'[u]),
               NEW k \in 1 .. Len(unacked'[v]), unacked'[u][j] = unacked'[v][k]
        PROVE  u = v /\ j = k
    <3>1. CASE j \in 1 .. Len(unacked[u]) /\ unacked'[u][j] = unacked[u][j]
      <4>1. unacked[u][j] # x
        BY <2>1, <3>1
      <4>2. k \in 1 .. Len(unacked[v]) /\ unacked'[v][k] = unacked[v][k]
        BY <1>4, <2>2, <3>1, <4>1
      <4>3. unacked[u][j] = unacked[v][k]
        BY <2>2, <3>1, <4>2
      <4> QED
        BY <3>1, <4>2, <4>3 DEF OncePlaced
    <3>2. CASE u = w /\ j = Len(unacked[w]) + 1 /\ unacked'[u][j] = x
      <4>1. v = w /\ k = Len(unacked[w]) + 1
        BY <1>4, <2>1, <2>2, <3>2
      <4> QED
        BY <3>2, <4>1
    <3> QED
      BY <1>4, <3>1, <3>2
  <2>3. ASSUME NEW v \in Workers, NEW k \in 1 .. Len(unacked'[v])
        PROVE  unacked'[v][k] \notin ready'
    BY <1>1, <1>4 DEF OncePlaced
  <2> QED
    BY <2>2, <2>3 DEF OncePlaced
<1>6. UnsentIsNew'
  BY <1>2 DEF UnsentIsNew
<1>7. RoomInv'
  <2> SUFFICES ASSUME program = "worker", NEW v \in Workers
               PROVE  Len(unacked'[v]) <= 1
    BY <1>2 DEF RoomInv
  <2>1. Len(unacked[v]) <= 1 /\ Len(unacked[w]) < 1
    BY DEF RoomInv, Deliver, HasRoom
  <2> QED
    BY <1>3, <2>1
<1>8. ASSUME NEW m \in Tasks
      PROVE  Within(m)'
  <2>1. ToCome(m)' => ToCome(m)
    BY <1>1, <1>2, <1>4 DEF ToCome
  <2>2. Orphans(m)' = Orphans(m)
    BY <1>2 DEF Orphans
  <2> QED
    BY <1>2, <2>1, <2>2, WithinKept
<1> QED
  BY <1>5, <1>6, <1>7, <1>8

\* An acknowledgement takes a delivery that no callback has still to end.
LEMMA AckArrivesKeepsRepeatInv ==
    ASSUME QueueInv, QueueInv', RepeatInv, NEW w \in Workers, AckArrives(w)
    PROVE  RepeatInv'
<1> USE DEF QueueInv, RepeatInv
<1>1. UNCHANGED <<program, sent, ready, current, stale, done, crashes, restarts>>
  BY DEF AckArrives, failureVars
<1>2. /\ acks[w] > 0 /\ acks[w] \in Nat /\ acks'[w] = acks[w] - 1
      /\ \A v \in Workers \ {w} : acks'[v] = acks[v] /\ unacked'[v] = unacked[v]
  BY DEF AckArrives, TypeOK
<1>3. /\ Len(unacked'[w]) = Len(unacked[w]) - 1 /\ Len(unacked[w]) \in Nat
      /\ \A k \in 1 .. Len(unacked[w]) - 1 : unacked'[w][k] = unacked[w][k + 1]
  <2>1. /\ unacked[w] \in Seq(Tasks) /\ unacked'[w] = Tail(unacked[w])
        /\ Len(unacked[w]) \in Nat /\ acks[w] <= Len(unacked[w])
    BY DEF AckArrives, TypeOK
  <2>2. unacked[w] # <<>>
    BY <1>2, <2>1
  <2> QED
    BY <2>1, <2>2
<1>4. \A v \in Workers : \A k \in 1 .. Len(unacked'[v]) :
         \/ v = w /\ k + 1 \in 1 .. Len(unacked[v]) /\ unacked'[v][k] = unacked[v][k + 1]
         \/ v # w /\ k \in 1 .. Len(unacked[v]) /\ unacked'[v][k] = unacked[v][k]
  <2> TAKE v \in Workers
  <2> TAKE k \in 1 .. Len(unacked'[v])
  <2>1. CASE v # w
    BY <1>2, <2>1
  <2>2. CASE v = w
    BY <1>3, <2>2
  <2> QED
    BY <2>1, <2>2
<1>5. OncePlaced'
  <2>1. ASSUME NEW u \in Workers, NEW v \in Workers, NEW j \in 1 .. Len(unacked'[u]),
               NEW k \in 1 .. Len(unacked'[v]), unacked'[u][j] = unacked'[v][k]
        PROVE  u = v /\ j = k
    BY <1>4, <2>1 DEF OncePlaced
  <2>2. ASSUME NEW v \in Workers, NEW k \in 1 .. Len(unacked'[v])
        PROVE  unacked'[v][k] \notin ready'
    BY <1>1, <1>4 DEF OncePlaced
  <2> QED
    BY <2>1, <2>2 DEF OncePlaced
<1>6. UnsentIsNew'
  BY <1>1 DEF UnsentIsNew
<1>7. RoomInv'
  <2> SUFFICES ASSUME program = "worker", NEW v \in Workers
               PROVE  Len(unacked'[v]) <= 1
    BY <1>1 DEF RoomInv
  <2>1. Len(unacked[v]) <= 1 /\ Len(unacked[w]) <= 1
    BY DEF RoomInv
  <2> QED
    BY <1>2, <1>3, <2>1
<1>8. ASSUME NEW m \in Tasks
      PROVE  Within(m)'
  <2>1. ToCome(m)' => ToCome(m)
    <3>1. ASSUME NEW v \in Workers, NEW k \in 1 .. Len(unacked'[v]), k > acks'[v],
                 unacked'[v][k] = m
          PROVE  ToCome(m)
      <4>1. CASE v = w
        BY <1>2, <1>4, <3>1, <4>1 DEF ToCome
      <4>2. CASE v # w
        BY <1>2, <1>4, <3>1, <4>2 DEF ToCome
      <4> QED
        BY <4>1, <4>2
    <3> QED
      BY <1>1, <3>1 DEF ToCome
  <2>2. Orphans(m)' = Orphans(m)
    BY <1>1 DEF Orphans
  <2> QED
    BY <1>1, <2>1, <2>2, WithinKept
<1> QED
  BY <1>5, <1>6, <1>7, <1>8

\* A callback takes a task that was sent and is not orphaned by it.
LEMMA StartWorkKeepsRepeatInv ==
    ASSUME QueueInv, QueueInv', RepeatInv, NEW w \in Workers, StartWork(w)
    PROVE  RepeatInv'
<1> USE DEF QueueInv, RepeatInv
<1>1. UNCHANGED <<program, sent, ready, unacked, acks, stale, done, crashes, restarts>>
  BY DEF StartWork, failureVars
<1>2. /\ current[w] = None /\ acks[w] < Len(unacked[w])
      /\ current' = [current EXCEPT ![w] = unacked[w][acks[w] + 1]]
  BY DEF StartWork
<1>3. acks[w] + 1 \in 1 .. Len(unacked[w])
  BY <1>2, Numbers
<1>4. unacked[w][acks[w] + 1] \in sent
  BY <1>3 DEF QueuedWasSent
<1>5. w \notin stale
  BY <1>2 DEF UnsentIsNew
<1>6. /\ current'[w] = unacked[w][acks[w] + 1]
      /\ \A v \in Workers \ {w} : current'[v] = current[v]
  BY <1>2 DEF TypeOK
<1>7. OncePlaced' /\ RoomInv'
  BY <1>1 DEF OncePlaced, RoomInv
<1>8. UnsentIsNew'
  <2>1. stale \subseteq Workers
    BY DEF TypeOK
  <2> QED
    BY <1>1, <1>4, <1>5, <1>6, <2>1 DEF UnsentIsNew
<1>9. ASSUME NEW m \in Tasks
      PROVE  Within(m)'
  <2>1. ToCome(m)' => ToCome(m)
    BY <1>1 DEF ToCome
  <2>2. Orphans(m)' = Orphans(m)
    BY <1>1, <1>5, <1>6 DEF Orphans, TypeOK
  <2> QED
    BY <1>1, <2>1, <2>2, WithinKept
<1> QED
  BY <1>7, <1>8, <1>9

\* A callback that ends was orphaned or its task was still to come, and is no longer.
LEMMA FinishWorkKeepsRepeatInv ==
    ASSUME QueueInv, QueueInv', RepeatInv, NEW w \in Workers, FinishWork(w)
    PROVE  RepeatInv'
<1> USE DEF QueueInv, RepeatInv
<1>1. current[w] \in Tasks
  BY DEF FinishWork, TypeOK
<1>2. PICK x \in Tasks : x = current[w]
  BY <1>1
<1>3. /\ UNCHANGED <<program, sent, ready, unacked, crashes, restarts>>
      /\ x # None /\ stale' = stale \ {w}
  BY <1>2 DEF FinishWork, failureVars
<1>4. /\ done'[x] = done[x] + 1 /\ done[x] \in Nat
      /\ \A m \in Tasks \ {x} : done'[m] = done[m]
  BY <1>2 DEF FinishWork, TypeOK
<1>5. current'[w] = None /\ \A v \in Workers \ {w} : current'[v] = current[v]
  BY DEF FinishWork, TypeOK
<1>6. /\ \A v \in Workers \ {w} : acks'[v] = acks[v]
      /\ w \in stale => acks'[w] = acks[w]
      /\ w \notin stale => acks'[w] = acks[w] + 1
      /\ acks[w] \in Nat
  BY DEF FinishWork, TypeOK
<1>7. stale \subseteq Workers /\ None \notin Tasks
  BY WorkQueueAssumption DEF TypeOK
<1>8. OncePlaced' /\ RoomInv'
  BY <1>3 DEF OncePlaced, RoomInv
<1>9. UnsentIsNew'
  <2>1. x \in sent
    BY <1>2 DEF UnsentIsNew
  <2>2. \A m \in Tasks \ sent : done'[m] = 0
    BY <1>4, <2>1 DEF UnsentIsNew
  <2>3. \A m \in Tasks \ sent : \A v \in Workers : current'[v] # m
    BY <1>5, <1>7 DEF UnsentIsNew
  <2>4. \A v \in stale \ {w} : current'[v] # None
    BY <1>5, <1>7 DEF UnsentIsNew
  <2> QED
    BY <1>3, <2>2, <2>3, <2>4 DEF UnsentIsNew
<1>10. \A m \in Tasks : ToCome(m)' => ToCome(m)
  <2> TAKE m \in Tasks
  <2>1. \A v \in Workers : acks'[v] >= acks[v] /\ acks[v] \in Nat /\ acks'[v] \in Nat
    <3> TAKE v \in Workers
    <3>1. acks[v] \in Nat /\ acks[w] \in Nat
      BY Numbers
    <3>2. CASE v = w
      BY <1>6, <3>1, <3>2
    <3>3. CASE v # w
      BY <1>6, <3>1, <3>3
    <3> QED
      BY <3>2, <3>3
  <2>2. ASSUME NEW v \in Workers, NEW k \in 1 .. Len(unacked[v]), k > acks'[v],
               unacked[v][k] = m
        PROVE  ToCome(m)
    <3>1. k > acks[v]
      BY <2>1, <2>2, Numbers
    <3> QED
      BY <2>2, <3>1 DEF ToCome
  <2> QED
    BY <1>3, <2>2 DEF ToCome
<1>11. \A m \in Tasks : Orphans(m)' = Orphans(m) \ {w}
  BY <1>3, <1>5, <1>7, <1>2 DEF Orphans
<1>12. ASSUME NEW m \in Tasks, m # x
       PROVE  Within(m)'
  BY <1>3, <1>4, <1>10, <1>11, <1>12, WithinKept
<1>13. Within(x)'
  <2>1. /\ IsFiniteSet(Orphans(x)) /\ Cardinality(Orphans(x)) \in Nat
        /\ done[x] + Cardinality(Orphans(x)) + (IF ToCome(x) THEN 1 ELSE 0)
              <= 1 + crashes + restarts
        /\ crashes \in Nat /\ restarts \in Nat
    BY <1>2, FS_CardinalityType, Numbers DEF Within
  <2>2. CASE w \in stale
    <3>1. w \in Orphans(x) /\ Orphans(x)' = Orphans(x) \ {w}
      BY <1>2, <1>11, <2>2 DEF Orphans
    <3>2. /\ IsFiniteSet(Orphans(x)')
          /\ Cardinality(Orphans(x)') = Cardinality(Orphans(x)) - 1
      BY <2>1, <3>1, FS_RemoveElement
    <3>3. (IF ToCome(x)' THEN 1 ELSE 0) <= (IF ToCome(x) THEN 1 ELSE 0)
      BY <1>2, <1>10
    <3> DEFINE n == Cardinality(Orphans(x))
               nn == Cardinality(Orphans(x)')
               t == IF ToCome(x) THEN 1 ELSE 0
               tt == IF ToCome(x)' THEN 1 ELSE 0
    <3>4. t \in {0, 1} /\ tt \in {0, 1} /\ tt <= t /\ nn = n - 1 /\ n \in Nat
      BY <2>1, <3>2, <3>3
    <3>5. done[x] + n + t <= 1 + crashes + restarts
      BY <2>1
    <3> HIDE DEF n, nn, t, tt
    <3>6. done'[x] + nn + tt <= 1 + crashes' + restarts'
      BY <1>3, <1>4, <2>1, <3>4, <3>5
    <3> QED
      BY <3>2, <3>6 DEF Within, nn, tt
  <2>3. CASE w \notin stale
    <3>1. /\ acks[w] < Len(unacked[w]) /\ x = unacked[w][acks[w] + 1]
          /\ acks'[w] = acks[w] + 1
      BY <1>3, <1>2, <1>6, <2>3 DEF CurrentIsNext
    <3>2. acks[w] + 1 \in 1 .. Len(unacked[w]) /\ acks[w] + 1 > acks[w]
      BY <3>1, Numbers
    <3>3. ToCome(x)
      BY <3>1, <3>2 DEF ToCome
    <3>4. ~ToCome(x)'
      <4>1. x \notin ready'
        BY <1>3, <3>1, <3>2 DEF OncePlaced
      <4>2. ASSUME NEW v \in Workers, NEW k \in 1 .. Len(unacked[v]), unacked[v][k] = x
            PROVE  ~(k > acks'[v])
        <5>1. v = w /\ k = acks[w] + 1
          BY <3>1, <3>2, <4>2 DEF OncePlaced
        <5> QED
          BY <1>6, <3>1, <5>1
      <4> QED
        BY <1>3, <4>1, <4>2 DEF ToCome
    <3>5. Orphans(x)' = Orphans(x)
      BY <1>2, <1>11, <2>3 DEF Orphans
    <3>6. done[x] + Cardinality(Orphans(x)) + 1 <= 1 + crashes + restarts
      BY <2>1, <3>3
    <3>7. done'[x] + Cardinality(Orphans(x)') + 0 <= 1 + crashes' + restarts'
      BY <1>3, <1>4, <2>1, <3>5, <3>6
    <3> QED
      BY <2>1, <3>4, <3>5, <3>7 DEF Within
  <2> QED
    BY <2>2, <2>3
<1> QED
  BY <1>8, <1>9, <1>12, <1>13

\* A crash brings back what its worker held, once each, and is paid for.
LEMMA CrashKeepsRepeatInv ==
    ASSUME QueueInv, QueueInv', RepeatInv, NEW w \in Workers, Crash(w)
    PROVE  RepeatInv'
<1> USE DEF QueueInv, RepeatInv
<1>1. UNCHANGED <<program, sent, done, restarts>> /\ crashes' = crashes + 1
  BY DEF Crash
<1>2. Len(unacked'[w]) = 0 /\ \A v \in Workers \ {w} : unacked'[v] = unacked[v]
  BY DEF Crash, TypeOK
<1>3. ready' = ready \union {unacked[w][k] : k \in 1 .. Len(unacked[w])}
  BY DEF Crash, Held, TypeOK
<1>4. /\ current'[w] = None /\ \A v \in Workers \ {w} : current'[v] = current[v]
      /\ stale' = stale \ {w} /\ stale \subseteq Workers
  BY DEF Crash, TypeOK
<1>5. OncePlaced'
  <2>1. ASSUME NEW u \in Workers, NEW v \in Workers, NEW j \in 1 .. Len(unacked'[u]),
               NEW k \in 1 .. Len(unacked'[v]), unacked'[u][j] = unacked'[v][k]
        PROVE  u = v /\ j = k
    <3>1. u # w /\ v # w
      BY <1>2
    <3> QED
      BY <1>2, <2>1, <3>1 DEF OncePlaced
  <2>2. ASSUME NEW v \in Workers, NEW k \in 1 .. Len(unacked'[v])
        PROVE  unacked'[v][k] \notin ready'
    <3>1. v # w /\ unacked'[v] = unacked[v]
      BY <1>2
    <3> QED
      BY <1>3, <3>1 DEF OncePlaced
  <2> QED
    BY <2>1, <2>2 DEF OncePlaced
<1>6. UnsentIsNew'
  BY <1>1, <1>4, WorkQueueAssumption DEF UnsentIsNew
<1>7. RoomInv'
  BY <1>1, <1>2 DEF RoomInv
<1>8. ASSUME NEW m \in Tasks
      PROVE  Within(m)'
  <2>1. Orphans(m)' \subseteq Orphans(m)
    BY <1>4 DEF Orphans
  <2>2. crashes' + restarts' = crashes + restarts + 1
    BY <1>1, Numbers
  <2> QED
    BY <1>1, <2>1, <2>2, WithinKept
<1> QED
  BY <1>5, <1>6, <1>7, <1>8

\* A restart orphans at most the one callback whose delivery of a task was still to come,
\* and brings the task back once.
LEMMA BrokerRestartsKeepsRepeatInv ==
    ASSUME QueueInv, QueueInv', RepeatInv, BrokerRestarts
    PROVE  RepeatInv'
<1> USE DEF QueueInv, RepeatInv
<1>1. /\ UNCHANGED <<program, sent, current, done, crashes>> /\ restarts' = restarts + 1
      /\ unacked' = [w \in Workers |-> <<>>] /\ stale' = {w \in Workers : current[w] # None}
  BY DEF BrokerRestarts
<1>2. \A w \in Workers : Len(unacked'[w]) = 0
  BY <1>1
<1>3. OncePlaced' /\ RoomInv'
  BY <1>2 DEF OncePlaced, RoomInv
<1>4. UnsentIsNew'
  BY <1>1 DEF UnsentIsNew
<1>5. crashes \in Nat /\ restarts \in Nat /\ stale \subseteq Workers /\ None \notin Tasks
  BY Numbers, WorkQueueAssumption DEF TypeOK
<1>6. ASSUME NEW m \in Tasks
      PROVE  Within(m)'
  <2>1. Orphans(m)' = {w \in Workers : current[w] = m}
    BY <1>1, <1>5 DEF Orphans
  <2>2. CASE \E w \in Workers \ stale : current[w] = m
    <3>1. PICK w \in Workers \ stale : current[w] = m
      BY <2>2
    <3>2. \A v \in Workers \ stale : current[v] = m =>
             /\ acks[v] + 1 \in 1 .. Len(unacked[v]) /\ acks[v] + 1 > acks[v]
             /\ unacked[v][acks[v] + 1] = m
      BY <1>5, Numbers DEF CurrentIsNext
    <3>3. ToCome(m)
      BY <3>1, <3>2 DEF ToCome
    <3>4. \A v \in Workers \ stale : current[v] = m => v = w
      BY <3>1, <3>2 DEF OncePlaced
    <3>5. Orphans(m)' = Orphans(m) \union {w} /\ w \notin Orphans(m)
      BY <1>5, <2>1, <3>1, <3>4 DEF Orphans
    <3>6. /\ IsFiniteSet(Orphans(m)) /\ Cardinality(Orphans(m)) \in Nat
          /\ done[m] + Cardinality(Orphans(m)) + 1 <= 1 + crashes + restarts
      BY <3>3, FS_CardinalityType DEF Within
    <3>7. /\ IsFiniteSet(Orphans(m)')
          /\ Cardinality(Orphans(m)') = Cardinality(Orphans(m)) + 1
      BY <3>5, <3>6, FS_AddElement
    <3> DEFINE n == Cardinality(Orphans(m))
               nn == Cardinality(Orphans(m)')
               tt == IF ToCome(m)' THEN 1 ELSE 0
    <3>8. tt \in {0, 1} /\ nn = n + 1 /\ n \in Nat /\ done[m] \in Nat
          /\ done[m] + n + 1 <= 1 + crashes + restarts
      BY <3>6, <3>7, Numbers
    <3> HIDE DEF n, nn, tt
    <3>9. done'[m] + nn + tt <= 1 + crashes' + restarts'
      BY <1>1, <1>5, <3>8
    <3> QED
      BY <3>7, <3>9 DEF Within, nn, tt
  <2>3. CASE ~\E w \in Workers \ stale : current[w] = m
    <3>1. Orphans(m)' = Orphans(m)
      BY <1>5, <2>1, <2>3 DEF Orphans
    <3>2. crashes' + restarts' = crashes + restarts + 1
      BY <1>1, <1>5
    <3> QED
      BY <1>1, <3>1, <3>2, WithinKept
  <2> QED
    BY <2>2, <2>3
<1> QED
  BY <1>3, <1>4, <1>6

-----------------------------------------------------------------------------
\* Every step keeps the account.
THEOREM RepeatInvHolds == Spec => []RepeatInv
<1>1. Init => RepeatInv
  <2> SUFFICES ASSUME Init
               PROVE  RepeatInv
    OBVIOUS
  <2>1. /\ \A w \in Workers : Len(unacked[w]) = 0 /\ current[w] = None
        /\ \A m \in Tasks : done[m] = 0
        /\ ready = {} /\ stale = {} /\ crashes = 0 /\ restarts = 0
    BY DEF Init
  <2>2. OncePlaced /\ UnsentIsNew /\ RoomInv
    BY <2>1, WorkQueueAssumption DEF OncePlaced, UnsentIsNew, RoomInv
  <2>3. ASSUME NEW m \in Tasks
        PROVE  Within(m)
    <3>1. Orphans(m) = {} /\ ~ToCome(m)
      BY <2>1 DEF Orphans, ToCome
    <3>2. IsFiniteSet(Orphans(m)) /\ Cardinality(Orphans(m)) = 0
      BY <3>1, FS_EmptySet
    <3> QED
      BY <2>1, <3>1, <3>2 DEF Within
  <2> QED
    BY <2>2, <2>3 DEF RepeatInv
<1>2. QueueInv /\ QueueInv' /\ RepeatInv /\ [Next]_vars => RepeatInv'
  <2> SUFFICES ASSUME QueueInv, QueueInv', RepeatInv, [Next]_vars
               PROVE  RepeatInv'
    OBVIOUS
  <2>1. CASE UNCHANGED <<program, sent, ready, unacked, acks, current, stale, done, crashes,
                         restarts>>
    <3>1. OncePlaced' /\ UnsentIsNew' /\ RoomInv'
      BY <2>1 DEF RepeatInv, OncePlaced, UnsentIsNew, RoomInv
    <3>2. ASSUME NEW m \in Tasks
          PROVE  Within(m)'
      <4>1. Orphans(m)' = Orphans(m) /\ (ToCome(m)' <=> ToCome(m))
        BY <2>1 DEF Orphans, ToCome
      <4>2. Within(m)
        BY DEF RepeatInv
      <4> QED
        BY <2>1, <4>1, <4>2, WithinKept DEF QueueInv
    <3> QED
      BY <3>1, <3>2 DEF RepeatInv
  <2>2. CASE Idle \/ (\E m \in Tasks : WriteToDisk(m)) \/ UNCHANGED vars
    BY <2>1, <2>2 DEF Idle, WriteToDisk, vars, failureVars
  <2> QED
    BY <2>2, SendKeepsRepeatInv, DeliverKeepsRepeatInv, AckArrivesKeepsRepeatInv,
       StartWorkKeepsRepeatInv, FinishWorkKeepsRepeatInv, CrashKeepsRepeatInv,
       BrokerRestartsKeepsRepeatInv
    DEF Next, Broker, Worker
<1> QED
  BY <1>1, <1>2, QueueInvHolds, PTL DEF Spec

\* A task is worked at most once and once more for each worker that died and each restart
\* of the broker: Worker acknowledges in its finally block what it has worked, so nothing
\* else brings a task back.
THEOREM RepeatsArePaidFor == Spec => []RepeatsNeedFailures
<1>1. QueueInv /\ RepeatInv => RepeatsNeedFailures
  <2> SUFFICES ASSUME QueueInv, RepeatInv, NEW m \in Tasks
               PROVE  done[m] <= 1 + crashes + restarts
    BY DEF RepeatsNeedFailures
  <2>1. /\ Cardinality(Orphans(m)) \in Nat /\ done[m] \in Nat
        /\ crashes \in Nat /\ restarts \in Nat
        /\ done[m] + Cardinality(Orphans(m)) + (IF ToCome(m) THEN 1 ELSE 0)
              <= 1 + crashes + restarts
    BY FS_CardinalityType, Numbers DEF QueueInv, RepeatInv, Within
  <2> QED
    BY <2>1
<1> QED
  BY <1>1, QueueInvHolds, RepeatInvHolds, PTL

\* A busy Worker holds the task it works on and no other, whatever fails: basicQos(1) and
\* the acknowledgement after the work.
THEOREM BusyWorkersWait == Spec => []BusyWorkerGetsNothing
<1>1. QueueInv /\ RepeatInv => BusyWorkerGetsNothing
  <2> SUFFICES ASSUME QueueInv, RepeatInv, program = "worker", NEW w \in Workers,
                      current[w] # None, w \notin stale
               PROVE  unacked[w] = <<current[w]>>
    BY DEF BusyWorkerGetsNothing
  <2>1. /\ unacked[w] \in Seq(Tasks) /\ acks[w] \in Nat /\ Len(unacked[w]) \in Nat
        /\ Len(unacked[w]) <= 1 /\ acks[w] < Len(unacked[w])
        /\ current[w] = unacked[w][acks[w] + 1]
    <3>1. TypeOK /\ RoomInv /\ CurrentIsNext
      BY DEF QueueInv, RepeatInv
    <3>2. acks[w] < Len(unacked[w]) /\ current[w] = unacked[w][acks[w] + 1]
      BY <3>1 DEF CurrentIsNext
    <3>3. Len(unacked[w]) <= 1
      BY <3>1 DEF RoomInv
    <3> QED
      BY <3>1, <3>2, <3>3, Numbers
  <2>2. Len(unacked[w]) = 1 /\ acks[w] = 0
    <3>1. acks[w] \in Nat /\ Len(unacked[w]) \in Nat
      BY <2>1
    <3>2. Len(unacked[w]) <= 1 /\ acks[w] < Len(unacked[w])
      BY <2>1
    <3> DEFINE n == Len(unacked[w])
               a == acks[w]
    <3>3. a \in Nat /\ n \in Nat /\ n <= 1 /\ a < n
      BY <3>1, <3>2
    <3> HIDE DEF n, a
    <3>4. n = 1 /\ a = 0
      BY <3>3
    <3> QED
      BY <3>4 DEF n, a
  <2>3. unacked[w] \in Seq(Tasks) /\ Len(unacked[w]) = 1 /\ unacked[w][1] = current[w]
    BY <2>1, <2>2
  <2> QED
    BY <2>3
<1> QED
  BY <1>1, QueueInvHolds, RepeatInvHolds, PTL


-----------------------------------------------------------------------------
(* The part of EveryTaskIsWorked that needs no fairness.                    *)

\* Delivered tasks whose callback has not ended, or has and the broker does not know.
Unworked == {m \in Tasks : \E w \in Workers : \E k \in 1 .. Len(unacked[w]) :
                              k > acks[w] /\ unacked[w][k] = m}
Acked == {m \in Tasks : \E w \in Workers : \E k \in 1 .. acks[w] : unacked[w][k] = m}

Free == {w \in Workers : current[w] = None}

\* What is left to do, what comes first first: to send, to write, to deliver, to work, to
\* work in vain, to acknowledge, to start.
Stages == <<Tasks \ sent, Tasks \ onDisk, ready, Unworked, stale, Acked, Free>>

\* Something is done, and nothing that comes before it is undone.
StageShrinks ==
    \E n \in 1 .. 7 : /\ \A k \in 1 .. n : Stages'[k] \subseteq Stages[k]
                      /\ Stages'[n] # Stages[n]

Failed == crashes + restarts

\* The broker or a callback of this worker can take a step.
CanStep(w) == \/ w \in up /\ HasRoom(w) /\ ready # {}
              \/ acks[w] > 0
              \/ w \in up /\ current[w] = None /\ acks[w] < Len(unacked[w])
              \/ current[w] # None

\* A task the queue has still to see to.
Due(m) == m \in (IF restarts = 0 THEN sent ELSE onDisk) /\ done[m] = 0

\* Inductive: a dead worker has nothing.
DeadHaveNothing == \A w \in Workers \ up : unacked[w] = <<>> /\ current[w] = None

\* A worker that is down holds no delivery and runs no callback.
LEMMA DeadStayEmpty == Spec => []DeadHaveNothing
<1>1. Init => DeadHaveNothing
  BY DEF Init, DeadHaveNothing
<1>2. QueueInv /\ QueueInv' /\ RepeatInv /\ DeadHaveNothing /\ [Next]_vars => DeadHaveNothing'
  <2> SUFFICES ASSUME QueueInv, QueueInv', RepeatInv, DeadHaveNothing, [Next]_vars,
                      NEW v \in Workers \ up'
               PROVE  unacked'[v] = <<>> /\ current'[v] = None
    BY DEF DeadHaveNothing
  <2>1. TypeOK /\ UnsentIsNew
    BY DEF QueueInv, RepeatInv
  <2>2. v \notin up => unacked[v] = <<>> /\ Len(unacked[v]) = 0 /\ current[v] = None
    BY DEF DeadHaveNothing
  <2>3. CASE \E m \in Tasks : Send(m) \/ WriteToDisk(m)
    BY <2>2, <2>3 DEF Send, WriteToDisk
  <2>4. ASSUME NEW w \in Workers, Deliver(w)
        PROVE  unacked'[v] = <<>> /\ current'[v] = None
    BY <2>1, <2>2, <2>4 DEF Deliver, TypeOK
  <2>5. ASSUME NEW w \in Workers, AckArrives(w)
        PROVE  unacked'[v] = <<>> /\ current'[v] = None
    <3>1. v \notin up /\ current' = current /\ acks[w] > 0
          /\ unacked' = [unacked EXCEPT ![w] = Tail(@)]
      BY <2>5 DEF AckArrives
    <3>2. w # v
      BY <2>1, <2>2, <3>1 DEF TypeOK
    <3> QED
      BY <2>1, <2>2, <3>1, <3>2 DEF TypeOK
  <2>6. ASSUME NEW w \in Workers, StartWork(w)
        PROVE  unacked'[v] = <<>> /\ current'[v] = None
    BY <2>1, <2>2, <2>6 DEF StartWork, TypeOK
  <2>7. ASSUME NEW w \in Workers, FinishWork(w)
        PROVE  unacked'[v] = <<>> /\ current'[v] = None
    BY <2>1, <2>2, <2>7 DEF FinishWork, TypeOK
  <2>8. ASSUME NEW w \in Workers, Crash(w)
        PROVE  unacked'[v] = <<>> /\ current'[v] = None
    BY <2>1, <2>2, <2>8 DEF Crash, TypeOK
  <2>9. CASE BrokerRestarts
    BY <2>2, <2>9 DEF BrokerRestarts
  <2>10. CASE Idle \/ UNCHANGED vars
    BY <2>2, <2>10 DEF Idle, vars
  <2> QED
    BY <2>3, <2>4, <2>5, <2>6, <2>7, <2>8, <2>9, <2>10 DEF Next, Broker, Worker
<1> QED
  BY <1>1, <1>2, QueueInvHolds, RepeatInvHolds, PTL DEF Spec

\* What EveryTaskIsWorked needs besides fairness, first half: as long as a task the queue
\* has still to see to is not worked and a worker runs, some worker can be given a task,
\* can start or end one, or has an acknowledgement under way.  In particular basicQos(1)
\* never leaves all workers full of tasks that nobody works on.
THEOREM DueTasksMoveOn ==
    Spec => [](\A m \in Tasks : Due(m) /\ up # {} => \E w \in Workers : CanStep(w))
<1>1. QueueInv /\ DeadHaveNothing =>
         (\A m \in Tasks : Due(m) /\ up # {} => \E w \in Workers : CanStep(w))
  <2> SUFFICES ASSUME QueueInv, DeadHaveNothing, NEW m \in Tasks, Due(m), up # {}
               PROVE  \E w \in Workers : CanStep(w)
    OBVIOUS
  <2> USE DEF QueueInv
  <2>1. InTheQueue(m)
    BY DEF NoTaskLost, Due
  <2>2. up \subseteq Workers
    BY DEF TypeOK
  <2>3. ASSUME NEW w \in up, 0 < Len(unacked[w])
        PROVE  CanStep(w)
    <3>1. acks[w] \in Nat /\ Len(unacked[w]) \in Nat
      BY <2>2, Numbers
    <3>2. CASE acks[w] = 0
      BY <2>3, <3>2 DEF CanStep
    <3>3. CASE acks[w] # 0
      BY <3>1, <3>3 DEF CanStep
    <3> QED
      BY <3>2, <3>3
  <2>4. CASE m \in ready
    <3>1. PICK w \in up : TRUE
      OBVIOUS
    <3>2. CASE HasRoom(w)
      BY <2>2, <2>4, <3>2 DEF CanStep
    <3>3. CASE ~HasRoom(w)
      <4>1. Len(unacked[w]) \in Nat /\ ~(Len(unacked[w]) < 1)
        BY <2>2, <3>3, Numbers DEF HasRoom
      <4> QED
        BY <2>2, <2>3, <4>1
    <3> QED
      BY <3>2, <3>3
  <2>5. CASE m \notin ready
    <3>1. PICK w \in Workers : \E k \in 1 .. Len(unacked[w]) : unacked[w][k] = m
      BY <2>1, <2>5, InTheQueueDef
    <3>2. Len(unacked[w]) \in Nat /\ Len(unacked[w]) > 0
      BY <3>1, Numbers
    <3>3. w \in up
      BY <3>2 DEF DeadHaveNothing
    <3> QED
      BY <2>3, <3>2, <3>3
  <2> QED
    BY <2>4, <2>5
<1> QED
  BY <1>1, QueueInvHolds, DeadStayEmpty, PTL

\* A stage that shrinks while those before it do not grow.
LEMMA AStageShrinks ==
    ASSUME NEW n \in 1 .. 7, \A k \in 1 .. n : Stages'[k] \subseteq Stages[k],
           Stages'[n] # Stages[n]
    PROVE  StageShrinks
BY DEF StageShrinks

\* The stages one by one.
LEMMA StageNumbers ==
    /\ Stages[1] = Tasks \ sent /\ Stages[2] = Tasks \ onDisk /\ Stages[3] = ready
    /\ Stages[4] = Unworked /\ Stages[5] = stale /\ Stages[6] = Acked /\ Stages[7] = Free
    /\ Stages'[1] = Tasks \ sent' /\ Stages'[2] = Tasks \ onDisk' /\ Stages'[3] = ready'
    /\ Stages'[4] = Unworked' /\ Stages'[5] = stale' /\ Stages'[6] = Acked'
    /\ Stages'[7] = Free'
BY DEF Stages

\* A delivery makes the ready tasks fewer.
LEMMA DeliverShrinks ==
    ASSUME QueueInv, RepeatInv, NEW w \in Workers, Deliver(w)
    PROVE  StageShrinks
<1>1. UNCHANGED <<sent, onDisk>> /\ ready' \subseteq ready /\ ready' # ready
  BY DEF Deliver
<1>2. \A k \in 1 .. 3 : Stages'[k] \subseteq Stages[k]
  BY <1>1, StageNumbers
<1> QED
  BY <1>1, <1>2, AStageShrinks, StageNumbers

\* An acknowledgement takes the first task of its worker away, and leaves what is not
\* worked.
LEMMA AckArrivesShrinks ==
    ASSUME QueueInv, RepeatInv, NEW w \in Workers, AckArrives(w)
    PROVE  StageShrinks
<1> USE DEF QueueInv, RepeatInv
<1>1. UNCHANGED <<sent, onDisk, ready, stale>>
  BY DEF AckArrives
<1>2. /\ acks[w] > 0 /\ acks[w] \in Nat /\ acks[w] <= Len(unacked[w])
      /\ Len(unacked[w]) \in Nat /\ acks'[w] = acks[w] - 1
      /\ \A v \in Workers \ {w} : acks'[v] = acks[v]
  BY DEF AckArrives, TypeOK
<1>3. /\ Len(unacked'[w]) = Len(unacked[w]) - 1
      /\ \A k \in 1 .. Len(unacked[w]) - 1 : unacked'[w][k] = unacked[w][k + 1]
      /\ \A v \in Workers \ {w} : unacked'[v] = unacked[v]
  <2>1. unacked[w] \in Seq(Tasks) /\ unacked'[w] = Tail(unacked[w]) /\ unacked[w] # <<>>
    BY <1>2 DEF AckArrives, TypeOK
  <2>2. \A v \in Workers \ {w} : unacked'[v] = unacked[v]
    BY DEF AckArrives, TypeOK
  <2> QED
    BY <2>1, <2>2
<1>4. Unworked' \subseteq Unworked
  <2> SUFFICES ASSUME NEW m \in Tasks, NEW v \in Workers, NEW k \in 1 .. Len(unacked'[v]),
                      k > acks'[v], unacked'[v][k] = m
               PROVE  m \in Unworked
    BY DEF Unworked
  <2>1. CASE v = w
    <3>1. k + 1 \in 1 .. Len(unacked[w]) /\ k + 1 > acks[w] /\ unacked[w][k + 1] = m
      BY <1>2, <1>3, <2>1
    <3> QED
      BY <3>1 DEF Unworked
  <2>2. CASE v # w
    BY <1>2, <1>3, <2>2 DEF Unworked
  <2> QED
    BY <2>1, <2>2
<1>5. Acked' \subseteq Acked
  <2> SUFFICES ASSUME NEW m \in Tasks, NEW v \in Workers, NEW k \in 1 .. acks'[v],
                      unacked'[v][k] = m
               PROVE  m \in Acked
    BY DEF Acked
  <2>1. CASE v = w
    <3>1. k + 1 \in 1 .. acks[w] /\ unacked[w][k + 1] = m
      BY <1>2, <1>3, <2>1
    <3> QED
      BY <3>1 DEF Acked
  <2>2. CASE v # w
    BY <1>2, <1>3, <2>2 DEF Acked
  <2> QED
    BY <2>1, <2>2
<1>6. Acked' # Acked
  <2> DEFINE x == unacked[w][1]
  <2>1. 1 \in 1 .. acks[w] /\ 1 \in 1 .. Len(unacked[w]) /\ x \in Tasks
    BY <1>2, Numbers
  <2>2. x \in Acked
    BY <2>1 DEF Acked
  <2>3. ASSUME NEW v \in Workers, NEW k \in 1 .. acks'[v], unacked'[v][k] = x
        PROVE  FALSE
    <3>1. CASE v = w
      <4>1. k + 1 \in 1 .. Len(unacked[w]) /\ unacked[w][k + 1] = x /\ k + 1 # 1
        BY <1>2, <1>3, <2>3, <3>1
      <4> QED
        BY <2>1, <4>1 DEF OncePlaced
    <3>2. CASE v # w
      <4>1. k \in 1 .. acks[v] /\ unacked[v][k] = x
        BY <1>2, <1>3, <2>3, <3>2
      <4>2. k \in 1 .. Len(unacked[v])
        BY <4>1, Numbers
      <4> QED
        BY <2>1, <3>2, <4>1, <4>2 DEF OncePlaced
    <3> QED
      BY <3>1, <3>2
  <2> HIDE DEF x
  <2>4. x \notin Acked'
    BY <2>3 DEF Acked
  <2> QED
    BY <2>2, <2>4
<1>7. \A k \in 1 .. 6 : Stages'[k] \subseteq Stages[k]
  BY <1>1, <1>4, <1>5, StageNumbers
<1> QED
  BY <1>6, <1>7, AStageShrinks, StageNumbers

\* A callback that ends works its task or was in vain.
LEMMA FinishWorkShrinks ==
    ASSUME QueueInv, RepeatInv, NEW w \in Workers, FinishWork(w)
    PROVE  StageShrinks
<1> USE DEF QueueInv, RepeatInv
<1>1. UNCHANGED <<sent, onDisk, ready, unacked>> /\ stale' = stale \ {w}
  BY DEF FinishWork
<1>2. /\ \A v \in Workers \ {w} : acks'[v] = acks[v]
      /\ w \in stale => acks'[w] = acks[w]
      /\ w \notin stale => acks'[w] = acks[w] + 1
      /\ \A v \in Workers : acks[v] \in Nat
  BY DEF FinishWork, TypeOK
<1>3. Unworked' \subseteq Unworked
  <2> SUFFICES ASSUME NEW m \in Tasks, NEW v \in Workers, NEW k \in 1 .. Len(unacked[v]),
                      k > acks'[v], unacked[v][k] = m
               PROVE  m \in Unworked
    BY <1>1 DEF Unworked
  <2>1. k > acks[v]
    BY <1>2, Numbers
  <2> QED
    BY <2>1 DEF Unworked
<1>4. CASE w \in stale
  <2>1. \A k \in 1 .. 5 : Stages'[k] \subseteq Stages[k]
    BY <1>1, <1>3, StageNumbers
  <2> QED
    BY <1>1, <1>4, <2>1, AStageShrinks, StageNumbers
<1>5. CASE w \notin stale
  <2> DEFINE x == current[w]
  <2>1. /\ x = unacked[w][acks[w] + 1] /\ acks[w] + 1 \in 1 .. Len(unacked[w])
        /\ acks[w] + 1 > acks[w] /\ x \in Tasks
    <3>1. x # None /\ acks[w] < Len(unacked[w]) /\ x = unacked[w][acks[w] + 1]
      BY <1>5 DEF FinishWork, CurrentIsNext
    <3> QED
      BY <3>1, Numbers DEF TypeOK
  <2> HIDE DEF x
  <2>2. x \in Unworked
    BY <2>1 DEF Unworked
  <2>3. ASSUME NEW v \in Workers, NEW k \in 1 .. Len(unacked[v]), k > acks'[v],
               unacked[v][k] = x
        PROVE  FALSE
    <3>1. v = w /\ k = acks[w] + 1
      BY <2>1, <2>3 DEF OncePlaced
    <3> QED
      BY <1>2, <1>5, <2>3, <3>1
  <2>4. x \notin Unworked'
    BY <1>1, <2>3 DEF Unworked
  <2>5. \A k \in 1 .. 4 : Stages'[k] \subseteq Stages[k]
    BY <1>1, <1>3, StageNumbers
  <2> QED
    BY <2>2, <2>4, <2>5, AStageShrinks, StageNumbers
<1> QED
  BY <1>4, <1>5

\* A callback that starts makes the free workers fewer.
LEMMA StartWorkShrinks ==
    ASSUME QueueInv, RepeatInv, NEW w \in Workers, StartWork(w)
    PROVE  StageShrinks
<1>1. UNCHANGED <<sent, onDisk, ready, stale, unacked, acks>>
  BY DEF StartWork
<1>2. Unworked' = Unworked /\ Acked' = Acked
  BY <1>1 DEF Unworked, Acked
<1>3. /\ current[w] = None /\ current'[w] # None
      /\ \A v \in Workers \ {w} : current'[v] = current[v]
  <2>1. acks[w] + 1 \in 1 .. Len(unacked[w])
    BY Numbers DEF StartWork, QueueInv
  <2>2. unacked[w][acks[w] + 1] \in Tasks
    BY <2>1, Numbers DEF QueueInv
  <2> QED
    BY <2>2, WorkQueueAssumption DEF StartWork, QueueInv, TypeOK
<1>4. Free' \subseteq Free /\ Free' # Free
  BY <1>3 DEF Free
<1>5. \A k \in 1 .. 7 : Stages'[k] \subseteq Stages[k]
  BY <1>1, <1>2, <1>4, StageNumbers
<1> QED
  BY <1>4, <1>5, AStageShrinks, StageNumbers

\* The second half: every step is one of the MaxCrashes + MaxRestarts failures or leaves
\* less to do.  With a finite number of tasks and workers a stage cannot shrink for ever,
\* so no run goes on without working what is due.
THEOREM WorkRunsEnd ==
    Spec => [][\/ Failed' = Failed + 1 /\ Failed' <= MaxCrashes + MaxRestarts
               \/ Failed' = Failed /\ StageShrinks]_vars
<1>1. QueueInv /\ QueueInv' /\ RepeatInv /\ [Next]_vars =>
         [\/ Failed' = Failed + 1 /\ Failed' <= MaxCrashes + MaxRestarts
          \/ Failed' = Failed /\ StageShrinks]_vars
  <2> SUFFICES ASSUME QueueInv, QueueInv', RepeatInv, Next, ~UNCHANGED vars
               PROVE  \/ Failed' = Failed + 1 /\ Failed' <= MaxCrashes + MaxRestarts
                      \/ Failed' = Failed /\ StageShrinks
    OBVIOUS
  <2>1. /\ crashes \in Nat /\ restarts \in Nat /\ crashes' \in Nat /\ restarts' \in Nat
        /\ crashes' <= MaxCrashes /\ restarts' <= MaxRestarts
        /\ MaxCrashes \in Nat /\ MaxRestarts \in Nat
    <3>1. crashes \in 0 .. MaxCrashes /\ restarts \in 0 .. MaxRestarts
      BY DEF QueueInv, TypeOK
    <3>2. crashes' \in 0 .. MaxCrashes /\ restarts' \in 0 .. MaxRestarts
      BY DEF QueueInv, TypeOK
    <3> QED
      BY <3>1, <3>2, WorkQueueAssumption
  <2>2. crashes' = crashes /\ restarts' = restarts => Failed' = Failed
    BY DEF Failed
  <2>3. ASSUME NEW m \in Tasks, Send(m)
        PROVE  StageShrinks /\ Failed' = Failed
    <3>1. Stages'[1] \subseteq Stages[1] /\ Stages'[1] # Stages[1]
      BY <2>3, StageNumbers DEF Send
    <3> QED
      BY <2>2, <2>3, <3>1, AStageShrinks DEF Send, failureVars
  <2>4. ASSUME NEW m \in Tasks, WriteToDisk(m)
        PROVE  StageShrinks /\ Failed' = Failed
    <3>1. \A k \in 1 .. 2 : Stages'[k] \subseteq Stages[k]
      BY <2>4, StageNumbers DEF WriteToDisk
    <3>2. Stages'[2] # Stages[2]
      BY <2>4, StageNumbers DEF WriteToDisk
    <3> QED
      BY <2>2, <2>4, <3>1, <3>2, AStageShrinks DEF WriteToDisk, failureVars
  <2>5. ASSUME NEW w \in Workers, Deliver(w) \/ AckArrives(w) \/ StartWork(w) \/ FinishWork(w)
        PROVE  StageShrinks /\ Failed' = Failed
    <3>1. StageShrinks
      BY <2>5, DeliverShrinks, AckArrivesShrinks, StartWorkShrinks, FinishWorkShrinks
    <3>2. crashes' = crashes /\ restarts' = restarts
      BY <2>5 DEF Deliver, AckArrives, StartWork, FinishWork, failureVars
    <3> QED
      BY <2>2, <3>1, <3>2
  <2>6. ASSUME BrokerRestarts \/ \E w \in Workers : Crash(w)
        PROVE  Failed' = Failed + 1 /\ Failed' <= MaxCrashes + MaxRestarts
    <3>1. \/ crashes' = crashes + 1 /\ restarts' = restarts
          \/ crashes' = crashes /\ restarts' = restarts + 1
      BY <2>6 DEF BrokerRestarts, Crash
    <3>2. PICK c \in Nat, r \in Nat, cc \in Nat, rr \in Nat :
             c = crashes /\ r = restarts /\ cc = crashes' /\ rr = restarts'
      BY <2>1
    <3>3. /\ cc <= MaxCrashes /\ rr <= MaxRestarts
          /\ \/ cc = c + 1 /\ rr = r
             \/ cc = c /\ rr = r + 1
      BY <2>1, <3>1, <3>2
    <3>4. cc + rr = (c + r) + 1 /\ cc + rr <= MaxCrashes + MaxRestarts
      BY <3>3, WorkQueueAssumption
    <3> QED
      BY <3>2, <3>4 DEF Failed
  <2> QED
    BY <2>3, <2>4, <2>5, <2>6 DEF Next, Broker, Worker, Idle
<1> QED
  BY <1>1, QueueInvHolds, RepeatInvHolds, PTL DEF Spec

=============================================================================
