-------------------------- MODULE RedisLockProofs --------------------------
(***************************************************************************)
(* Proofs about RedisLock for any number of threads and any TOTAL.         *)
(*                                                                         *)
(* What goes wrong decides what holds.  The type invariant holds in any    *)
(* case, and so does NothingLeftToCount.  unlock() frees only its caller's *)
(* lock as long as no lease runs out under its owner.  Mutual exclusion    *)
(* and the implementation of SharedCounter also need that no sleeping      *)
(* thread is interrupted, because an interrupted thread goes on without    *)
(* the lock.  Broken connections (Faulty) are allowed everywhere.          *)
(***************************************************************************)
EXTENDS RedisLock, TLAPS

\* The variables of RedisLock keep their types, whatever fails.
THEOREM TypeCorrect == Spec => []TypeOK
<1>1. Init => TypeOK
  BY RedisLockAssumption DEF Init, TypeOK, Locations, Holding
<1>2. TypeOK /\ [Next]_vars => TypeOK'
  <2> SUFFICES ASSUME TypeOK, [Next]_vars PROVE TypeOK'
    OBVIOUS
  <2> USE RedisLockAssumption DEF TypeOK, Locations, Holding
  <2>1. ASSUME NEW t \in Threads, Step(t) PROVE TypeOK'
    <3>0. leases' = leases
      BY <2>1 DEF Step
    <3>1. CASE TestOuter(t) \/ TestInner(t) \/ LockBusy(t) \/ Wake(t)
               \/ WakeInterrupted(t) \/ Recheck(t) \/ UnlockGet(t)
      BY <3>0, <3>1 DEF TestOuter, TestInner, LockBusy, Wake, WakeInterrupted,
                  Recheck, UnlockGet, Goto
    <3>2. CASE LockOk(t)
      BY <3>0, <3>2 DEF LockOk, SetNxEx, Goto
    <3>3. CASE ReadCounter(t) \/ WriteCounter(t)
      BY <3>0, <3>3 DEF ReadCounter, WriteCounter, Goto
    <3>4. CASE UnlockDel(t)
      BY <3>0, <3>4 DEF UnlockDel, Del, Goto
    <3>5. CASE RedisCallFails(t)
      BY <3>0, <3>5 DEF RedisCallFails, SetNxEx, Del, Goto
    <3>6. QED BY <2>1, <3>1, <3>2, <3>3, <3>4, <3>5 DEF Step
  <2>2. CASE Expire
    BY <2>2 DEF Expire
  <2>3. CASE UNCHANGED vars
    BY <2>3 DEF vars
  <2>4. CASE AllEnded
    BY <2>3, <2>4 DEF AllEnded
  <2>5. QED BY <2>1, <2>2, <2>3, <2>4 DEF Next
<1>3. QED BY <1>1, <1>2, PTL DEF Spec

-----------------------------------------------------------------------------
(* unlock() and its owner.                                                  *)

\* Between the GET that found its own id and the DEL, the key still holds the
\* id of the thread, unless a lease has run out under its owner.
DelInv ==
    leases = "kept" => \A t \in Threads : pc[t] = "unlockDel" => userLock = t

\* Without such a lease the GET of unlock() is still true when the DEL is
\* executed.
LEMMA DelInvHolds == Spec => []DelInv
<1>1. Init => DelInv
  BY DEF Init, DelInv
<1>2. TypeOK /\ DelInv /\ [Next]_vars => DelInv'
  <2> SUFFICES ASSUME TypeOK, DelInv, [Next]_vars PROVE DelInv'
    OBVIOUS
  <2> USE RedisLockAssumption DEF TypeOK, DelInv
  <2>1. ASSUME NEW t \in Threads, Step(t) PROVE DelInv'
    <3>0. leases' = leases
      BY <2>1 DEF Step
    <3>1. CASE TestOuter(t) \/ TestInner(t) \/ LockBusy(t) \/ Wake(t)
               \/ WakeInterrupted(t) \/ Recheck(t) \/ ReadCounter(t)
               \/ WriteCounter(t) \/ UnlockGet(t)
      BY <3>0, <3>1 DEF TestOuter, TestInner, LockBusy, Wake, WakeInterrupted,
                        Recheck, ReadCounter, WriteCounter, UnlockGet, Goto
    <3>2. CASE LockOk(t)
      BY <3>0, <3>2 DEF LockOk, SetNxEx, Goto
    <3>3. CASE UnlockDel(t)
      BY <3>0, <3>3 DEF UnlockDel, Del, Goto
    <3>4. CASE RedisCallFails(t)
      BY <3>0, <3>4 DEF RedisCallFails, SetNxEx, Del, Goto
    <3>5. QED BY <2>1, <3>1, <3>2, <3>3, <3>4 DEF Step
  <2>2. CASE Expire
    BY <2>2 DEF Expire, Holding
  <2>3. CASE UNCHANGED vars
    BY <2>3 DEF vars
  <2>4. CASE AllEnded
    BY <2>3, <2>4 DEF AllEnded
  <2>5. QED BY <2>1, <2>2, <2>3, <2>4 DEF Next
<1>3. QED BY <1>1, <1>2, TypeCorrect, PTL DEF Spec

\* "release lock only if the owner to release is the one who locked": true of
\* unlock() as long as every lease outlives its critical section, interrupts
\* and broken connections notwithstanding.
THEOREM OnlyTheOwnerUnlocks == Spec => UnlockOnlyByOwnerInTime
<1>1. DelInv /\ [Next]_vars
        => [leases = "kept" => \A t \in Threads : ~UnlocksAnothers(t)]_vars
  BY DEF DelInv, UnlocksAnothers
<1>2. QED BY <1>1, DelInvHolds, PTL DEF Spec, UnlockOnlyByOwnerInTime

\* However the lock fails its users, the work is not cut short: a thread that
\* writes a stale value back has still to look at COUNTER before it returns.
THEOREM WorkIsNotCutShort ==
  ASSUME Threads # {}
  PROVE  Spec => []NothingLeftToCount
<1>1. Init => NothingLeftToCount
  BY DEF Init, NothingLeftToCount
<1>2. TypeOK /\ NothingLeftToCount /\ [Next]_vars => NothingLeftToCount'
  <2> SUFFICES ASSUME TypeOK, NothingLeftToCount, [Next]_vars
               PROVE  NothingLeftToCount'
    OBVIOUS
  <2> USE RedisLockAssumption DEF TypeOK, NothingLeftToCount
  <2>1. ASSUME NEW t \in Threads, Step(t) PROVE NothingLeftToCount'
    <3>1. CASE TestOuter(t) \/ Recheck(t)
      BY <3>1 DEF TestOuter, Recheck, Goto
    <3>2. CASE WriteCounter(t)
      BY <3>2 DEF WriteCounter, Goto
    <3>3. CASE TestInner(t) \/ LockOk(t) \/ LockBusy(t) \/ Wake(t)
               \/ WakeInterrupted(t) \/ ReadCounter(t) \/ UnlockGet(t)
               \/ UnlockDel(t) \/ RedisCallFails(t)
      <4>1. pc' = [pc EXCEPT ![t] = pc'[t]] /\ pc'[t] # "done"
        BY <3>3 DEF TestInner, LockOk, LockBusy, Wake, WakeInterrupted,
                    ReadCounter, UnlockGet, UnlockDel, RedisCallFails, Goto
      <4>2. QED BY <4>1
    <3>4. QED BY <2>1, <3>1, <3>2, <3>3 DEF Step
  <2>2. CASE Expire
    BY <2>2 DEF Expire
  <2>3. CASE UNCHANGED vars
    BY <2>3 DEF vars
  <2>4. CASE AllEnded
    BY <2>3, <2>4 DEF AllEnded
  <2>5. QED BY <2>1, <2>2, <2>3, <2>4 DEF Next
<1>3. QED BY <1>1, <1>2, TypeCorrect, PTL DEF Spec

-----------------------------------------------------------------------------
(* Mutual exclusion and the implementation of SharedCounter.                *)

\* LockInv is inductive: the key names the thread inside, the value an
\* increment has read is still current, and a thread that stands before the
\* last check without the key will not pass it.
THEOREM LockInvHolds ==
  ASSUME Overrunning = {}, Interrupted = {}
  PROVE  Spec => []LockInv
<1>1. Init => LockInv
  BY RedisLockAssumption DEF Init, LockInv, InCriticalSection
<1>2. TypeOK /\ LockInv /\ [Next]_vars => LockInv'
  <2> SUFFICES ASSUME TypeOK, LockInv, [Next]_vars PROVE LockInv'
    OBVIOUS
  <2> USE RedisLockAssumption DEF TypeOK, LockInv, InCriticalSection
  <2>1. ASSUME NEW t \in Threads, Step(t) PROVE LockInv'
    <3>1. CASE TestOuter(t) \/ TestInner(t)
      BY <3>1 DEF TestOuter, TestInner, Goto
    <3>2. CASE LockOk(t)
      BY <3>2 DEF LockOk, SetNxEx, Goto
    <3>3. CASE LockBusy(t) \/ Wake(t) \/ WakeInterrupted(t)
      BY <3>3 DEF LockBusy, Wake, WakeInterrupted, Goto
    <3>4. CASE Recheck(t)
      BY <3>4 DEF Recheck, Goto
    <3>5. CASE ReadCounter(t)
      BY <3>5 DEF ReadCounter, Goto
    <3>6. CASE WriteCounter(t)
      BY <3>6 DEF WriteCounter, Goto
    <3>7. CASE UnlockGet(t)
      BY <3>7 DEF UnlockGet, Goto
    <3>8. CASE UnlockDel(t)
      BY <3>8 DEF UnlockDel, Del, Goto
    <3>9. CASE RedisCallFails(t)
      BY <3>9 DEF RedisCallFails, SetNxEx, Del, Goto
    <3>10. QED BY <2>1, <3>1, <3>2, <3>3, <3>4, <3>5, <3>6, <3>7, <3>8, <3>9
               DEF Step
  <2>2. CASE Expire
    BY <2>2 DEF Expire, MayExpire, Holding
  <2>3. CASE UNCHANGED vars
    BY <2>3 DEF vars
  <2>4. CASE AllEnded
    BY <2>3, <2>4 DEF AllEnded
  <2>5. QED BY <2>1, <2>2, <2>3, <2>4 DEF Next
<1>3. QED BY <1>1, <1>2, TypeCorrect, PTL DEF Spec

\* No two threads are inside the try block of CounterIncr.run() at a time.
THEOREM Exclusion ==
  ASSUME Overrunning = {}, Interrupted = {}
  PROVE  Spec => []MutualExclusion
<1>1. LockInv => MutualExclusion
  BY RedisLockAssumption DEF LockInv, MutualExclusion, InCriticalSection
<1>2. QED BY <1>1, LockInvHolds, PTL

\* The threads implement SharedCounter: WriteCounter is its Increment, the
\* steps that end run() normally are its Finish, and the rest stutters.
THEOREM Counts ==
  ASSUME Overrunning = {}, Interrupted = {}
  PROVE  Spec => CountsLikeOneCounter
<1>1. Init => Abstract!Init
  BY DEF Init, Abstract!Init
<1>2. TypeOK /\ LockInv /\ [Next]_vars => [Abstract!Next]_(Abstract!vars)
  <2> SUFFICES ASSUME TypeOK, LockInv, [Next]_vars
               PROVE  [Abstract!Next]_(Abstract!vars)
    OBVIOUS
  <2> USE RedisLockAssumption DEF TypeOK
  <2>1. ASSUME NEW t \in Threads, Step(t)
        PROVE  [Abstract!Next]_(Abstract!vars)
    <3>1. CASE WriteCounter(t)
      <4>1. COUNTER < TOTAL /\ COUNTER' = COUNTER + 1
        BY <3>1 DEF WriteCounter, Goto, LockInv
      <4>2. {u \in Threads : pc'[u] = "done"} = {u \in Threads : pc[u] = "done"}
        BY <3>1 DEF WriteCounter, Goto
      <4>3. QED BY <4>1, <4>2 DEF Abstract!Next, Abstract!Increment
    <3>2. CASE COUNTER' = COUNTER /\ pc'[t] = "done" /\ pc[t] # "done"
               /\ pc' = [pc EXCEPT ![t] = "done"] /\ COUNTER >= TOTAL
      <4>1. COUNTER = TOTAL
        BY <3>2 DEF LockInv
      <4>2. {u \in Threads : pc'[u] = "done"}
              = {u \in Threads : pc[u] = "done"} \union {t}
        BY <3>2
      <4>3. Abstract!Finish(t)
        BY <3>2, <4>1, <4>2 DEF Abstract!Finish
      <4>4. QED BY <4>3 DEF Abstract!Next
    <3>3. CASE COUNTER' = COUNTER /\ \A u \in Threads :
                  pc'[u] = "done" <=> pc[u] = "done"
      BY <3>3 DEF Abstract!vars
    <3>4. CASE TestOuter(t) \/ Recheck(t)
      BY <3>2, <3>3, <3>4 DEF TestOuter, Recheck, Goto
    <3>5. CASE TestInner(t) \/ LockOk(t) \/ LockBusy(t) \/ Wake(t)
               \/ WakeInterrupted(t) \/ ReadCounter(t) \/ UnlockGet(t)
               \/ UnlockDel(t) \/ RedisCallFails(t)
      <4>1. COUNTER' = COUNTER /\ \A u \in Threads :
               pc'[u] = "done" <=> pc[u] = "done"
        BY <3>5 DEF TestInner, LockOk, LockBusy, Wake, WakeInterrupted,
                    ReadCounter, UnlockGet, UnlockDel, RedisCallFails, Goto
      <4>2. QED BY <3>3, <4>1
    <3>6. QED BY <2>1, <3>1, <3>4, <3>5 DEF Step
  <2>2. CASE Expire
    BY <2>2 DEF Expire, Abstract!vars
  <2>3. CASE UNCHANGED vars
    BY <2>3 DEF vars, Abstract!vars
  <2>4. CASE AllEnded
    BY <2>3, <2>4 DEF AllEnded
  <2>5. QED BY <2>1, <2>2, <2>3, <2>4 DEF Next
<1>3. QED BY <1>1, <1>2, TypeCorrect, LockInvHolds, PTL
          DEF Spec, CountsLikeOneCounter, Abstract!Spec

=============================================================================
