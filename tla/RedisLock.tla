----------------------------- MODULE RedisLock -----------------------------
(***************************************************************************)
(* The Redis distributed lock of tech-redis (TechRedisConfigurationTests): *)
(* CounterIncr threads count a shared static COUNTER up to TOTAL, each     *)
(* increment under the key "user.lock", taken with SET key id NX EX 10 and *)
(* given back by unlock(), a GET followed by a DEL.                        *)
(*                                                                         *)
(* A thread's uniqueId is the thread itself.  Redis executes commands one  *)
(* at a time, so each command is one action; a thread may be delayed       *)
(* between any two of its actions, and so may its reads and writes of      *)
(* COUNTER, which is neither volatile nor atomic.                          *)
(***************************************************************************)
EXTENDS Naturals

CONSTANTS Threads,      \* the CounterIncr runnables
          TOTAL,        \* the count at which every thread stops
          None,         \* the key does not exist
          Overrunning,  \* threads that may outlive the 10 s lease they hold
          Faulty,       \* threads whose Redis connection may break
          Interrupted   \* threads somebody interrupts while they sleep

ASSUME RedisLockAssumption ==
    /\ TOTAL \in Nat
    /\ None \notin Threads
    /\ Overrunning \subseteq Threads
    /\ Faulty \subseteq Threads
    /\ Interrupted \subseteq Threads

VARIABLES userLock,  \* value of the key "user.lock": a uniqueId, or None
          COUNTER,   \* the static field
          pc,        \* where each thread is in run()
          tmp,       \* the value ++COUNTER has read and not yet written back
          leases     \* history: "kept" until one runs out under its owner

vars == <<userLock, COUNTER, pc, tmp, leases>>

\* Between a successful lock() and the end of unlock().
Holding == {"recheck", "read", "write", "unlockGet", "unlockDel"}

\* "outer" and "inner" are the conditions of the two loops, "done" the normal
\* end of run(), "failed" the end of run() by an exception.
Locations ==
    {"outer", "inner", "lock", "sleep", "done", "failed"} \union Holding

TypeOK ==
    /\ userLock \in Threads \union {None}
    /\ COUNTER \in Nat
    /\ pc \in [Threads -> Locations]
    /\ tmp \in [Threads -> Nat]
    /\ leases \in {"kept", "overrun"}

Init ==
    /\ userLock = None
    /\ COUNTER = 0
    /\ pc = [t \in Threads |-> "outer"]
    /\ tmp = [t \in Threads |-> 0]
    /\ leases = "kept"

Goto(t, from, to) ==
    /\ pc[t] = from
    /\ pc' = [pc EXCEPT ![t] = to]

-----------------------------------------------------------------------------
(* The commands Redis executes for lock() and unlock().                     *)

\* Mutant: a plain SET with no NX.
SetEx_mutant(t) == userLock' = t

\* SET user.lock id NX EX 10: takes a free key, leaves a taken one alone.
SetNxEx(t) ==
    /\ userLock = None
    /\ userLock' = t

\* DEL user.lock: removes the key whoever's value it holds.
Del == userLock' = None

\* The lease runs out.  A thread that is not in Overrunning completes its
\* critical section within the 10 seconds, so the key of such a thread only
\* expires once the thread is no longer between lock() and unlock().
MayExpire(t) == pc[t] \in Holding => t \in Overrunning

\* Mutant: the key is set without EX and never runs out.
NeverExpire_mutant ==
    /\ FALSE
    /\ UNCHANGED vars

Expire ==
    /\ userLock # None
    /\ MayExpire(userLock)
    /\ userLock' = None
    /\ leases' = IF pc[userLock] \in Holding THEN "overrun" ELSE leases
    /\ UNCHANGED <<COUNTER, pc, tmp>>

-----------------------------------------------------------------------------
(* CounterIncr.run(), lock() and unlock().                                  *)

\* while (COUNTER < TOTAL)
TestOuter(t) ==
    /\ Goto(t, "outer", IF COUNTER < TOTAL THEN "inner" ELSE "done")
    /\ UNCHANGED <<userLock, COUNTER, tmp>>

\* while (COUNTER < TOTAL && ...): the first operand of the inner condition.
TestInner(t) ==
    /\ Goto(t, "inner", IF COUNTER < TOTAL THEN "lock" ELSE "recheck")
    /\ UNCHANGED <<userLock, COUNTER, tmp>>

\* ... && !lock("user.lock", uniqueId), the key being free
LockOk(t) ==
    /\ SetNxEx(t)
    /\ Goto(t, "lock", "recheck")
    /\ UNCHANGED <<COUNTER, tmp>>

\* ... && !lock("user.lock", uniqueId), the key being taken
LockBusy(t) ==
    /\ userLock # None
    /\ Goto(t, "lock", "sleep")
    /\ UNCHANGED <<userLock, COUNTER, tmp>>

\* Thread.sleep(10) returns.
Wake(t) ==
    /\ Goto(t, "sleep", "inner")
    /\ UNCHANGED <<userLock, COUNTER, tmp>>

\* Mutant: the handler of the interrupt returns instead of leaving the loop.
WakeInterrupted_mutant(t) ==
    /\ t \in Interrupted
    /\ Goto(t, "sleep", "done")
    /\ UNCHANGED <<userLock, COUNTER, tmp>>

\* Thread.sleep(10) throws: the break leaves the loop without the lock.
WakeInterrupted(t) ==
    /\ t \in Interrupted
    /\ Goto(t, "sleep", "recheck")
    /\ UNCHANGED <<userLock, COUNTER, tmp>>

\* Mutant: the condition is COUNTER > TOTAL.
Recheck_mutant(t) ==
    /\ Goto(t, "recheck", IF COUNTER > TOTAL THEN "done" ELSE "read")
    /\ UNCHANGED <<userLock, COUNTER, tmp>>

\* if (COUNTER >= TOTAL) return: run() ends here without an unlock().
Recheck(t) ==
    /\ Goto(t, "recheck", IF COUNTER >= TOTAL THEN "done" ELSE "read")
    /\ UNCHANGED <<userLock, COUNTER, tmp>>

\* ++COUNTER reads the field ...
ReadCounter(t) ==
    /\ Goto(t, "read", "write")
    /\ tmp' = [tmp EXCEPT ![t] = COUNTER]
    /\ UNCHANGED <<userLock, COUNTER>>

\* ... and writes it back, one more than it read.
WriteCounter(t) ==
    /\ Goto(t, "write", "unlockGet")
    /\ COUNTER' = tmp[t] + 1
    /\ UNCHANGED <<userLock, tmp>>

\* Mutant: unlock() does not compare the owner.
UnlockGet_mutant(t) ==
    /\ Goto(t, "unlockGet", "unlockDel")
    /\ UNCHANGED <<userLock, COUNTER, tmp>>

\* if (value.equals(shardedJedis.get(key)))
UnlockGet(t) ==
    /\ Goto(t, "unlockGet", IF userLock = t THEN "unlockDel" ELSE "outer")
    /\ UNCHANGED <<userLock, COUNTER, tmp>>

\* shardedJedis.del(key)
UnlockDel(t) ==
    /\ Goto(t, "unlockDel", "outer")
    /\ Del
    /\ UNCHANGED <<COUNTER, tmp>>

\* A Redis call throws: nobody catches it and run() ends.  When only the reply
\* is lost, the command has been executed all the same.
RedisCallFails(t) ==
    /\ t \in Faulty
    /\ \/ /\ Goto(t, "lock", "failed")
          /\ SetNxEx(t) \/ UNCHANGED userLock
       \/ /\ Goto(t, "unlockGet", "failed")
          /\ UNCHANGED userLock
       \/ /\ Goto(t, "unlockDel", "failed")
          /\ Del \/ UNCHANGED userLock
    /\ UNCHANGED <<COUNTER, tmp>>

Step(t) ==
    /\ \/ TestOuter(t) \/ TestInner(t)
       \/ LockOk(t) \/ LockBusy(t)
       \/ Wake(t) \/ WakeInterrupted(t)
       \/ Recheck(t) \/ ReadCounter(t) \/ WriteCounter(t)
       \/ UnlockGet(t) \/ UnlockDel(t)
       \/ RedisCallFails(t)
    /\ UNCHANGED leases

Ended(t) == pc[t] \in {"done", "failed"}

\* allOf(...).get() returns: the test is over once every thread has ended.
AllEnded ==
    /\ userLock = None
    /\ \A t \in Threads : Ended(t)
    /\ UNCHANGED vars

Next ==
    \/ \E t \in Threads : Step(t)
    \/ Expire
    \/ AllEnded

Spec == Init /\ [][Next]_vars

\* Every thread of the common pool is scheduled, and Redis removes an expired
\* key in the end (it never returns one).
Fairness ==
    /\ \A t \in Threads : WF_vars(Step(t))
    /\ WF_vars(Expire)

FairSpec == Spec /\ Fairness

-----------------------------------------------------------------------------
(* Properties.                                                              *)

\* Threads that are about to touch COUNTER or to give the lock back.
InCriticalSection(t) == pc[t] \in {"read", "write", "unlockGet", "unlockDel"}

\* No two threads are inside the part of run() that the lock protects: the
\* try block of CounterIncr.run(), the increment and its unlock().
MutualExclusion ==
    \A t, u \in Threads :
        InCriticalSection(t) /\ InCriticalSection(u) => t = u

\* A thread inside the protected part is the one whose id the key holds, and
\* an increment in progress still holds the current value of COUNTER; a
\* thread that stands before "if (COUNTER >= TOTAL)" without owning the key
\* is on its way out.  Inductive: MutualExclusion follows from it.
LockInv ==
    /\ COUNTER <= TOTAL
    /\ \A t \in Threads :
        /\ InCriticalSection(t) => userLock = t
        /\ pc[t] = "recheck" => userLock = t \/ COUNTER = TOTAL
        /\ pc[t] \in {"read", "write"} => COUNTER < TOTAL
        /\ pc[t] = "write" => tmp[t] = COUNTER
        /\ pc[t] = "done" => COUNTER = TOTAL

\* The DEL of t's unlock() removes the key although it holds another's id.
UnlocksAnothers(t) ==
    /\ pc[t] = "unlockDel" /\ pc'[t] # "unlockDel"
    /\ userLock \notin {t, None}

\* "release lock only if the owner to release is the one who locked": no DEL
\* ever removes another thread's lock.
UnlockOnlyByOwner == [][\A t \in Threads : ~UnlocksAnothers(t)]_vars

\* The promise is kept as long as no lease has run out under its owner, although
\* the GET that compares the owner is a separate command, and although threads
\* that were interrupted call unlock() without having the lock.
UnlockOnlyByOwnerInTime ==
    [][leases = "kept" => \A t \in Threads : ~UnlocksAnothers(t)]_vars

\* The threads count like one atomic counter: no increment is lost, repeated
\* or made past TOTAL, and a thread returns only when the count is complete.
Abstract == INSTANCE SharedCounter
                WITH Workers <- Threads, Total <- TOTAL, count <- COUNTER,
                     finished <- {t \in Threads : pc[t] = "done"}

CountsLikeOneCounter == Abstract!Spec

\* Every thread ends: nobody waits for ever for a lock whose owner lost its
\* connection, because the lease gives the lock back.
EveryThreadEnds == \A t \in Threads : <>Ended(t)

\* The key is not left behind: however the threads ended, once they have all
\* ended the lock becomes and stays free.
LockIsFreedInTheEnd == <>[](userLock = None)

\* However the lock fails its users (leases running out under their owners,
\* threads woken by an interrupt that go on without the lock), updates may be
\* lost but the work is not cut short: when every thread has returned normally
\* COUNTER has reached TOTAL, whatever stale values were written back.
NothingLeftToCount ==
    (\A t \in Threads : pc[t] = "done") => COUNTER >= TOTAL

=============================================================================
