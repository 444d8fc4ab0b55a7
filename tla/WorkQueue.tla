----------------------------- MODULE WorkQueue -----------------------------
(***************************************************************************)
(* The work queues of tech-rabbit: TaskSender and Worker share a durable   *)
(* queue of persistent messages, DirectSend and DirectRecv one that is     *)
(* neither.  Consumers acknowledge a message after their callback, Worker  *)
(* in a finally block; Worker takes one message at a time (basicQos(1)).   *)
(*                                                                         *)
(* External, modelled from their use here: the broker, which writes        *)
(* persistent messages to disk some time after it took them, puts the      *)
(* unacknowledged messages of a lost consumer back in the queue, and may   *)
(* restart; the consumers' connections, which recover by themselves and    *)
(* then drop acknowledgements that belong to the old channel.              *)
(***************************************************************************)
EXTENDS Naturals, Sequences

CONSTANTS Tasks,         \* the messages senders publish
          Workers,       \* the consumer processes
          None,          \* no task
          MaxCrashes,    \* consumers that may die
          MaxRestarts    \* restarts of the broker

ASSUME WorkQueueAssumption ==
    /\ None \notin Tasks
    /\ MaxCrashes \in Nat /\ MaxRestarts \in Nat

VARIABLES program,   \* "worker" (TaskSender and Worker) or "direct"
          sent,      \* tasks the broker has taken
          onDisk,    \* tasks the broker has written to disk
          ready,     \* tasks in the queue that no consumer holds
          unacked,   \* what the broker has delivered to each worker and has
                     \* no acknowledgement for
          acks,      \* acknowledgements of each worker under way
          current,   \* the task in each worker's callback
          stale,     \* workers whose current task was delivered on a channel
                     \* that is gone
          up,        \* workers that are running
          done,      \* how often each task has been worked
          crashes, restarts

failureVars == <<crashes, restarts>>
vars == <<program, sent, onDisk, ready, unacked, acks, current, stale, up, done,
          failureVars>>

TypeOK ==
    /\ program \in {"worker", "direct"}
    /\ onDisk \subseteq Tasks /\ sent \subseteq Tasks
    /\ ready \subseteq Tasks
    /\ unacked \in [Workers -> Seq(Tasks)]
    /\ acks \in [Workers -> Nat]
    /\ \A w \in Workers : acks[w] <= Len(unacked[w])
    /\ current \in [Workers -> Tasks \union {None}]
    /\ stale \subseteq Workers /\ up \subseteq Workers
    /\ done \in [Tasks -> Nat]
    /\ crashes \in 0 .. MaxCrashes /\ restarts \in 0 .. MaxRestarts

Init ==
    /\ program \in {"worker", "direct"}
    /\ sent = {} /\ onDisk = {} /\ ready = {}
    /\ unacked = [w \in Workers |-> <<>>]
    /\ acks = [w \in Workers |-> 0]
    /\ current = [w \in Workers |-> None]
    /\ stale = {} /\ up = Workers
    /\ done = [m \in Tasks |-> 0]
    /\ crashes = 0 /\ restarts = 0

\* task_queue is durable and its messages are PERSISTENT_TEXT_PLAIN.
Durable == program = "worker"

Held(w) == {unacked[w][k] : k \in DOMAIN unacked[w]}

InTheQueue(m) == m \in ready \/ \E w \in Workers : m \in Held(w)

-----------------------------------------------------------------------------
(* Senders and broker.                                                      *)

\* TaskSender and DirectSend: declare the queue, publish, close.  There is no
\* confirm, so the sender does not wait for the disk.
Send(m) ==
    /\ m \notin sent
    /\ sent' = sent \union {m}
    /\ ready' = ready \union {m}
    /\ UNCHANGED <<program, onDisk, unacked, acks, current, stale, up, done,
                   failureVars>>

\* A durable queue and a persistent message that is still in it.
WriteToDisk(m) ==
    /\ Durable
    /\ InTheQueue(m) /\ m \notin onDisk
    /\ onDisk' = onDisk \union {m}
    /\ UNCHANGED <<program, sent, ready, unacked, acks, current, stale, up,
                   done, failureVars>>

\* Mutant: no basicQos(1).
HasRoom_mutant(w) == TRUE

\* basicQos(1) of Worker: no further message while one is not acknowledged.
HasRoom(w) == program = "worker" => Len(unacked[w]) < 1

\* Mutant: basicConsume with autoAck.
Deliver_mutant(w) ==
    /\ w \in up
    /\ HasRoom(w)
    /\ current[w] = None
    /\ \E m \in ready :
          /\ ready' = ready \ {m}
          /\ current' = [current EXCEPT ![w] = m]
    /\ stale' = stale \union {w}
    /\ UNCHANGED <<program, sent, onDisk, unacked, acks, up, done,
                   failureVars>>

\* basicConsume without autoAck: the queue gives its next message to any
\* consumer that has room, and keeps it until it is acknowledged.
Deliver(w) ==
    /\ w \in up
    /\ HasRoom(w)
    /\ \E m \in ready :
          /\ ready' = ready \ {m}
          /\ unacked' = [unacked EXCEPT ![w] = Append(@, m)]
    /\ UNCHANGED <<program, sent, onDisk, acks, current, stale, up, done,
                   failureVars>>

AckArrives(w) ==
    /\ acks[w] > 0
    /\ acks' = [acks EXCEPT ![w] = @ - 1]
    /\ unacked' = [unacked EXCEPT ![w] = Tail(@)]
    /\ UNCHANGED <<program, sent, onDisk, ready, current, stale, up, done,
                   failureVars>>

-----------------------------------------------------------------------------
(* The callback of Worker and DirectRecv, one message at a time.            *)

StartWork(w) ==
    /\ w \in up
    /\ current[w] = None
    /\ acks[w] < Len(unacked[w])
    /\ current' = [current EXCEPT ![w] = unacked[w][acks[w] + 1]]
    /\ UNCHANGED <<program, sent, onDisk, ready, unacked, acks, stale, up,
                   done, failureVars>>

\* Mutant: basicNack with requeue instead of basicAck.
Requeue_mutant(w) ==
    /\ current[w] # None
    /\ done' = [done EXCEPT ![current[w]] = @ + 1]
    /\ current' = [current EXCEPT ![w] = None]
    /\ ready' = ready \union {current[w]}
    /\ unacked' = [unacked EXCEPT ![w] = IF w \in stale THEN @ ELSE Tail(@)]
    /\ stale' = stale \ {w}
    /\ UNCHANGED <<program, sent, onDisk, acks, up, failureVars>>

\* The end of doWork and the basicAck; a recovered channel drops the
\* acknowledgement of what its predecessor delivered.
FinishWork(w) ==
    /\ current[w] # None
    /\ done' = [done EXCEPT ![current[w]] = @ + 1]
    /\ current' = [current EXCEPT ![w] = None]
    /\ acks' = IF w \in stale THEN acks ELSE [acks EXCEPT ![w] = @ + 1]
    /\ stale' = stale \ {w}
    /\ UNCHANGED <<program, sent, onDisk, ready, unacked, up, failureVars>>

-----------------------------------------------------------------------------
(* Failures.                                                                *)

\* A consumer process dies, with its acknowledgements under way; the broker
\* puts back what it had delivered to it.
Crash(w) ==
    /\ w \in up /\ crashes < MaxCrashes
    /\ crashes' = crashes + 1
    /\ up' = up \ {w}
    /\ ready' = ready \union Held(w)
    /\ unacked' = [unacked EXCEPT ![w] = <<>>]
    /\ acks' = [acks EXCEPT ![w] = 0]
    /\ current' = [current EXCEPT ![w] = None]
    /\ stale' = stale \ {w}
    /\ UNCHANGED <<program, sent, onDisk, done, restarts>>

\* The broker comes back with the messages it had on disk and no acknowledged
\* one; callbacks go on.  Consumers declare the queue anew as they recover.
BrokerRestarts ==
    /\ restarts < MaxRestarts
    /\ restarts' = restarts + 1
    /\ ready' = (ready \union UNION {Held(w) : w \in Workers}) \intersect onDisk
    /\ unacked' = [w \in Workers |-> <<>>]
    /\ acks' = [w \in Workers |-> 0]
    /\ stale' = {w \in Workers : current[w] # None}
    /\ UNCHANGED <<program, sent, onDisk, current, up, done, crashes>>

-----------------------------------------------------------------------------
Broker == \/ \E m \in Tasks : WriteToDisk(m)
          \/ \E w \in Workers : Deliver(w) \/ AckArrives(w)

Worker(w) == StartWork(w) \/ FinishWork(w)

\* Consumers wait for further messages for ever.
Idle ==
    /\ sent = Tasks /\ (ready = {} \/ up = {})
    /\ \A w \in Workers : unacked[w] = <<>> /\ current[w] = None
    /\ UNCHANGED vars

Next ==
    \/ \E m \in Tasks : Send(m)
    \/ Broker
    \/ \E w \in Workers : Worker(w) \/ Crash(w)
    \/ BrokerRestarts
    \/ Idle

Spec == Init /\ [][Next]_vars

\* The broker delivers what it can to each worker that has room, and callbacks
\* of running workers end.
FairSpec ==
    /\ Spec
    /\ \A w \in Workers :
          WF_vars(Deliver(w)) /\ WF_vars(AckArrives(w)) /\ WF_vars(Worker(w))

-----------------------------------------------------------------------------
(* Properties.                                                              *)

\* A task leaves the queue only after it has been worked, whichever worker
\* died with it and whichever acknowledgements were lost.  A restart of the
\* broker may lose what was not on disk, as the sender does not wait for that.
NoTaskLost ==
    \A m \in (IF restarts = 0 THEN sent ELSE onDisk) :
        InTheQueue(m) \/ done[m] > 0

\* A task is repeated only because a worker died or the broker restarted, and
\* at most once for each time this happened.
RepeatsNeedFailures ==
    \A m \in Tasks : done[m] <= 1 + crashes + restarts

\* "if the consumer does not acknowledge message, then the channel will not
\* dispatch a new message to the consumer": no task waits behind another in
\* the hands of a busy Worker, unless the broker restarted meanwhile.
BusyWorkerGetsNothing ==
    program = "worker" =>
        \A w \in Workers :
            current[w] # None /\ w \notin stale => unacked[w] = <<current[w]>>

\* Every task the broker has taken is worked in the end, unless it restarted
\* before the task was on disk.
EveryTaskIsWorked ==
    \A m \in Tasks :
        (m \in sent) ~> (done[m] > 0 \/ (restarts > 0 /\ m \notin onDisk))

=============================================================================
