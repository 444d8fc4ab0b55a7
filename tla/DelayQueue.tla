----------------------------- MODULE DelayQueue -----------------------------
(***************************************************************************)
(* The delay queue of tech-rabbit (exchange/delay).  DelayProducer         *)
(* publishes N messages to dd_order, each with a TTL of its own, the       *)
(* longest first (i * 5000 for i = N-1 down to 0); the queue dead-letters  *)
(* expired messages to dd_pay_expiration_queue, where DelayConsumer waits. *)
(* One tick of the clock stands for 5000 ms.                               *)
(*                                                                         *)
(* External, modelled from their use here: the broker, which looks for     *)
(* expired messages at the head of a queue only, and at once; and the      *)
(* exchanges, bindings and dead-letter arguments, which are defined by     *)
(* hand in the broker's management page as the README says.                *)
(***************************************************************************)
EXTENDS Naturals, Sequences, SequencesExt

CONSTANT N   \* messages DelayProducer sends; the i-th message is the number i

ASSUME DelayQueueAssumption == N \in Nat \ {0}

VARIABLES now,        \* the clock
          i,          \* the loop variable of DelayProducer
          ddOrder,    \* the queue of waiting messages: [msg, sentAt]
          expired,    \* dd_pay_expiration_queue: [msg, sentAt, at]
          consumed    \* what DelayConsumer has printed, in order

vars == <<now, i, ddOrder, expired, consumed>>

\* The clock stops here; by then every message has been due for a while.
MaxTime == 3 * N

Waiting == [msg : 0 .. N - 1, sentAt : 0 .. MaxTime]
Expired == [msg : 0 .. N - 1, sentAt : 0 .. MaxTime, at : 0 .. MaxTime]

TypeOK ==
    /\ now \in 0 .. MaxTime
    /\ i \in 0 .. N
    /\ ddOrder \in Seq(Waiting)
    /\ expired \in Seq(Expired)
    /\ consumed \in Seq(Expired)

Init ==
    /\ now = 0
    /\ i = N
    /\ ddOrder = <<>> /\ expired = <<>> /\ consumed = <<>>

\* Mutant: no TTL at all.
NoExpiration_mutant(k) == MaxTime + 1

\* expiration(String.valueOf(i * 5000))
Expiration(k) == k

\* Mutant: while (i > 0) with the decrement after the publication.
Publish_mutant ==
    /\ i > 0
    /\ i' = i - 1
    /\ ddOrder' = Append(ddOrder, [msg |-> i, sentAt |-> now])
    /\ UNCHANGED <<now, expired, consumed>>

\* Mutant: for (i = 0; i < N; i++), the shortest delay first.
PublishUpwards_mutant ==
    /\ i > 0
    /\ i' = i - 1
    /\ ddOrder' = Append(ddOrder, [msg |-> N - i, sentAt |-> now])
    /\ UNCHANGED <<now, expired, consumed>>

\* while (i-- > 0) channel.basicPublish(...)
Publish ==
    /\ i > 0
    /\ i' = i - 1
    /\ ddOrder' = Append(ddOrder, [msg |-> i - 1, sentAt |-> now])
    /\ UNCHANGED <<now, expired, consumed>>

HeadIsDue ==
    /\ ddOrder # <<>>
    /\ now >= Head(ddOrder).sentAt + Expiration(Head(ddOrder).msg)

\* The broker moves an expired head to the dead-letter exchange.
DeadLetter ==
    /\ HeadIsDue
    /\ expired' = Append(expired, [msg |-> Head(ddOrder).msg,
                                   sentAt |-> Head(ddOrder).sentAt, at |-> now])
    /\ ddOrder' = Tail(ddOrder)
    /\ UNCHANGED <<now, i, consumed>>

\* basicConsume with autoAck, whenever the consumer runs.
Consume ==
    /\ expired # <<>>
    /\ consumed' = Append(consumed, Head(expired))
    /\ expired' = Tail(expired)
    /\ UNCHANGED <<now, i, ddOrder>>

\* Time passes, but not past the moment a head is due.
Tick ==
    /\ now < MaxTime
    /\ ~HeadIsDue
    /\ now' = now + 1
    /\ UNCHANGED <<i, ddOrder, expired, consumed>>

Done == now = MaxTime /\ i = 0 /\ expired = <<>> /\ ~HeadIsDue /\ UNCHANGED vars

Next == Publish \/ DeadLetter \/ Consume \/ Tick \/ Done

Spec == Init /\ [][Next]_vars

\* Producer, broker and consumer run and time passes.
FairSpec ==
    /\ Spec
    /\ WF_vars(Publish) /\ WF_vars(DeadLetter) /\ WF_vars(Consume)
    /\ WF_vars(Tick)

-----------------------------------------------------------------------------
(* Properties.                                                              *)

Left == ToSet(expired) \union ToSet(consumed)

\* The longest delay is published first and keeps every other message back:
\* what has left dd_order left after the message published first, or with it,
\* and not before (N - 1) * 5000 ms had passed since that was published,
\* whenever that was.
HeldBackByTheFirst ==
    \A m \in Left : \E first \in Left :
        first.msg = N - 1 /\ m.at >= first.sentAt + (N - 1)

\* Every message reaches the consumer, if the producer does not take for ever.
EveryMessageArrives == (i = 0 /\ now <= 2 * N) ~> (Len(consumed) = N)

=============================================================================
