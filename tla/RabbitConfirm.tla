--------------------------- MODULE RabbitConfirm ---------------------------
(***************************************************************************)
(* Publisher confirms (tech-rabbit, exchange/confirm): EmitLogTopic        *)
(* publishes N messages on a confirm channel, noting each sequence number  *)
(* in unconfirmedSet before it publishes, and closes once the set is empty.*)
(* The confirm listener runs on the connection's thread and empties the    *)
(* set.                                                                    *)
(*                                                                         *)
(* External, modelled from their use here: the broker, which confirms in   *)
(* any order and may confirm several messages with one frame; the          *)
(* connection, which delivers in order and, when it breaks, recovers by    *)
(* itself with a new confirm channel that counts from 1 again (automatic   *)
(* recovery is the default of ConnectionFactory).                          *)
(***************************************************************************)
EXTENDS Naturals, Sequences, FiniteSets

CONSTANTS N,           \* messages to publish
          MayNack,     \* whether the broker may refuse a message
          MaxOutages   \* how often the publisher's connection may break

ASSUME RabbitConfirmAssumption ==
    N \in Nat /\ MayNack \in BOOLEAN /\ MaxOutages \in Nat

VARIABLES pc,              \* "add", "publish", "wait", "closed" or "failed"
          i,               \* the loop variable: messages published so far
          seqNo,           \* channel.getNextPublishSeqNo()
          unconfirmedSet,
          toBroker,        \* published messages under way: [tag, msg]
          settled,         \* what the broker has decided and not yet told
          toPublisher,     \* confirms under way: [type, tag, multiple]
          up, outages,     \* the publisher's connection
          taken,           \* messages the broker has routed to all their queues
          refused          \* messages the broker has refused

publisherVars == <<pc, i, seqNo>>
brokerVars == <<settled, taken, refused>>
vars == <<publisherVars, unconfirmedSet, toBroker, brokerVars, toPublisher,
          up, outages>>

Msgs == 0 .. N - 1
Tags == 1 .. N

TypeOK ==
    /\ pc \in {"add", "publish", "wait", "closed", "failed"}
    /\ i \in 0 .. N
    /\ seqNo \in 1 .. N + 1
    /\ unconfirmedSet \subseteq Tags
    /\ toBroker \in Seq([tag : Tags, msg : Msgs])
    /\ settled \subseteq [type : {"ack", "nack"}, tag : Tags]
    /\ toPublisher \in Seq([type : {"ack", "nack"}, tag : Tags,
                            multiple : BOOLEAN])
    /\ up \in BOOLEAN /\ outages \in 0 .. MaxOutages
    /\ taken \subseteq Msgs /\ refused \subseteq Msgs

Init ==
    /\ pc = (IF N > 0 THEN "add" ELSE "wait")
    /\ i = 0 /\ seqNo = 1
    /\ unconfirmedSet = {}
    /\ toBroker = <<>>
    /\ settled = {} /\ taken = {} /\ refused = {}
    /\ toPublisher = <<>>
    /\ up = TRUE /\ outages = 0

-----------------------------------------------------------------------------
(* EmitLogTopic.main, on the main thread.                                   *)

\* Mutant: the number of the message before is noted.
Add_mutant ==
    /\ pc = "add"
    /\ unconfirmedSet' = unconfirmedSet \union {seqNo - 1}
    /\ pc' = "publish"
    /\ UNCHANGED <<i, seqNo, toBroker, brokerVars, toPublisher, up, outages>>

\* unconfirmedSet.add(channel.getNextPublishSeqNo())
Add ==
    /\ pc = "add"
    /\ unconfirmedSet' = unconfirmedSet \union {seqNo}
    /\ pc' = "publish"
    /\ UNCHANGED <<i, seqNo, toBroker, brokerVars, toPublisher, up, outages>>

\* Mutant: for (int i=0; i<= N; i++).
Publish_mutant ==
    /\ pc = "publish"
    /\ toBroker' = Append(toBroker, [tag |-> seqNo, msg |-> i])
    /\ seqNo' = seqNo + 1
    /\ i' = i + 1
    /\ pc' = IF i + 1 <= N THEN "add" ELSE "wait"
    /\ UNCHANGED <<unconfirmedSet, brokerVars, toPublisher, up, outages>>

\* channel.basicPublish; on a closed channel it throws, and main ends.
Publish ==
    /\ pc = "publish"
    /\ IF up
       THEN /\ toBroker' = Append(toBroker, [tag |-> seqNo, msg |-> i])
            /\ seqNo' = seqNo + 1
            /\ i' = i + 1
            /\ pc' = IF i + 1 < N THEN "add" ELSE "wait"
       ELSE /\ pc' = "failed"
            /\ UNCHANGED <<i, seqNo, toBroker>>
    /\ UNCHANGED <<unconfirmedSet, brokerVars, toPublisher, up, outages>>

\* while (!unconfirmedSet.isEmpty()) is over: channel.close(), which throws if
\* the connection is down.
Close ==
    /\ pc = "wait"
    /\ unconfirmedSet = {}
    /\ pc' = IF up THEN "closed" ELSE "failed"
    /\ UNCHANGED <<i, seqNo, unconfirmedSet, toBroker, brokerVars,
                   toPublisher, up, outages>>

-----------------------------------------------------------------------------
(* The confirm listener, on the connection's thread.                        *)

\* Mutant: headSet(deliveryTag), which leaves out deliveryTag itself.
HeadSet_mutant(tag, multiple) ==
    unconfirmedSet' = IF multiple
                      THEN {s \in unconfirmedSet : s >= tag}
                      ELSE unconfirmedSet \ {tag}

\* Mutant: headSet(deliveryTag + 2), which takes the next tag along.
HeadSetTooFar_mutant(tag, multiple) ==
    unconfirmedSet' = {s \in unconfirmedSet : s >= tag + 2}

\* handleAck: unconfirmedSet.headSet(deliveryTag + 1).clear(), or remove.
HandleAck(tag, multiple) ==
    unconfirmedSet' = IF multiple
                      THEN {s \in unconfirmedSet : s >= tag + 1}
                      ELSE unconfirmedSet \ {tag}

\* handleNack prints a line.
HandleNack(tag, multiple) == UNCHANGED unconfirmedSet

HandleConfirm ==
    /\ toPublisher # <<>>
    /\ LET c == Head(toPublisher)
       IN  \/ c.type = "ack" /\ HandleAck(c.tag, c.multiple)
           \/ c.type = "nack" /\ HandleNack(c.tag, c.multiple)
    /\ toPublisher' = Tail(toPublisher)
    /\ UNCHANGED <<publisherVars, toBroker, brokerVars, up, outages>>

-----------------------------------------------------------------------------
(* The broker (external).                                                   *)

\* The broker routes a message to all queues bound to the exchange (none at
\* all is as good), or refuses it.
BrokerTakes ==
    /\ toBroker # <<>>
    /\ \/ /\ settled' = settled \union
                {[type |-> "ack", tag |-> Head(toBroker).tag]}
          /\ taken' = taken \union {Head(toBroker).msg}
          /\ UNCHANGED refused
       \/ /\ MayNack
          /\ settled' = settled \union
                {[type |-> "nack", tag |-> Head(toBroker).tag]}
          /\ refused' = refused \union {Head(toBroker).msg}
          /\ UNCHANGED taken
    /\ toBroker' = Tail(toBroker)
    /\ UNCHANGED <<publisherVars, unconfirmedSet, toPublisher, up, outages>>

\* One confirm for one message, in any order ...
ConfirmOne ==
    /\ \E c \in settled :
          /\ settled' = settled \ {c}
          /\ toPublisher' = Append(toPublisher,
                [type |-> c.type, tag |-> c.tag, multiple |-> FALSE])
    /\ UNCHANGED <<publisherVars, unconfirmedSet, toBroker, taken, refused,
                   up, outages>>

\* ... or one for all up to some message, if they are settled the same way.
ConfirmMultiple ==
    /\ \E c \in settled :
          LET upTo == {d \in settled : d.tag <= c.tag}
          IN  /\ \A d \in upTo : d.type = c.type
              /\ settled' = settled \ upTo
              /\ toPublisher' = Append(toPublisher,
                    [type |-> c.type, tag |-> c.tag, multiple |-> TRUE])
    /\ UNCHANGED <<publisherVars, unconfirmedSet, toBroker, taken, refused,
                   up, outages>>

-----------------------------------------------------------------------------
(* The connection of the publisher (external).                              *)

\* What is under way in either direction is lost.
ConnectionBreaks ==
    /\ up /\ outages < MaxOutages
    /\ pc \notin {"closed", "failed"}
    /\ up' = FALSE /\ outages' = outages + 1
    /\ toBroker' = <<>> /\ settled' = {} /\ toPublisher' = <<>>
    /\ UNCHANGED <<publisherVars, unconfirmedSet, taken, refused>>

\* The recovered channel is in confirm mode and numbers its messages anew.
ConnectionRecovers ==
    /\ ~up
    /\ up' = TRUE
    /\ seqNo' = 1
    /\ UNCHANGED <<pc, i, unconfirmedSet, toBroker, brokerVars, toPublisher,
                   outages>>

-----------------------------------------------------------------------------
Publisher == Add \/ Publish \/ Close
Broker == BrokerTakes \/ ConfirmOne \/ ConfirmMultiple

\* main has ended and nothing is under way.
Ended ==
    /\ pc \in {"closed", "failed"}
    /\ toBroker = <<>> /\ settled = {} /\ toPublisher = <<>>
    /\ up
    /\ UNCHANGED vars

\* The loop of Thread.sleep(10) goes round.
StillWaiting == pc = "wait" /\ unconfirmedSet # {} /\ UNCHANGED vars

Next ==
    \/ Publisher \/ StillWaiting \/ HandleConfirm
    \/ Broker
    \/ ConnectionBreaks \/ ConnectionRecovers
    \/ Ended

Spec == Init /\ [][Next]_vars

\* The two threads of the publisher run, the broker settles and confirms what
\* it was sent, a broken connection recovers.
FairSpec ==
    /\ Spec
    /\ WF_vars(Publisher) /\ WF_vars(HandleConfirm)
    /\ WF_vars(BrokerTakes) /\ WF_vars(ConfirmOne \/ ConfirmMultiple)
    /\ WF_vars(ConnectionRecovers)

-----------------------------------------------------------------------------
(* Properties.                                                              *)

\* Tags the broker has still to confirm.
AtBroker ==
    {toBroker[k].tag : k \in DOMAIN toBroker} \union {c.tag : c \in settled}

\* Tags a confirm under way will confirm.
Confirming ==
    UNION {IF c.multiple THEN 1 .. c.tag ELSE {c.tag} :
              c \in {toPublisher[k] : k \in DOMAIN toPublisher}}

\* A tag that the broker has not confirmed is in the set, although main adds while the
\* listener removes and confirms are batched and reordered: main does not close while
\* the broker still holds a message.  A connection that recovers makes main lose track
\* of one message of the new channel at most, the one whose number it had read from
\* the old channel.  As long as the connection holds, besides the tag being published
\* the set keeps only the tags of refused messages without a confirm to come: those
\* alone can make main wait for ever.
UnconfirmedSetIsExact ==
    /\ Cardinality(AtBroker \ unconfirmedSet) <= (IF outages = 0 THEN 0 ELSE 1)
    /\ outages = 0 =>
          unconfirmedSet \ (AtBroker \union Confirming)
              \subseteq {m + 1 : m \in refused}
                        \union (IF pc = "publish" THEN {seqNo} ELSE {})

\* As long as the connection holds, EmitLogTopic closes only when the broker
\* has decided about every message.
ClosedMeansDecided ==
    pc = "closed" /\ outages = 0 => taken \union refused = Msgs

\* If nothing is refused and the connection holds, the sender comes to know
\* that every message was sent and closes.
SenderLearnsOutcome ==
    [](refused = {} /\ outages = 0) => <>(pc = "closed")

=============================================================================
