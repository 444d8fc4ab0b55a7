------------------------ MODULE RabbitConfirmProofs ------------------------
(***************************************************************************)
(* Proofs about EmitLogTopic's confirms, for any number of messages and    *)
(* outages, whatever the broker refuses: types, the set of unconfirmed     *)
(* numbers, what closing means, and that main does not wait in vain.       *)
(***************************************************************************)
EXTENDS RabbitConfirm, SequenceTheorems, FiniteSetTheorems, TLAPS

-----------------------------------------------------------------------------
(* Types.                                                                   *)

Messages == [tag : Tags, msg : Msgs]
Confirms == [type : {"ack", "nack"}, tag : Tags, multiple : BOOLEAN]

\* Inductive: main counts up to N, and a channel never counts further than main.
CountInv ==
    /\ TypeOK
    /\ pc \in {"add", "publish"} => i < N
    /\ seqNo <= i + 1

\* What the actions do to the two queues.
LEMMA Appended ==
    ASSUME NEW S, NEW s \in Seq(S), NEW e \in S
    PROVE  /\ Append(s, e) \in Seq(S)
           /\ DOMAIN Append(s, e) = DOMAIN s \union {Len(s) + 1}
           /\ Len(s) + 1 \notin DOMAIN s
           /\ \A k \in DOMAIN s : k < Len(s) + 1 /\ Append(s, e)[k] = s[k] /\ s[k] \in S
           /\ Append(s, e)[Len(s) + 1] = e
OBVIOUS

\* What taking the first element of a queue leaves.
LEMMA Taken ==
    ASSUME NEW S, NEW s \in Seq(S), s # <<>>
    PROVE  /\ Head(s) \in S /\ Head(s) = s[1] /\ 1 \in DOMAIN s
           /\ Tail(s) \in Seq(S)
           /\ \A k \in DOMAIN Tail(s) : Tail(s)[k] = s[k + 1] /\ k + 1 \in DOMAIN s /\ k \in Nat \ {0}
           /\ \A k \in DOMAIN s : k # 1 => k - 1 \in DOMAIN Tail(s) /\ k \in Nat
OBVIOUS

\* The variables keep their types for any messages, outages and refusals.
THEOREM ConfirmTypeCorrect == Spec => []CountInv
<1> USE RabbitConfirmAssumption
<1>1. Init => CountInv
  BY DEF Init, CountInv, TypeOK, Tags, Msgs
<1>2. CountInv /\ [Next]_vars => CountInv'
  <2> SUFFICES ASSUME CountInv, [Next]_vars
               PROVE  CountInv'
    OBVIOUS
  <2> USE DEF CountInv
  <2>1. CASE UNCHANGED vars
    BY <2>1 DEF vars, publisherVars, brokerVars, TypeOK
  <2>2. CASE Add
    BY <2>2 DEF Add, TypeOK, brokerVars, Tags
  <2>3. CASE Publish
    <3>1. CASE up
      <4>1. [tag |-> seqNo, msg |-> i] \in Messages /\ toBroker \in Seq(Messages)
        BY <2>3, <3>1 DEF Publish, TypeOK, Tags, Msgs, Messages
      <4>2. toBroker' \in Seq(Messages)
        BY <2>3, <3>1, <4>1, Appended DEF Publish
      <4>3. /\ i' = i + 1 /\ seqNo' = seqNo + 1
            /\ pc' = IF i + 1 < N THEN "add" ELSE "wait"
            /\ UNCHANGED <<unconfirmedSet, brokerVars, toPublisher, up, outages>>
        BY <2>3, <3>1 DEF Publish
      <4>4. i \in 0 .. N /\ seqNo \in 1 .. N + 1 /\ i < N /\ N \in Nat
        BY <2>3 DEF Publish, TypeOK
      <4>5. i' \in 0 .. N /\ seqNo' \in 1 .. N + 1 /\ seqNo' <= i' + 1
        BY <4>3, <4>4
      <4>6. pc' \in {"add", "wait"} /\ (pc' = "add" => i' < N)
        BY <4>3, <4>4
      <4> QED
        BY <4>2, <4>3, <4>5, <4>6 DEF TypeOK, brokerVars, Messages
    <3>2. CASE ~up
      BY <2>3, <3>2 DEF Publish, TypeOK, brokerVars
    <3> QED
      BY <3>1, <3>2
  <2>4. CASE Close
    BY <2>4 DEF Close, TypeOK, brokerVars
  <2>5. CASE StillWaiting \/ Ended
    BY <2>5 DEF StillWaiting, Ended, vars, publisherVars, brokerVars, TypeOK
  <2>6. CASE HandleConfirm
    <3>1. toPublisher' \in Seq(Confirms)
      BY <2>6, Taken DEF HandleConfirm, TypeOK, Confirms
    <3>2. unconfirmedSet' \subseteq Tags
      BY <2>6 DEF HandleConfirm, HandleAck, HandleNack, TypeOK
    <3> QED
      BY <2>6, <3>1, <3>2 DEF HandleConfirm, TypeOK, publisherVars, brokerVars, Confirms
  <2>7. CASE BrokerTakes
    <3>1. toBroker' \in Seq(Messages) /\ Head(toBroker) \in Messages
      BY <2>7, Taken DEF BrokerTakes, TypeOK, Messages
    <3> QED
      BY <2>7, <3>1 DEF BrokerTakes, TypeOK, publisherVars, Messages
  <2>8. CASE ConfirmOne
    <3>1. PICK c \in settled :
             /\ settled' = settled \ {c}
             /\ toPublisher' = Append(toPublisher, [type |-> c.type, tag |-> c.tag,
                                                    multiple |-> FALSE])
      BY <2>8 DEF ConfirmOne
    <3>2. toPublisher' \in Seq(Confirms)
      BY <3>1, Appended DEF TypeOK, Confirms
    <3> QED
      BY <2>8, <3>1, <3>2 DEF ConfirmOne, TypeOK, publisherVars, Confirms
  <2>9. CASE ConfirmMultiple
    <3>1. PICK c \in settled :
             /\ settled' \subseteq settled
             /\ toPublisher' = Append(toPublisher, [type |-> c.type, tag |-> c.tag,
                                                    multiple |-> TRUE])
      BY <2>9 DEF ConfirmMultiple
    <3>2. toPublisher' \in Seq(Confirms)
      BY <3>1, Appended DEF TypeOK, Confirms
    <3> QED
      BY <2>9, <3>1, <3>2 DEF ConfirmMultiple, TypeOK, publisherVars, Confirms
  <2>10. CASE ConnectionBreaks
    <3>1. outages' \in 0 .. MaxOutages
      BY <2>10 DEF ConnectionBreaks, TypeOK
    <3>2. <<>> \in Seq(Messages) /\ <<>> \in Seq(Confirms)
      OBVIOUS
    <3> QED
      BY <2>10, <3>1, <3>2 DEF ConnectionBreaks, TypeOK, publisherVars, Messages, Confirms
  <2>11. CASE ConnectionRecovers
    BY <2>11 DEF ConnectionRecovers, TypeOK, brokerVars
  <2> HIDE DEF CountInv
  <2> QED
    BY <2>1, <2>2, <2>3, <2>4, <2>5, <2>6, <2>7, <2>8, <2>9, <2>10, <2>11
    DEF Next, Publisher, Broker
<1> QED
  BY <1>1, <1>2, PTL DEF Spec

-----------------------------------------------------------------------------
(* The numbers of a channel.                                                *)

\* No message that waits or is settled has the number of a confirm, or a smaller one
\* than a multiple confirm.
IsOverFor(c) ==
    /\ c.tag < seqNo
    /\ \A k \in DOMAIN toBroker : c.tag < toBroker[k].tag
    /\ \A d \in settled : d.tag # c.tag /\ (c.multiple => c.tag < d.tag)

\* Inductive: messages wait in the order of their numbers, behind those the broker has
\* decided about, which are behind those it has told of; nothing is under way while the
\* connection is down.
OrderInv ==
    /\ ~up => outages > 0 /\ toBroker = <<>> /\ settled = {} /\ toPublisher = <<>>
    /\ \A k \in DOMAIN toBroker : toBroker[k].tag < seqNo
    /\ \A j, k \in DOMAIN toBroker : j < k => toBroker[j].tag < toBroker[k].tag
    /\ \A c \in settled :
          c.tag < seqNo /\ \A k \in DOMAIN toBroker : c.tag < toBroker[k].tag
    /\ \A c, d \in settled : c.tag = d.tag => c = d
    /\ \A k \in DOMAIN toPublisher : IsOverFor(toPublisher[k])

\* Every step keeps the order: a confirm settles from the front, a broken connection
\* empties both queues.
LEMMA OrderIsKept ==
    ASSUME CountInv, OrderInv, [Next]_vars
    PROVE  OrderInv'
<1> USE RabbitConfirmAssumption
<1>0. /\ toBroker \in Seq(Messages) /\ toPublisher \in Seq(Confirms)
      /\ \A e \in Messages : e.tag \in Nat /\ e.msg \in Nat
      /\ \A e \in Confirms : e.tag \in Nat
      /\ \A c \in settled : c.tag \in Nat
      /\ seqNo \in Nat \ {0} /\ up \in BOOLEAN /\ outages \in Nat
  BY DEF CountInv, TypeOK, Messages, Confirms, Tags, Msgs
<1>1. CASE UNCHANGED <<toBroker, settled, toPublisher, seqNo, up, outages>>
  BY <1>1 DEF OrderInv, IsOverFor
<1>2. CASE Publish
  <2>1. CASE ~up
    BY <2>1, <1>1, <1>2 DEF Publish, brokerVars
  <2>2. CASE up
    <3> DEFINE e == [tag |-> seqNo, msg |-> i]
    <3>1. e \in Messages
      BY <1>2 DEF Messages, CountInv, TypeOK, Tags, Msgs, Publish
    <3>2. /\ toBroker' = Append(toBroker, e) /\ seqNo' = seqNo + 1
          /\ UNCHANGED <<settled, toPublisher, up, outages>>
      BY <1>2, <2>2 DEF Publish, brokerVars
    <3>3. \A k \in DOMAIN toBroker' : IF k \in DOMAIN toBroker
                                      THEN toBroker'[k] = toBroker[k] /\ toBroker[k].tag \in Nat
                                      ELSE toBroker'[k].tag = seqNo /\ k = Len(toBroker) + 1
      BY <1>0, <3>1, <3>2, Appended
    <3>4. \A j, k \in DOMAIN toBroker' : j < k => toBroker'[j].tag < toBroker'[k].tag
      BY <1>0, <3>1, <3>2, <3>3, Appended DEF OrderInv
    <3>5. \A k \in DOMAIN toBroker' : toBroker'[k].tag < seqNo'
      BY <1>0, <3>2, <3>3 DEF OrderInv
    <3>6. \A c \in settled' : c.tag < seqNo' /\ \A k \in DOMAIN toBroker' : c.tag < toBroker'[k].tag
      BY <1>0, <3>2, <3>3 DEF OrderInv
    <3>7. \A k \in DOMAIN toPublisher' : IsOverFor(toPublisher[k])'
      BY <1>0, <3>2, <3>3 DEF OrderInv, IsOverFor
    <3> QED
      BY <2>2, <3>2, <3>4, <3>5, <3>6, <3>7 DEF OrderInv
  <2> QED
    BY <2>1, <2>2
<1>3. CASE HandleConfirm
  <2>1. toPublisher # <<>> /\ toPublisher' = Tail(toPublisher)
        /\ UNCHANGED <<toBroker, settled, seqNo, up, outages>>
    BY <1>3 DEF HandleConfirm, publisherVars, brokerVars
  <2>2. \A k \in DOMAIN toPublisher' : k + 1 \in DOMAIN toPublisher
                                       /\ toPublisher'[k] = toPublisher[k + 1]
    BY <1>0, <2>1, Taken
  <2>3. \A k \in DOMAIN toPublisher' : IsOverFor(toPublisher[k])'
    BY <2>1, <2>2 DEF OrderInv, IsOverFor
  <2> QED
    BY <2>1, <2>3 DEF OrderInv
<1>4. CASE BrokerTakes
  <2>1. PICK t \in {"ack", "nack"} :
           /\ settled' = settled \union {[type |-> t, tag |-> Head(toBroker).tag]}
           /\ toBroker # <<>> /\ toBroker' = Tail(toBroker)
           /\ UNCHANGED <<toPublisher, seqNo, up, outages>>
    BY <1>4 DEF BrokerTakes, publisherVars
  <2> DEFINE c == [type |-> t, tag |-> Head(toBroker).tag]
  <2>2. c.tag = toBroker[1].tag /\ 1 \in DOMAIN toBroker /\ c.tag \in Nat
    BY <1>0, <2>1, Taken
  <2>3. \A k \in DOMAIN toBroker' : /\ k + 1 \in DOMAIN toBroker /\ 1 < k + 1
                                    /\ toBroker'[k] = toBroker[k + 1] /\ k \in Nat
                                    /\ toBroker[k + 1].tag \in Nat
    BY <1>0, <2>1, Taken
  <2>4. settled' = settled \union {c}
    BY <2>1
  <2> HIDE DEF c
  <2>5. up
    BY <2>1, <2>2 DEF OrderInv
  <2>6. \A j, k \in DOMAIN toBroker' : j < k => toBroker'[j].tag < toBroker'[k].tag
    BY <2>3 DEF OrderInv
  <2>7. \A k \in DOMAIN toBroker' : c.tag < toBroker'[k].tag /\ toBroker'[k].tag < seqNo
    BY <2>2, <2>3 DEF OrderInv
  <2>8. \A d \in settled : d.tag < c.tag
    BY <2>2 DEF OrderInv
  <2>9. \A d \in settled' : d.tag < seqNo /\ \A k \in DOMAIN toBroker' : d.tag < toBroker'[k].tag
    BY <2>2, <2>3, <2>4, <2>7 DEF OrderInv
  <2>10. \A d, e \in settled' : d.tag = e.tag => d = e
    BY <1>0, <2>2, <2>4, <2>8 DEF OrderInv
  <2>11. ASSUME NEW k \in DOMAIN toPublisher'
         PROVE  IsOverFor(toPublisher[k])'
    <3>1. IsOverFor(toPublisher[k]) /\ toPublisher'[k] = toPublisher[k] /\ toPublisher[k].tag \in Nat
      BY <1>0, <2>1, <2>11 DEF OrderInv
    <3>2. toPublisher[k].tag < c.tag
      BY <2>2, <3>1 DEF IsOverFor
    <3>3. \A n \in DOMAIN toBroker' : toPublisher[k].tag < toBroker'[n].tag
      BY <2>3, <3>1 DEF IsOverFor
    <3>4. \A d \in settled' : d.tag # toPublisher[k].tag
                              /\ (toPublisher[k].multiple => toPublisher[k].tag < d.tag)
      BY <2>2, <2>4, <3>1, <3>2 DEF IsOverFor
    <3> QED
      BY <2>1, <3>1, <3>3, <3>4 DEF IsOverFor
  <2> QED
    BY <2>1, <2>5, <2>6, <2>7, <2>9, <2>10, <2>11 DEF OrderInv
<1>5. CASE ConfirmOne \/ ConfirmMultiple
  <2>1. PICK c \in settled, m \in BOOLEAN :
           /\ settled' \subseteq settled
           /\ \A d \in settled' : d # c /\ (m => ~(d.tag <= c.tag))
           /\ toPublisher' = Append(toPublisher, [type |-> c.type, tag |-> c.tag,
                                                  multiple |-> m])
           /\ UNCHANGED <<toBroker, seqNo, up, outages>>
    <3>1. CASE ConfirmOne
      BY <3>1 DEF ConfirmOne, publisherVars
    <3>2. CASE ConfirmMultiple
      <4>1. PICK c \in settled :
               /\ settled' = settled \ {d \in settled : d.tag <= c.tag}
               /\ toPublisher' = Append(toPublisher, [type |-> c.type, tag |-> c.tag,
                                                      multiple |-> TRUE])
        BY <3>2 DEF ConfirmMultiple
      <4>2. \A d \in settled' : ~(d.tag <= c.tag) /\ d # c
        BY <1>0, <4>1
      <4>3. UNCHANGED <<toBroker, seqNo, up, outages>>
        BY <3>2 DEF ConfirmMultiple, publisherVars
      <4>4. settled' \subseteq settled /\ TRUE \in BOOLEAN
        BY <4>1
      <4> QED
        BY <4>1, <4>2, <4>3, <4>4
    <3> QED
      BY <1>5, <3>1, <3>2
  <2> DEFINE e == [type |-> c.type, tag |-> c.tag, multiple |-> m]
  <2>2. e \in Confirms /\ c.tag \in Nat
    BY <1>0 DEF Confirms, CountInv, TypeOK
  <2>3. \A k \in DOMAIN toPublisher' : IF k \in DOMAIN toPublisher
                                       THEN toPublisher'[k] = toPublisher[k]
                                       ELSE toPublisher'[k] = e
    BY <1>0, <2>1, <2>2, Appended
  <2>4. IsOverFor(e)'
    BY <1>0, <2>1, <2>2 DEF OrderInv, IsOverFor
  <2>5. \A k \in DOMAIN toPublisher : IsOverFor(toPublisher[k])
    BY DEF OrderInv
  <2>6. ASSUME NEW x, IsOverFor(x)
        PROVE  IsOverFor(x)'
    BY <2>1, <2>6 DEF IsOverFor
  <2>7. \A k \in DOMAIN toPublisher' : IsOverFor(toPublisher[k])'
    <3> SUFFICES ASSUME NEW k \in DOMAIN toPublisher'
                 PROVE  IsOverFor(toPublisher[k])'
      OBVIOUS
    <3>1. CASE k \in DOMAIN toPublisher
      <4>1. toPublisher'[k] = toPublisher[k] /\ IsOverFor(toPublisher[k])
        BY <2>3, <2>5, <3>1
      <4> QED
        BY <2>1, <4>1 DEF IsOverFor
    <3>2. CASE k \notin DOMAIN toPublisher
      <4>1. toPublisher'[k] = e
        BY <2>3, <3>2
      <4> QED
        BY <2>4, <4>1 DEF IsOverFor
    <3> QED
      BY <3>1, <3>2
  <2>8. up
    BY DEF OrderInv
  <2> QED
    BY <2>1, <2>7, <2>8 DEF OrderInv
<1>6. CASE ConnectionBreaks
  BY <1>0, <1>6 DEF ConnectionBreaks, OrderInv
<1>7. CASE ConnectionRecovers
  BY <1>7 DEF ConnectionRecovers, OrderInv, brokerVars
<1> QED
  <2>1. CASE Add \/ Close \/ StillWaiting \/ Ended \/ UNCHANGED vars
    BY <2>1, <1>1 DEF Add, Close, StillWaiting, Ended, vars, publisherVars, brokerVars
  <2> QED
    BY <1>2, <1>3, <1>4, <1>5, <1>6, <1>7, <2>1 DEF Next, Publisher, Broker

-----------------------------------------------------------------------------
(* The set.                                                                 *)

\* A number the broker has not confirmed is in the set; but for the first of a channel
\* whose message was noted under a number of the channel before.
IsNoted(t) == t \in unconfirmedSet \/ (outages > 0 /\ t = 1)

\* Inductive: what waits, is settled or about to be published is noted.
NotedInv ==
    /\ pc = "publish" => IsNoted(seqNo)
    /\ \A k \in DOMAIN toBroker : IsNoted(toBroker[k].tag)
    /\ \A c \in settled : IsNoted(c.tag)

\* What a confirm takes out of the set is over for.
LEMMA ConfirmRemovesOnly ==
    ASSUME CountInv, HandleConfirm, NEW t \in Nat, t \in unconfirmedSet,
           LET c == Head(toPublisher)
           IN  t # c.tag /\ (c.multiple => c.tag < t)
    PROVE  t \in unconfirmedSet'
<1>1. /\ toPublisher \in Seq(Confirms) /\ toPublisher # <<>>
      /\ \A e \in Confirms : e.tag \in Nat
  BY RabbitConfirmAssumption DEF HandleConfirm, CountInv, TypeOK, Tags, Confirms
<1>2. Head(toPublisher).tag \in Nat
  BY <1>1, Taken
<1> QED
  BY <1>2 DEF HandleConfirm, HandleAck, HandleNack

\* Every step keeps the numbers noted: what leaves the set is over for.
LEMMA NotedIsKept ==
    ASSUME CountInv, OrderInv, NotedInv, [Next]_vars
    PROVE  NotedInv'
<1> USE RabbitConfirmAssumption
<1>0. /\ toBroker \in Seq(Messages) /\ toPublisher \in Seq(Confirms)
      /\ \A e \in Messages : e.tag \in Nat
      /\ \A e \in Confirms : e.tag \in Nat
      /\ \A c \in settled : c.tag \in Nat
      /\ seqNo \in Nat \ {0} /\ outages \in Nat
  BY DEF CountInv, TypeOK, Messages, Confirms, Tags, Msgs
<1>1. CASE UNCHANGED <<toBroker, settled, unconfirmedSet, outages>> /\ pc' # "publish"
  BY <1>1 DEF NotedInv, IsNoted
<1>2. CASE UNCHANGED vars
  BY <1>2 DEF NotedInv, IsNoted, vars, publisherVars, brokerVars
<1>3. CASE Add
  BY <1>3 DEF Add, NotedInv, IsNoted, brokerVars
<1>4. CASE Publish
  <2>1. CASE ~up
    BY <1>1, <1>4, <2>1 DEF Publish, brokerVars
  <2>2. CASE up
    <3> DEFINE e == [tag |-> seqNo, msg |-> i]
    <3>1. e \in Messages /\ IsNoted(e.tag)
      BY <1>4 DEF Messages, CountInv, TypeOK, Tags, Msgs, Publish, NotedInv
    <3>2. /\ toBroker' = Append(toBroker, e) /\ pc' # "publish"
          /\ UNCHANGED <<settled, unconfirmedSet, outages>>
      BY <1>4, <2>2 DEF Publish, brokerVars
    <3>3. \A k \in DOMAIN toBroker' : IF k \in DOMAIN toBroker
                                      THEN toBroker'[k] = toBroker[k]
                                      ELSE toBroker'[k] = e
      BY <1>0, <3>1, <3>2, Appended
    <3> HIDE DEF e
    <3> QED
      BY <3>1, <3>2, <3>3 DEF NotedInv, IsNoted
  <2> QED
    BY <2>1, <2>2
<1>5. CASE HandleConfirm
  <2> DEFINE c == Head(toPublisher)
  <2>1. IsOverFor(c) /\ c.tag \in Nat
    BY <1>0, <1>5, Taken DEF HandleConfirm, OrderInv
  <2>2. UNCHANGED <<pc, seqNo, toBroker, settled, outages>>
    BY <1>5 DEF HandleConfirm, publisherVars, brokerVars
  <2>3. ASSUME NEW t \in Nat, IsNoted(t), t # c.tag /\ (c.multiple => c.tag < t)
        PROVE  IsNoted(t)'
    BY <1>5, <2>2, <2>3, ConfirmRemovesOnly DEF IsNoted
  <2>4. pc' = "publish" => IsNoted(seqNo)'
    BY <1>0, <2>1, <2>2, <2>3 DEF IsOverFor, NotedInv, IsNoted
  <2>5. \A k \in DOMAIN toBroker' : IsNoted(toBroker[k].tag)'
    <3> SUFFICES ASSUME NEW k \in DOMAIN toBroker
                 PROVE  IsNoted(toBroker[k].tag)'
      BY <2>2
    <3>1. toBroker[k].tag \in Nat /\ c.tag < toBroker[k].tag /\ IsNoted(toBroker[k].tag)
      BY <1>0, <2>1 DEF IsOverFor, NotedInv
    <3>2. toBroker[k].tag # c.tag
      BY <2>1, <3>1
    <3> QED
      BY <2>2, <2>3, <3>1, <3>2 DEF IsNoted
  <2>6. \A d \in settled' : IsNoted(d.tag)'
    <3> SUFFICES ASSUME NEW d \in settled
                 PROVE  IsNoted(d.tag)'
      BY <2>2 DEF IsNoted
    <3>1. /\ d.tag \in Nat /\ IsNoted(d.tag)
          /\ d.tag # c.tag /\ (c.multiple => c.tag < d.tag)
      BY <1>0, <2>1 DEF IsOverFor, NotedInv
    <3> QED
      BY <2>3, <3>1
  <2> QED
    BY <2>4, <2>5, <2>6 DEF NotedInv
<1>6. CASE BrokerTakes
  <2>1. PICK t \in {"ack", "nack"} :
           /\ settled' = settled \union {[type |-> t, tag |-> Head(toBroker).tag]}
           /\ toBroker # <<>> /\ toBroker' = Tail(toBroker)
           /\ UNCHANGED <<pc, seqNo, unconfirmedSet, outages>>
    BY <1>6 DEF BrokerTakes, publisherVars
  <2>2. IsNoted(Head(toBroker).tag)
    BY <1>0, <2>1, Taken DEF NotedInv
  <2>3. \A k \in DOMAIN toBroker' : k + 1 \in DOMAIN toBroker /\ toBroker'[k] = toBroker[k + 1]
    BY <1>0, <2>1, Taken
  <2> QED
    BY <2>1, <2>2, <2>3 DEF NotedInv, IsNoted
<1>7. CASE ConfirmOne \/ ConfirmMultiple
  <2>1. settled' \subseteq settled /\ UNCHANGED <<pc, seqNo, toBroker, unconfirmedSet, outages>>
    BY <1>7 DEF ConfirmOne, ConfirmMultiple, publisherVars
  <2> QED
    BY <2>1 DEF NotedInv, IsNoted
<1>8. CASE ConnectionBreaks
  BY <1>0, <1>8 DEF ConnectionBreaks, NotedInv, IsNoted, publisherVars
<1>9. CASE ConnectionRecovers
  BY <1>9 DEF ConnectionRecovers, OrderInv, NotedInv, IsNoted, brokerVars
<1> QED
  <2>1. CASE Close \/ StillWaiting \/ Ended
    BY <2>1, <1>1, <1>2 DEF Close, StillWaiting, Ended, brokerVars
  <2> QED
    BY <1>2, <1>3, <1>4, <1>5, <1>6, <1>7, <1>8, <1>9, <2>1 DEF Next, Publisher, Broker

-----------------------------------------------------------------------------
(* Without an outage.                                                       *)

\* Every message that main has published waits or has been decided about.
DecidedInv ==
    outages = 0 =>
        /\ seqNo = i + 1
        /\ \A k \in DOMAIN toBroker : toBroker[k].tag = toBroker[k].msg + 1
        /\ \A m \in 0 .. i - 1 : \/ m \in taken \union refused
                                 \/ \E k \in DOMAIN toBroker : toBroker[k].msg = m
        /\ pc \in {"wait", "closed"} => i = N

\* Every step keeps account of what main has published.
LEMMA DecidedIsKept ==
    ASSUME CountInv, OrderInv, DecidedInv, [Next]_vars
    PROVE  DecidedInv'
<1> USE RabbitConfirmAssumption
<1>0. /\ toBroker \in Seq(Messages) /\ i \in Nat /\ i <= N /\ outages \in Nat
      /\ \A e \in Messages : e.tag \in Nat /\ e.msg \in Nat
  BY DEF CountInv, TypeOK, Messages, Tags, Msgs
<1> SUFFICES ASSUME outages' = 0
             PROVE  DecidedInv'
  BY DEF DecidedInv
<1>1. CASE UNCHANGED <<pc, i, seqNo, toBroker, taken, refused, outages>>
  BY <1>1 DEF DecidedInv
<1>2. CASE Add
  BY <1>2 DEF Add, DecidedInv, brokerVars
<1>3. CASE Publish
  <2>1. /\ up /\ outages = 0
        /\ UNCHANGED <<taken, refused>>
    BY <1>3 DEF Publish, brokerVars, OrderInv
  <2> DEFINE e == [tag |-> seqNo, msg |-> i]
  <2>2. e \in Messages /\ i < N
    BY <1>3 DEF Messages, CountInv, TypeOK, Tags, Msgs, Publish
  <2>3. /\ toBroker' = Append(toBroker, e) /\ seqNo' = seqNo + 1 /\ i' = i + 1
        /\ pc' = IF i + 1 < N THEN "add" ELSE "wait"
    BY <1>3, <2>1 DEF Publish
  <2>4. e.tag = i + 1 /\ e.msg = i /\ seqNo = i + 1
    BY <2>1 DEF DecidedInv
  <2>5. /\ \A k \in DOMAIN toBroker' : IF k \in DOMAIN toBroker
                                       THEN toBroker'[k] = toBroker[k]
                                       ELSE toBroker'[k] = e
        /\ DOMAIN toBroker \subseteq DOMAIN toBroker'
        /\ \E k \in DOMAIN toBroker' : toBroker'[k] = e
    BY <1>0, <2>2, <2>3, Appended
  <2> HIDE DEF e
  <2>6. seqNo' = i' + 1 /\ (pc' \in {"wait", "closed"} => i' = N)
    BY <1>0, <2>2, <2>3, <2>4
  <2>7. \A k \in DOMAIN toBroker' : toBroker'[k].tag = toBroker'[k].msg + 1
    BY <2>1, <2>4, <2>5 DEF DecidedInv
  <2>8. ASSUME NEW m \in 0 .. i' - 1
        PROVE  \/ m \in taken' \union refused'
               \/ \E k \in DOMAIN toBroker' : toBroker'[k].msg = m
    <3>1. m = i \/ m \in 0 .. i - 1
      BY <1>0, <2>3
    <3> QED
      BY <2>1, <2>4, <2>5, <3>1 DEF DecidedInv
  <2> QED
    BY <2>6, <2>7, <2>8 DEF DecidedInv
<1>4. CASE Close
  BY <1>4 DEF Close, DecidedInv, brokerVars
<1>5. CASE BrokerTakes
  <2>1. /\ toBroker # <<>> /\ toBroker' = Tail(toBroker)
        /\ taken \union refused \subseteq taken' \union refused'
        /\ Head(toBroker).msg \in taken' \union refused'
        /\ UNCHANGED <<pc, i, seqNo, outages>>
    BY <1>5 DEF BrokerTakes, publisherVars
  <2>2. /\ Head(toBroker) = toBroker[1]
        /\ \A k \in DOMAIN toBroker' : k + 1 \in DOMAIN toBroker /\ toBroker'[k] = toBroker[k + 1]
        /\ \A k \in DOMAIN toBroker : k # 1 => k - 1 \in DOMAIN toBroker' /\ k \in Nat
    BY <1>0, <2>1, Taken
  <2>3. \A k \in DOMAIN toBroker : k # 1 => toBroker'[k - 1] = toBroker[k]
    BY <2>2
  <2>4. ASSUME NEW m \in 0 .. i - 1
        PROVE  \/ m \in taken' \union refused'
               \/ \E k \in DOMAIN toBroker' : toBroker'[k].msg = m
    <3>1. CASE m \in taken \union refused
      BY <2>1, <3>1
    <3>2. CASE m \notin taken \union refused
      <4>1. PICK k \in DOMAIN toBroker : toBroker[k].msg = m
        BY <2>1, <2>4, <3>2 DEF DecidedInv
      <4>2. CASE k = 1
        BY <2>1, <2>2, <4>1, <4>2
      <4>3. CASE k # 1
        BY <2>2, <2>3, <4>1, <4>3
      <4> QED
        BY <4>2, <4>3
    <3> QED
      BY <3>1, <3>2
  <2> QED
    BY <2>1, <2>2, <2>4 DEF DecidedInv
<1>6. CASE HandleConfirm \/ ConfirmOne \/ ConfirmMultiple \/ StillWaiting \/ Ended \/ UNCHANGED vars
  BY <1>1, <1>6 DEF HandleConfirm, ConfirmOne, ConfirmMultiple, StillWaiting, Ended, vars,
     publisherVars, brokerVars
<1>7. CASE ConnectionBreaks
  BY <1>0, <1>7 DEF ConnectionBreaks
<1>8. CASE ConnectionRecovers
  BY <1>0, <1>8 DEF ConnectionRecovers, OrderInv
<1> QED
  BY <1>2, <1>3, <1>4, <1>5, <1>6, <1>7, <1>8 DEF Next, Publisher, Broker

\* A confirm takes a number out of the set.
Covers(c, u) ==
    c.type = "ack" /\ (u = c.tag \/ (c.multiple /\ u <= c.tag))

\* A number in the set waits, is settled, is about to be confirmed or published, or was
\* refused.
IsJustified(u) ==
    \/ \E k \in DOMAIN toBroker : toBroker[k].tag = u
    \/ \E c \in settled : c.tag = u
    \/ \E k \in DOMAIN toPublisher : Covers(toPublisher[k], u)
    \/ u \in {m + 1 : m \in refused}
    \/ pc = "publish" /\ u = seqNo

\* Inductive: without an outage every number in the set has a reason to be there.
VainInv ==
    outages = 0 =>
        /\ \A c \in settled : c.type = "nack" => c.tag \in {m + 1 : m \in refused}
        /\ \A u \in unconfirmedSet : IsJustified(u)

\* Every step keeps the reason of each number that stays in the set.
LEMMA VainIsKept ==
    ASSUME CountInv, OrderInv, DecidedInv, VainInv, [Next]_vars
    PROVE  VainInv'
<1> USE RabbitConfirmAssumption
<1>0. /\ toBroker \in Seq(Messages) /\ toPublisher \in Seq(Confirms) /\ outages \in Nat
      /\ \A e \in Messages : e.tag \in Nat /\ e.msg \in Nat
      /\ \A e \in Confirms : e.tag \in Nat
      /\ \A c \in settled : c.tag \in Nat /\ c.type \in {"ack", "nack"}
      /\ unconfirmedSet \subseteq Nat
  BY DEF CountInv, TypeOK, Messages, Confirms, Tags, Msgs
<1> SUFFICES ASSUME outages' = 0
             PROVE  VainInv'
  BY DEF VainInv
<1>1. CASE UNCHANGED <<pc, seqNo, toBroker, settled, toPublisher, unconfirmedSet, refused, outages>>
  BY <1>1 DEF VainInv, IsJustified
<1>2. CASE Add
  BY <1>2 DEF Add, VainInv, IsJustified, brokerVars
<1>3. CASE Publish
  <2>1. /\ up /\ outages = 0
        /\ UNCHANGED <<unconfirmedSet, settled, toPublisher, refused>>
    BY <1>3 DEF Publish, brokerVars, OrderInv
  <2> DEFINE e == [tag |-> seqNo, msg |-> i]
  <2>2. e \in Messages
    BY <1>3 DEF Messages, CountInv, TypeOK, Tags, Msgs, Publish
  <2>3. toBroker' = Append(toBroker, e) /\ e.tag = seqNo
    BY <1>3, <2>1 DEF Publish
  <2>4. /\ \A k \in DOMAIN toBroker : k \in DOMAIN toBroker' /\ toBroker'[k] = toBroker[k]
        /\ \E k \in DOMAIN toBroker' : toBroker'[k] = e
    BY <1>0, <2>2, <2>3, Appended
  <2> HIDE DEF e
  <2>5. ASSUME NEW u \in unconfirmedSet
        PROVE  IsJustified(u)'
    BY <2>1, <2>3, <2>4 DEF VainInv, IsJustified
  <2> QED
    BY <2>1, <2>5 DEF VainInv
<1>4. CASE Close
  BY <1>4 DEF Close, VainInv, brokerVars
<1>5. CASE HandleConfirm
  <2> DEFINE c == Head(toPublisher)
  <2>1. /\ toPublisher # <<>> /\ toPublisher' = Tail(toPublisher)
        /\ UNCHANGED <<pc, seqNo, toBroker, settled, refused, outages>>
    BY <1>5 DEF HandleConfirm, publisherVars, brokerVars
  <2>2. /\ c = toPublisher[1] /\ c.tag \in Nat
        /\ \A k \in DOMAIN toPublisher : k # 1 => k - 1 \in DOMAIN toPublisher' /\ k \in Nat
        /\ \A k \in DOMAIN toPublisher' : toPublisher'[k] = toPublisher[k + 1]
    BY <1>0, <2>1, Taken
  <2>3. \A k \in DOMAIN toPublisher : k # 1 => toPublisher'[k - 1] = toPublisher[k]
    BY <2>2
  <2>4. unconfirmedSet' \subseteq unconfirmedSet
    BY <1>5 DEF HandleConfirm, HandleAck, HandleNack
  <2>5. ASSUME NEW u \in unconfirmedSet'
        PROVE  ~Covers(c, u)
    <3>1. CASE c.type = "ack"
      <4>1. toPublisher \in Seq(Confirms)
        BY DEF CountInv, TypeOK, Confirms
      <4>2. c \in Confirms
        BY <2>1, <4>1
      <4>3. c.multiple \in BOOLEAN
        BY <4>2 DEF Confirms
      <4>4. HandleAck(c.tag, c.multiple)
        BY <1>5, <3>1 DEF HandleConfirm
      <4>5. unconfirmedSet' = IF c.multiple THEN {x \in unconfirmedSet : x >= c.tag + 1}
                              ELSE unconfirmedSet \ {c.tag}
        BY <4>4 DEF HandleAck
      <4>6. u \in Nat
        BY <2>4 DEF CountInv, TypeOK, Tags
      <4>7. CASE c.multiple
        <5>1. u >= c.tag + 1
          BY <4>7, <4>5
        <5> QED
          BY <2>2, <4>7, <4>6, <5>1 DEF Covers
      <4>8. CASE ~c.multiple
        BY <2>2, <4>8, <4>5, <4>6 DEF Covers
      <4> QED
        BY <4>7, <4>8
    <3>2. CASE c.type # "ack"
      BY <3>2 DEF Covers
    <3> QED
      BY <3>1, <3>2
  <2>6. ASSUME NEW u \in unconfirmedSet'
        PROVE  IsJustified(u)'
    <3>1. IsJustified(u)
      BY <2>1, <2>4 DEF VainInv
    <3>2. CASE \E k \in DOMAIN toPublisher : Covers(toPublisher[k], u)
      <4>1. PICK k \in DOMAIN toPublisher : Covers(toPublisher[k], u)
        BY <3>2
      <4>2. k # 1
        BY <2>2, <2>5, <4>1
      <4>3. k - 1 \in DOMAIN toPublisher' /\ Covers(toPublisher'[k - 1], u)
        BY <2>2, <2>3, <4>1, <4>2
      <4> QED
        BY <4>3 DEF IsJustified, Covers
    <3>3. CASE ~\E k \in DOMAIN toPublisher : Covers(toPublisher[k], u)
      BY <2>1, <3>1, <3>3 DEF IsJustified
    <3> QED
      BY <3>2, <3>3
  <2> QED
    BY <2>1, <2>6 DEF VainInv
<1>6. CASE BrokerTakes
  <2>1. PICK t \in {"ack", "nack"} :
           /\ settled' = settled \union {[type |-> t, tag |-> Head(toBroker).tag]}
           /\ toBroker # <<>> /\ toBroker' = Tail(toBroker)
           /\ refused \subseteq refused'
           /\ t = "nack" => Head(toBroker).msg \in refused'
           /\ UNCHANGED <<pc, seqNo, unconfirmedSet, toPublisher, outages>>
    BY <1>6 DEF BrokerTakes, publisherVars
  <2> DEFINE c == [type |-> t, tag |-> Head(toBroker).tag]
  <2>2. /\ Head(toBroker) = toBroker[1] /\ 1 \in DOMAIN toBroker
        /\ \A k \in DOMAIN toBroker : k # 1 => k - 1 \in DOMAIN toBroker' /\ k \in Nat
        /\ \A k \in DOMAIN toBroker' : toBroker'[k] = toBroker[k + 1]
    BY <1>0, <2>1, Taken
  <2>3. \A k \in DOMAIN toBroker : k # 1 => toBroker'[k - 1] = toBroker[k]
    BY <2>2
  <2>4. /\ Head(toBroker).tag = Head(toBroker).msg + 1
        /\ c.tag = Head(toBroker).tag /\ c.type = t
    BY <2>1, <2>2 DEF DecidedInv
  <2>5. settled' = settled \union {c}
    BY <2>1
  <2> HIDE DEF c
  <2>6. \A d \in settled' : d.type = "nack" => d.tag \in {m + 1 : m \in refused'}
    BY <2>1, <2>4, <2>5 DEF VainInv
  <2>7. ASSUME NEW u \in unconfirmedSet'
        PROVE  IsJustified(u)'
    <3>1. IsJustified(u)
      BY <2>1 DEF VainInv
    <3>2. CASE \E k \in DOMAIN toBroker : toBroker[k].tag = u
      <4>1. PICK k \in DOMAIN toBroker : toBroker[k].tag = u
        BY <3>2
      <4>2. CASE k = 1
        BY <2>2, <2>4, <2>5, <4>1, <4>2 DEF IsJustified
      <4>3. CASE k # 1
        BY <2>2, <2>3, <4>1, <4>3 DEF IsJustified
      <4> QED
        BY <4>2, <4>3
    <3>3. CASE ~\E k \in DOMAIN toBroker : toBroker[k].tag = u
      BY <2>1, <2>5, <3>1, <3>3 DEF IsJustified
    <3> QED
      BY <3>2, <3>3
  <2> QED
    BY <2>6, <2>7 DEF VainInv
<1>7. CASE ConfirmOne \/ ConfirmMultiple
  <2>1. PICK c \in settled, m \in BOOLEAN :
           /\ settled' \subseteq settled
           /\ \A d \in settled : d \notin settled' =>
                 d.type = c.type /\ (d = c \/ (m /\ d.tag <= c.tag))
           /\ toPublisher' = Append(toPublisher, [type |-> c.type, tag |-> c.tag,
                                                  multiple |-> m])
           /\ UNCHANGED <<pc, seqNo, unconfirmedSet, toBroker, refused, outages>>
    <3>1. CASE ConfirmOne
      BY <3>1 DEF ConfirmOne, publisherVars
    <3>2. CASE ConfirmMultiple
      <4>1. PICK c \in settled :
               /\ \A d \in settled : d.tag <= c.tag => d.type = c.type
               /\ settled' = settled \ {d \in settled : d.tag <= c.tag}
               /\ toPublisher' = Append(toPublisher, [type |-> c.type, tag |-> c.tag,
                                                      multiple |-> TRUE])
        BY <3>2 DEF ConfirmMultiple
      <4>2. UNCHANGED <<pc, seqNo, unconfirmedSet, toBroker, refused, outages>>
        BY <3>2 DEF ConfirmMultiple, publisherVars
      <4>3. /\ settled' \subseteq settled /\ TRUE \in BOOLEAN
            /\ \A d \in settled : d \notin settled' => d.type = c.type /\ d.tag <= c.tag
        BY <4>1
      <4> QED
        BY <4>1, <4>2, <4>3
    <3> QED
      BY <1>7, <3>1, <3>2
  <2> DEFINE e == [type |-> c.type, tag |-> c.tag, multiple |-> m]
  <2>2. e \in Confirms /\ e.type = c.type /\ e.tag = c.tag /\ e.multiple = m
    BY <1>0 DEF Confirms, CountInv, TypeOK
  <2>3. toPublisher' = Append(toPublisher, e)
    BY <2>1
  <2> HIDE DEF e
  <2>4. /\ \A k \in DOMAIN toPublisher : k \in DOMAIN toPublisher'
                                         /\ toPublisher'[k] = toPublisher[k]
        /\ \E k \in DOMAIN toPublisher' : toPublisher'[k] = e
    BY <1>0, <2>2, <2>3, Appended
  <2>5. \A d \in settled' : d.type = "nack" => d.tag \in {n + 1 : n \in refused'}
    BY <2>1 DEF VainInv
  <2>6. ASSUME NEW u \in unconfirmedSet'
        PROVE  IsJustified(u)'
    <3>1. IsJustified(u)
      BY <2>1 DEF VainInv
    <3>2. CASE \E d \in settled : d.tag = u
      <4>1. PICK d \in settled : d.tag = u
        BY <3>2
      <4>2. CASE d \in settled'
        BY <4>1, <4>2 DEF IsJustified
      <4>3. CASE d \notin settled' /\ d.type = "nack"
        BY <2>1, <4>1, <4>3 DEF VainInv, IsJustified
      <4>4. CASE d \notin settled' /\ d.type # "nack"
        <5>1. c.type = "ack" /\ (d = c \/ (m /\ d.tag <= c.tag))
          BY <1>0, <2>1, <4>4
        <5>2. Covers(e, u)
          BY <2>2, <4>1, <5>1 DEF Covers
        <5> QED
          BY <2>4, <5>2 DEF IsJustified, Covers
      <4> QED
        BY <4>2, <4>3, <4>4
    <3>3. CASE ~\E d \in settled : d.tag = u
      BY <2>1, <2>4, <3>1, <3>3 DEF IsJustified, Covers
    <3> QED
      BY <3>2, <3>3
  <2> QED
    BY <2>5, <2>6 DEF VainInv
<1>8. CASE StillWaiting \/ Ended \/ UNCHANGED vars
  BY <1>1, <1>8 DEF StillWaiting, Ended, vars, publisherVars, brokerVars
<1>9. CASE ConnectionBreaks
  BY <1>0, <1>9 DEF ConnectionBreaks
<1>10. CASE ConnectionRecovers
  BY <1>0, <1>10 DEF ConnectionRecovers, OrderInv
<1> QED
  BY <1>2, <1>3, <1>4, <1>5, <1>6, <1>7, <1>8, <1>9, <1>10 DEF Next, Publisher, Broker

-----------------------------------------------------------------------------
(* What the set and its emptiness say.                                      *)

\* The inductive invariant.
ConfirmInv ==
    CountInv /\ OrderInv /\ NotedInv /\ DecidedInv /\ VainInv /\ ClosedMeansDecided

\* main finds the set empty when nothing waits, that is, when all is decided.
LEMMA DecidedWhenClosed ==
    ASSUME CountInv, NotedInv, DecidedInv, ClosedMeansDecided, [Next]_vars, TypeOK'
    PROVE  ClosedMeansDecided'
<1>1. CASE Close /\ outages = 0
  <2>1. toBroker = <<>> \/ DOMAIN toBroker = {}
    <3>1. \A k \in DOMAIN toBroker : FALSE
      BY <1>1 DEF Close, NotedInv, IsNoted
    <3> QED
      BY <3>1
  <2>2. i = N /\ \A m \in 0 .. i - 1 : m \in taken \union refused
    BY <1>1, <2>1 DEF Close, DecidedInv
  <2>3. taken \union refused = Msgs
    BY <2>2 DEF CountInv, TypeOK, Msgs
  <2> QED
    BY <1>1, <2>3 DEF Close, ClosedMeansDecided, brokerVars
<1>2. CASE ~(Close /\ outages = 0)
  <2>1. \/ pc' # "closed" \/ outages' # 0
        \/ pc = "closed" /\ outages = 0 /\ taken \subseteq taken' /\ refused \subseteq refused'
    BY <1>2, RabbitConfirmAssumption
    DEF Next, Publisher, Broker, Add, Publish, Close, HandleConfirm, BrokerTakes, ConfirmOne,
        ConfirmMultiple, ConnectionBreaks, ConnectionRecovers, StillWaiting, Ended, vars,
        publisherVars, brokerVars, CountInv, TypeOK
  <2> QED
    BY <2>1 DEF ClosedMeansDecided, TypeOK
<1> QED
  BY <1>1, <1>2

\* The invariant holds for any messages, outages and refusals.
LEMMA ConfirmInvHolds == Spec => []ConfirmInv
<1>1. Init => OrderInv /\ NotedInv /\ DecidedInv /\ VainInv /\ ClosedMeansDecided
  BY RabbitConfirmAssumption
  DEF Init, OrderInv, NotedInv, DecidedInv, VainInv, ClosedMeansDecided
<1>2. CountInv /\ CountInv' /\ ConfirmInv /\ [Next]_vars => ConfirmInv'
  BY OrderIsKept, NotedIsKept, DecidedIsKept, VainIsKept, DecidedWhenClosed
  DEF ConfirmInv, CountInv
<1>3. Init /\ CountInv => ConfirmInv
  BY <1>1 DEF ConfirmInv
<1> QED
  BY <1>2, <1>3, ConfirmTypeCorrect, PTL DEF Spec

\* EmitLogTopic closes only when the broker has decided about every message, as long as
\* the connection holds.
THEOREM ClosingMeansDecided == Spec => []ClosedMeansDecided
<1>1. ConfirmInv => ClosedMeansDecided
  BY DEF ConfirmInv
<1> QED
  BY <1>1, ConfirmInvHolds, PTL

\* The set holds what the broker has not confirmed, but for one message of a recovered
\* channel; and without an outage nothing else but refused messages and the one that
\* is being published.
THEOREM SetIsExact == Spec => []UnconfirmedSetIsExact
<1>1. ConfirmInv => UnconfirmedSetIsExact
  <2> SUFFICES ASSUME ConfirmInv
               PROVE  UnconfirmedSetIsExact
    OBVIOUS
  <2> USE DEF ConfirmInv
  <2>1. \A t \in AtBroker : IsNoted(t)
    BY DEF AtBroker, NotedInv
  <2>2. CASE outages = 0
    <3>1. AtBroker \ unconfirmedSet = {}
      BY <2>1, <2>2 DEF IsNoted
    <3>2. Cardinality(AtBroker \ unconfirmedSet) = 0
      BY <3>1, FS_EmptySet
    <3>3. ASSUME NEW u \in unconfirmedSet, u \notin AtBroker, u \notin Confirming
          PROVE  u \in {m + 1 : m \in refused} \union (IF pc = "publish" THEN {seqNo} ELSE {})
      <4>1. IsJustified(u)
        BY <2>2, <3>3 DEF VainInv
      <4>2. ASSUME NEW k \in DOMAIN toPublisher, Covers(toPublisher[k], u)
            PROVE  FALSE
        <5> DEFINE c == toPublisher[k]
        <5>1. u \in Nat /\ u >= 1
          BY DEF CountInv, TypeOK, Tags
        <5>2. toPublisher \in Seq(Confirms)
          BY DEF CountInv, TypeOK, Confirms
        <5>3. c \in Confirms
          BY <5>2
        <5>4. c.tag \in Nat
          BY <5>3 DEF Confirms, Tags
        <5>5. u \in (IF c.multiple THEN 1 .. c.tag ELSE {c.tag})
          BY <4>2, <5>1, <5>4 DEF Covers
        <5> QED
          BY <3>3, <5>5 DEF Confirming
      <4> QED
        BY <3>3, <4>1, <4>2 DEF IsJustified, AtBroker
    <3> QED
      BY <2>2, <3>2, <3>3 DEF UnconfirmedSetIsExact
  <2>3. CASE outages # 0
    <3>1. AtBroker \ unconfirmedSet \subseteq {1}
      BY <2>1 DEF IsNoted
    <3>2. AtBroker \ unconfirmedSet = {} \/ AtBroker \ unconfirmedSet = {1}
      BY <3>1
    <3>3. Cardinality({}) = 0 /\ Cardinality({1}) = 1
      BY FS_EmptySet, FS_Singleton
    <3>4. Cardinality(AtBroker \ unconfirmedSet) <= 1
      BY <3>2, <3>3
    <3> QED
      BY <2>3, <3>4 DEF UnconfirmedSetIsExact
  <2> QED
    BY <2>2, <2>3
<1> QED
  BY <1>1, ConfirmInvHolds, PTL

-----------------------------------------------------------------------------
(* The part of SenderLearnsOutcome that needs no fairness.                  *)

\* The steps main has left: four for each message and the end.
MainSteps == 5 * (N - i) + (CASE pc = "publish" -> 1
                              [] pc \in {"add", "wait"} -> 2
                              [] OTHER -> 0)

\* The steps the broker and the listener have left for what is under way.
ConfirmSteps == 3 * Len(toBroker) + 2 * Cardinality(settled) + Len(toPublisher)

\* The steps the connection has left.
LineSteps == 2 * (MaxOutages - outages) + (IF up THEN 0 ELSE 1)

\* All steps that are left, at most.
Remaining == MainSteps + ConfirmSteps + LineSteps

\* main, the broker or the listener has something to do.
SomethingToDo ==
    \/ pc \in {"add", "publish"}
    \/ pc = "wait" /\ unconfirmedSet = {}
    \/ toBroker # <<>> \/ settled # {} \/ toPublisher # <<>>

\* Inductive: the sets are finite, and the connection was not broken for nothing.
LineInv == /\ IsFiniteSet(settled)
           /\ ~up => outages # 0
           /\ pc = "failed" => outages # 0

\* LineInv holds: what counts the steps to come is a number.
LEMMA LineInvHolds == Spec => []LineInv
<1>1. Init => LineInv
  BY FS_EmptySet DEF Init, LineInv
<1>2. CountInv /\ LineInv /\ [Next]_vars => LineInv'
  <2> SUFFICES ASSUME CountInv, LineInv, [Next]_vars
               PROVE  LineInv'
    OBVIOUS
  <2>1. \/ settled' \subseteq settled
        \/ \E t : settled' = settled \union {t}
    BY DEF Next, Publisher, Broker, Add, Publish, Close, HandleConfirm, BrokerTakes,
           ConfirmOne, ConfirmMultiple, ConnectionBreaks, ConnectionRecovers, StillWaiting,
           Ended, vars, publisherVars, brokerVars
  <2>2. IsFiniteSet(settled')
    BY <2>1, FS_Subset, FS_AddElement DEF LineInv
  <2>3. (~up' => outages' # 0) /\ (pc' = "failed" => outages' # 0)
    BY RabbitConfirmAssumption
    DEF Next, Publisher, Broker, Add, Publish, Close, HandleConfirm, BrokerTakes,
        ConfirmOne, ConfirmMultiple, ConnectionBreaks, ConnectionRecovers, StillWaiting,
        Ended, vars, publisherVars, brokerVars, LineInv, CountInv, TypeOK
  <2> QED
    BY <2>2, <2>3 DEF LineInv
<1> QED
  BY <1>1, <1>2, ConfirmTypeCorrect, PTL DEF Spec

\* The steps left are numbers.
LEMMA StepsAreNumbers ==
    ASSUME CountInv, LineInv
    PROVE  /\ i \in Nat /\ N - i \in Nat /\ outages \in Nat /\ MaxOutages - outages \in Nat
           /\ N \in Nat /\ MaxOutages \in Nat
           /\ Len(toBroker) \in Nat /\ Len(toPublisher) \in Nat /\ Cardinality(settled) \in Nat
           /\ MainSteps \in Nat /\ ConfirmSteps \in Nat /\ LineSteps \in Nat
<1>1. /\ i \in 0 .. N /\ outages \in 0 .. MaxOutages /\ N \in Nat /\ MaxOutages \in Nat
      /\ Len(toBroker) \in Nat /\ Len(toPublisher) \in Nat
  BY RabbitConfirmAssumption DEF CountInv, TypeOK
<1>2. Cardinality(settled) \in Nat
  BY FS_CardinalityType DEF LineInv
<1>3. MainSteps \in Nat
  BY <1>1 DEF MainSteps, CountInv, TypeOK
<1>4. ConfirmSteps \in Nat
  BY <1>1, <1>2 DEF ConfirmSteps
<1>5. LineSteps \in Nat
  BY <1>1 DEF LineSteps
<1> QED
  BY <1>1, <1>2, <1>3, <1>4, <1>5

\* Fewer of one and no more of the others is fewer.
LEMMA FewerInSum ==
    ASSUME NEW a \in Nat, NEW b \in Nat, NEW c \in Nat,
           NEW x \in Nat, NEW y \in Nat, NEW z \in Nat,
           x <= a, y <= b, z <= c, x < a \/ y < b \/ z < c
    PROVE  x + y + z < a + b + c
OBVIOUS

\* A step of main: with a message on its way, there is one less to send.
LEMMA PublisherIsCloser ==
    ASSUME CountInv, LineInv, Publisher
    PROVE  Remaining' < Remaining
<1>0. /\ i \in Nat /\ N - i \in Nat /\ outages \in Nat /\ MaxOutages - outages \in Nat
      /\ N \in Nat /\ MaxOutages \in Nat
      /\ Len(toBroker) \in Nat /\ Len(toPublisher) \in Nat /\ Cardinality(settled) \in Nat
      /\ MainSteps \in Nat /\ ConfirmSteps \in Nat /\ LineSteps \in Nat
  BY StepsAreNumbers
<1> USE <1>0
<1>1. ASSUME UNCHANGED <<i, toBroker, settled, toPublisher, up, outages>>,
             MainSteps' < MainSteps, MainSteps' \in Nat
      PROVE  Remaining' < Remaining
  <2>1. ConfirmSteps' = ConfirmSteps /\ LineSteps' = LineSteps
    BY <1>1 DEF ConfirmSteps, LineSteps
  <2>2. ConfirmSteps <= ConfirmSteps /\ LineSteps <= LineSteps /\ MainSteps' <= MainSteps
    BY <1>1
  <2>3. Remaining' = MainSteps' + ConfirmSteps + LineSteps
    BY <2>1 DEF Remaining
  <2> QED
    BY <1>1, <2>2, <2>3, FewerInSum DEF Remaining
<1>2. CASE Add
  BY <1>1, <1>2 DEF Add, MainSteps, brokerVars
<1>3. CASE Publish /\ up
  <2>1. /\ i' = i + 1 /\ pc = "publish" /\ pc' \in {"add", "wait"}
        /\ toBroker' = Append(toBroker, [tag |-> seqNo, msg |-> i])
        /\ UNCHANGED <<settled, toPublisher, up, outages>>
    BY <1>3 DEF Publish, brokerVars
  <2>2. Len(toBroker') = Len(toBroker) + 1
    BY <2>1 DEF CountInv, TypeOK
  <2>3. MainSteps' = MainSteps - 4
    <3>1. MainSteps = 5 * (N - i) + 1 /\ MainSteps' = 5 * (N - (i + 1)) + 2
      BY <2>1 DEF MainSteps
    <3> QED
      BY <3>1
  <2>4. ConfirmSteps' = ConfirmSteps + 3 /\ LineSteps' = LineSteps
    BY <2>1, <2>2 DEF ConfirmSteps, LineSteps
  <2>5. Remaining' = (MainSteps - 4) + (ConfirmSteps + 3) + LineSteps
    BY <2>3, <2>4 DEF Remaining
  <2> QED
    BY <2>5 DEF Remaining
<1>4. CASE Publish /\ ~up
  BY <1>1, <1>4 DEF Publish, MainSteps, brokerVars
<1>5. CASE Close
  BY <1>1, <1>5 DEF Close, MainSteps, brokerVars
<1> QED
  BY <1>2, <1>3, <1>4, <1>5 DEF Publisher

\* A step of the broker or the listener: a message or a confirm is one station further.
LEMMA ConfirmsAreCloser ==
    ASSUME CountInv, LineInv, Broker \/ HandleConfirm
    PROVE  Remaining' < Remaining
<1>0. /\ i \in Nat /\ N - i \in Nat /\ outages \in Nat /\ MaxOutages - outages \in Nat
      /\ N \in Nat /\ MaxOutages \in Nat
      /\ Len(toBroker) \in Nat /\ Len(toPublisher) \in Nat /\ Cardinality(settled) \in Nat
      /\ MainSteps \in Nat /\ ConfirmSteps \in Nat /\ LineSteps \in Nat
  BY StepsAreNumbers
<1> USE <1>0
<1>1. UNCHANGED <<i, pc, up, outages>>
  BY DEF Broker, HandleConfirm, BrokerTakes, ConfirmOne, ConfirmMultiple, publisherVars
<1>2. MainSteps' = MainSteps /\ LineSteps' = LineSteps
  BY <1>1 DEF MainSteps, LineSteps
<1>3. SUFFICES ConfirmSteps' \in Nat /\ ConfirmSteps' < ConfirmSteps
  <2>1. Remaining' = MainSteps + ConfirmSteps' + LineSteps
    BY <1>2 DEF Remaining
  <2>2. MainSteps <= MainSteps /\ LineSteps <= LineSteps
    OBVIOUS
  <2>3. ConfirmSteps' <= ConfirmSteps
    BY <1>3
  <2> QED
    BY <1>3, <2>1, <2>2, <2>3, FewerInSum DEF Remaining
<1>4. toBroker \in Seq(Messages) /\ toPublisher \in Seq(Confirms)
  BY DEF CountInv, TypeOK, Messages, Confirms
<1>5. IsFiniteSet(settled)
  BY DEF LineInv
<1>6. CASE BrokerTakes
  <2>1. PICK t : settled' = settled \union {t}
    BY <1>6 DEF BrokerTakes
  <2>2. Cardinality(settled') \in {Cardinality(settled), Cardinality(settled) + 1}
    BY <1>5, <2>1, FS_AddElement
  <2>3. toBroker # <<>> /\ toBroker' = Tail(toBroker) /\ toPublisher' = toPublisher
    BY <1>6 DEF BrokerTakes
  <2>4. Len(toBroker') = Len(toBroker) - 1 /\ Len(toBroker) >= 1
    BY <1>4, <2>3
  <2> QED
    BY <2>2, <2>3, <2>4 DEF ConfirmSteps
<1>7. ASSUME NEW S, S \subseteq settled, S # {}, settled' = settled \ S,
             NEW c, toPublisher' = Append(toPublisher, c), toBroker' = toBroker
      PROVE  ConfirmSteps' \in Nat /\ ConfirmSteps' < ConfirmSteps
  <2>1. settled' \in SUBSET settled /\ settled' # settled
    BY <1>7
  <2>2. /\ Cardinality(settled') <= Cardinality(settled)
        /\ Cardinality(settled') # Cardinality(settled) /\ IsFiniteSet(settled')
    BY <1>5, <2>1, FS_Subset
  <2>3. Cardinality(settled') \in Nat
    BY <2>2, FS_CardinalityType
  <2>4. Len(toPublisher') = Len(toPublisher) + 1
    BY <1>4, <1>7
  <2> QED
    BY <1>7, <2>2, <2>3, <2>4 DEF ConfirmSteps
<1>8. CASE ConfirmOne
  <2>1. PICK c \in settled :
             /\ settled' = settled \ {c}
             /\ toPublisher' = Append(toPublisher, [type |-> c.type, tag |-> c.tag,
                                                    multiple |-> FALSE])
    BY <1>8 DEF ConfirmOne
  <2>2. toBroker' = toBroker /\ {c} \subseteq settled /\ {c} # {}
    BY <1>8 DEF ConfirmOne
  <2> QED
    BY <1>7, <2>1, <2>2
<1>9. CASE ConfirmMultiple
  <2>1. PICK c \in settled :
             /\ settled' = settled \ {d \in settled : d.tag <= c.tag}
             /\ toPublisher' = Append(toPublisher, [type |-> c.type, tag |-> c.tag,
                                                    multiple |-> TRUE])
    BY <1>9 DEF ConfirmMultiple
  <2>2. c.tag \in Nat
    BY DEF CountInv, TypeOK, Tags
  <2> DEFINE S == {d \in settled : d.tag <= c.tag}
  <2>3. toBroker' = toBroker /\ S \subseteq settled /\ c \in S
    BY <1>9, <2>2 DEF ConfirmMultiple
  <2> HIDE DEF S
  <2>4. settled' = settled \ S
    BY <2>1 DEF S
  <2> QED
    BY <1>7, <2>1, <2>3, <2>4
<1>10. CASE HandleConfirm
  <2>1. toPublisher # <<>> /\ toPublisher' = Tail(toPublisher) /\ UNCHANGED <<toBroker, settled>>
    BY <1>10 DEF HandleConfirm, brokerVars
  <2>2. Len(toPublisher') = Len(toPublisher) - 1 /\ Len(toPublisher) >= 1
    BY <1>4, <2>1
  <2> QED
    BY <2>1, <2>2 DEF ConfirmSteps
<1> QED
  BY <1>6, <1>8, <1>9, <1>10 DEF Broker

\* The connection breaks so often and recovers every time.
LEMMA LineIsCloser ==
    ASSUME CountInv, LineInv, ConnectionBreaks \/ ConnectionRecovers
    PROVE  Remaining' < Remaining
<1>0. /\ i \in Nat /\ N - i \in Nat /\ outages \in Nat /\ MaxOutages - outages \in Nat
      /\ N \in Nat /\ MaxOutages \in Nat
      /\ Len(toBroker) \in Nat /\ Len(toPublisher) \in Nat /\ Cardinality(settled) \in Nat
      /\ MainSteps \in Nat /\ ConfirmSteps \in Nat /\ LineSteps \in Nat
  BY StepsAreNumbers
<1> USE <1>0
<1>1. UNCHANGED <<i, pc>>
  BY DEF ConnectionBreaks, ConnectionRecovers, publisherVars
<1>2. MainSteps' = MainSteps
  BY <1>1 DEF MainSteps
<1>3. LineSteps' \in Nat /\ LineSteps' < LineSteps
  BY DEF ConnectionBreaks, ConnectionRecovers, LineSteps
<1>4. ConfirmSteps' \in Nat /\ ConfirmSteps' <= ConfirmSteps
  <2>1. CASE ConnectionBreaks
    <3>1. toBroker' = <<>> /\ settled' = {} /\ toPublisher' = <<>>
      BY <2>1 DEF ConnectionBreaks
    <3>2. Len(toBroker') = 0 /\ Len(toPublisher') = 0 /\ Cardinality(settled') = 0
      BY <3>1, FS_EmptySet
    <3> QED
      BY <3>2 DEF ConfirmSteps
  <2>2. CASE ConnectionRecovers
    BY <2>2 DEF ConnectionRecovers, brokerVars, ConfirmSteps
  <2> QED
    BY <2>1, <2>2
<1>5. Remaining' = MainSteps + ConfirmSteps' + LineSteps'
  BY <1>2 DEF Remaining
<1>6. MainSteps <= MainSteps /\ LineSteps' <= LineSteps
  BY <1>3
<1> QED
  BY <1>3, <1>4, <1>5, <1>6, FewerInSum DEF Remaining

\* Every step of main, the broker, the listener and the connection leaves fewer to come,
\* whatever is refused and however often the connection breaks: from some moment on main
\* has ended or goes round in its loop, with nothing under way.
THEOREM ConfirmRunsEnd ==
    Spec => [](Remaining \in Nat) /\ [][Remaining' < Remaining]_vars
<1>1. CountInv /\ LineInv => Remaining \in Nat
  BY StepsAreNumbers DEF Remaining
<1>2. CountInv /\ LineInv /\ [Next]_vars => [Remaining' < Remaining]_vars
  BY PublisherIsCloser, ConfirmsAreCloser, LineIsCloser
  DEF Next, StillWaiting, Ended, vars
<1> QED
  BY <1>1, <1>2, LineInvHolds, ConfirmTypeCorrect, PTL DEF Spec

\* What SenderLearnsOutcome needs besides fairness: without a refusal and an outage, until
\* main has closed the channel there is something to do for main, the broker or the
\* listener; in particular main never waits for a confirm that nobody will send.
THEOREM MainNeverWaitsInVain ==
    Spec => []((outages = 0 /\ refused = {} /\ pc # "closed") => SomethingToDo)
<1>1. CountInv /\ LineInv /\ UnconfirmedSetIsExact =>
         ((outages = 0 /\ refused = {} /\ pc # "closed") => SomethingToDo)
  <2> SUFFICES ASSUME CountInv, LineInv, UnconfirmedSetIsExact,
                      outages = 0, refused = {}, pc # "closed", ~SomethingToDo
               PROVE  FALSE
    OBVIOUS
  <2>1. /\ pc = "wait" /\ unconfirmedSet # {}
        /\ toBroker = <<>> /\ settled = {} /\ toPublisher = <<>>
    BY DEF SomethingToDo, LineInv, CountInv, TypeOK
  <2>2. AtBroker = {} /\ Confirming = {}
    BY <2>1 DEF AtBroker, Confirming
  <2> QED
    BY <2>1, <2>2 DEF UnconfirmedSetIsExact
<1> QED
  BY <1>1, LineInvHolds, ConfirmTypeCorrect, SetIsExact, PTL

=============================================================================
