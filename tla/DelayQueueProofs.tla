-------------------------- MODULE DelayQueueProofs --------------------------
(***************************************************************************)
(* Proofs about DelayQueue, for any number of messages: when the first one *)
(* leaves, that none is lost or overtaken, and that runs end.              *)
(***************************************************************************)
EXTENDS DelayQueue, SequenceTheorems, TLAPS

\* The message with the longest delay has left, and that delay was over then; or nothing
\* has left, and that message is the first of the queue or unpublished.
FirstInv ==
    \/ \E first \in Left : first.msg = N - 1 /\ first.sentAt + (N - 1) <= now
    \/ /\ expired = <<>> /\ consumed = <<>>
       /\ ddOrder = <<>> => i = N
       /\ ddOrder # <<>> => ddOrder[1].msg = N - 1

\* The inductive invariant.
DelayInv == TypeOK /\ FirstInv /\ HeldBackByTheFirst

\* What a queue with one more element holds.
LEMMA AppendedSet ==
    ASSUME NEW S, NEW s \in Seq(S), NEW e \in S
    PROVE  /\ Append(s, e) \in Seq(S) /\ Append(s, e) # <<>>
           /\ ToSet(Append(s, e)) = ToSet(s) \union {e}
           /\ Append(s, e)[1] = (IF s = <<>> THEN e ELSE s[1])
<1>1. /\ Append(s, e) \in Seq(S) /\ Append(s, e) # <<>>
      /\ DOMAIN Append(s, e) = DOMAIN s \union {Len(s) + 1}
      /\ \A k \in DOMAIN s : Append(s, e)[k] = s[k]
      /\ Append(s, e)[Len(s) + 1] = e
      /\ Append(s, e)[1] = (IF s = <<>> THEN e ELSE s[1])
  OBVIOUS
<1> QED
  BY <1>1 DEF ToSet

\* What a queue holds is its first element and what it holds without it.
LEMMA TakenSet ==
    ASSUME NEW S, NEW s \in Seq(S), s # <<>>
    PROVE  /\ Head(s) \in S /\ Head(s) = s[1] /\ Tail(s) \in Seq(S)
           /\ ToSet(s) = ToSet(Tail(s)) \union {Head(s)}
<1>1. /\ Head(s) \in S /\ Head(s) = s[1] /\ Tail(s) \in Seq(S) /\ 1 \in DOMAIN s
      /\ \A k \in DOMAIN Tail(s) : k + 1 \in DOMAIN s /\ Tail(s)[k] = s[k + 1]
      /\ \A k \in DOMAIN s : k # 1 => k - 1 \in DOMAIN Tail(s) /\ Tail(s)[k - 1] = s[k]
  OBVIOUS
<1>2. ToSet(Tail(s)) \union {Head(s)} \subseteq ToSet(s)
  BY <1>1 DEF ToSet
<1>3. ASSUME NEW k \in DOMAIN s
      PROVE  s[k] \in ToSet(Tail(s)) \union {Head(s)}
  <2>1. CASE k = 1
    BY <1>1, <2>1
  <2>2. CASE k # 1
    BY <1>1, <2>2 DEF ToSet
  <2> QED
    BY <2>1, <2>2
<1>4. ToSet(s) \subseteq ToSet(Tail(s)) \union {Head(s)}
  BY <1>3 DEF ToSet
<1> QED
  BY <1>1, <1>2, <1>4

\* The producer's first message is the one with the longest delay.
LEMMA PublishKeeps ==
    ASSUME DelayInv, Publish
    PROVE  DelayInv'
<1> USE DEF DelayInv
<1> DEFINE e == [msg |-> i - 1, sentAt |-> now]
<1>1. /\ i \in 1 .. N /\ i' = i - 1 /\ ddOrder' = Append(ddOrder, e)
      /\ UNCHANGED <<now, expired, consumed>> /\ ddOrder \in Seq(Waiting)
  BY DelayQueueAssumption DEF Publish, TypeOK
<1>2. e \in Waiting /\ e.msg = i - 1
  BY <1>1, DelayQueueAssumption DEF Waiting, TypeOK
<1> HIDE DEF e
<1>3. /\ ddOrder' \in Seq(Waiting) /\ ddOrder' # <<>>
      /\ ddOrder'[1] = (IF ddOrder = <<>> THEN e ELSE ddOrder[1])
  BY <1>1, <1>2, AppendedSet
<1>4. TypeOK'
  BY <1>1, <1>3, DelayQueueAssumption DEF TypeOK, MaxTime
<1>5. FirstInv'
  BY <1>1, <1>2, <1>3 DEF FirstInv, Left
<1>6. HeldBackByTheFirst'
  BY <1>1 DEF HeldBackByTheFirst, Left
<1> QED
  BY <1>4, <1>5, <1>6

\* The first message to leave leaves when the longest delay is over.
LEMMA DeadLetterKeeps ==
    ASSUME DelayInv, DeadLetter
    PROVE  DelayInv'
<1> USE DEF DelayInv
<1> DEFINE h == Head(ddOrder)
           e == [msg |-> h.msg, sentAt |-> h.sentAt, at |-> now]
<1>1. /\ ddOrder # <<>> /\ now >= h.sentAt + h.msg
      /\ expired' = Append(expired, e) /\ ddOrder' = Tail(ddOrder)
      /\ UNCHANGED <<now, i, consumed>>
      /\ ddOrder \in Seq(Waiting) /\ expired \in Seq(Expired)
  BY DEF DeadLetter, HeadIsDue, Expiration, TypeOK
<1>2. h \in Waiting /\ h = ddOrder[1] /\ ddOrder' \in Seq(Waiting)
  BY <1>1, TakenSet
<1>3. /\ h.msg \in 0 .. N - 1 /\ h.sentAt \in 0 .. MaxTime
      /\ now \in 0 .. MaxTime
  BY <1>2 DEF Waiting, TypeOK
<1>4. e \in Expired /\ e.at = now /\ e.msg = h.msg /\ e.sentAt = h.sentAt
  BY <1>3 DEF Expired
<1> HIDE DEF e, h
<1>5. expired' \in Seq(Expired) /\ ToSet(expired') = ToSet(expired) \union {e}
  BY <1>1, <1>4, AppendedSet
<1>6. TypeOK'
  BY <1>1, <1>2, <1>5 DEF TypeOK, MaxTime
<1>7. Left' = Left \union {e}
  BY <1>1, <1>5 DEF Left
<1>8. PICK first \in Left' : first.msg = N - 1 /\ first.sentAt + (N - 1) <= now
  <2>1. CASE \E m \in Left : m.msg = N - 1 /\ m.sentAt + (N - 1) <= now
    BY <1>7, <2>1
  <2>2. CASE ddOrder[1].msg = N - 1
    <3>1. e.msg = N - 1 /\ e.sentAt + (N - 1) <= now
      BY <1>1, <1>2, <1>3, <1>4, <2>2, DelayQueueAssumption DEF MaxTime
    <3> QED
      BY <1>7, <3>1
  <2> QED
    BY <1>1, <2>1, <2>2 DEF FirstInv
<1>9. FirstInv'
  BY <1>1, <1>8 DEF FirstInv
<1>10. HeldBackByTheFirst'
  <2>1. e.at >= first.sentAt + (N - 1)
    <3>1. first \in Expired
      <4>1. Left \subseteq Expired
        BY DEF Left, TypeOK, ToSet
      <4> QED
        BY <1>4, <1>7, <1>8, <4>1
    <3> QED
      BY <1>3, <1>4, <1>8, <3>1, DelayQueueAssumption DEF Expired, MaxTime
  <2> QED
    BY <1>7, <1>8, <2>1 DEF HeldBackByTheFirst
<1> QED
  BY <1>6, <1>9, <1>10

\* The consumer adds nothing to what has left.
LEMMA ConsumeKeeps ==
    ASSUME DelayInv, Consume
    PROVE  DelayInv'
<1> USE DEF DelayInv
<1>1. /\ expired # <<>> /\ consumed' = Append(consumed, Head(expired))
      /\ expired' = Tail(expired) /\ UNCHANGED <<now, i, ddOrder>>
      /\ expired \in Seq(Expired) /\ consumed \in Seq(Expired)
  BY DEF Consume, TypeOK
<1>2. /\ Head(expired) \in Expired /\ expired' \in Seq(Expired)
      /\ ToSet(expired) = ToSet(expired') \union {Head(expired)}
  BY <1>1, TakenSet
<1>3. consumed' \in Seq(Expired) /\ ToSet(consumed') = ToSet(consumed) \union {Head(expired)}
  BY <1>1, <1>2, AppendedSet
<1>4. TypeOK'
  BY <1>1, <1>2, <1>3 DEF TypeOK, MaxTime
<1>5. Left' = Left
  BY <1>2, <1>3 DEF Left
<1>7. FirstInv'
  BY <1>1, <1>5 DEF FirstInv
<1>8. HeldBackByTheFirst'
  BY <1>5 DEF HeldBackByTheFirst
<1> QED
  BY <1>4, <1>7, <1>8

\* The invariant holds for any number of messages.
THEOREM DelayInvHolds == Spec => []DelayInv
<1>1. Init => DelayInv
  <2> SUFFICES ASSUME Init
               PROVE  DelayInv
    OBVIOUS
  <2>1. /\ now = 0 /\ i = N /\ ddOrder = <<>> /\ expired = <<>> /\ consumed = <<>>
    BY DEF Init
  <2>2. TypeOK
    BY <2>1, DelayQueueAssumption DEF TypeOK, MaxTime
  <2>3. ToSet(expired) = {} /\ ToSet(consumed) = {}
    BY <2>1 DEF ToSet
  <2> QED
    BY <2>1, <2>2, <2>3 DEF DelayInv, FirstInv, HeldBackByTheFirst, Left
<1>2. DelayInv /\ [Next]_vars => DelayInv'
  <2> SUFFICES ASSUME DelayInv, [Next]_vars
               PROVE  DelayInv'
    OBVIOUS
  <2>1. CASE Tick
    <3>1. /\ now' = now + 1 /\ now' \in 0 .. MaxTime /\ now \in 0 .. MaxTime
          /\ UNCHANGED <<i, ddOrder, expired, consumed>>
      BY <2>1, DelayQueueAssumption DEF Tick, DelayInv, TypeOK, MaxTime
    <3>2. Left' = Left
      BY <3>1 DEF Left
    <3>3. FirstInv'
      <4>1. CASE \E m \in Left : m.msg = N - 1 /\ m.sentAt + (N - 1) <= now
        <5>1. PICK m \in Left : m.msg = N - 1 /\ m.sentAt + (N - 1) <= now
          BY <4>1
        <5>2. m \in Expired
          BY DEF Left, DelayInv, TypeOK, ToSet
        <5>3. m.sentAt + (N - 1) <= now'
          BY <3>1, <5>1, <5>2, DelayQueueAssumption DEF Expired, MaxTime
        <5> QED
          BY <3>2, <5>1, <5>3 DEF FirstInv
      <4>2. CASE ~ \E m \in Left : m.msg = N - 1 /\ m.sentAt + (N - 1) <= now
        BY <3>1, <4>2 DEF DelayInv, FirstInv
      <4> QED
        BY <4>1, <4>2
    <3> QED
      BY <3>1, <3>2, <3>3 DEF DelayInv, TypeOK, HeldBackByTheFirst
  <2>2. CASE UNCHANGED vars
    BY <2>2 DEF vars, DelayInv, TypeOK, FirstInv, HeldBackByTheFirst, Left
  <2> QED
    BY <2>1, <2>2, PublishKeeps, DeadLetterKeeps, ConsumeKeeps DEF Next, Done
<1> QED
  BY <1>1, <1>2, PTL DEF Spec

\* The variables keep their types for any number of messages.
THEOREM DelayTypeCorrect == Spec => []TypeOK
<1>1. DelayInv => TypeOK
  BY DEF DelayInv
<1> QED
  BY <1>1, DelayInvHolds, PTL

\* DelayProducer publishes the longest delay first, and the queue expires at its head
\* only: nothing leaves it before that delay is over, counted from the first publication,
\* however many messages there are and whenever and however slowly they are published.
THEOREM FirstHoldsBack == Spec => []HeldBackByTheFirst
<1>1. DelayInv => HeldBackByTheFirst
  BY DEF DelayInv
<1> QED
  BY <1>1, DelayInvHolds, PTL

-----------------------------------------------------------------------------
(* Order and arrival: the part of EveryMessageArrives that needs no         *)
(* fairness.                                                                *)

\* Every message is unpublished or in exactly one of the queues, and none has
\* overtaken another.
Account ==
    /\ i + Len(ddOrder) + Len(expired) + Len(consumed) = N
    /\ \A k \in 1 .. Len(consumed) : consumed[k].msg = N - k
    /\ \A k \in 1 .. Len(expired) : expired[k].msg = N - Len(consumed) - k
    /\ \A k \in 1 .. Len(ddOrder) :
          ddOrder[k].msg = N - Len(consumed) - Len(expired) - k

\* All is published, and nothing later than the clock allows it to expire.
Settled == i = 0 /\ \A k \in 1 .. Len(ddOrder) : ddOrder[k].sentAt <= 2 * N

\* What is waiting was published in the past.
SentInThePast == \A k \in 1 .. Len(ddOrder) : ddOrder[k].sentAt <= now

\* The broker, the consumer or the clock has something to do.
SomethingToDo == HeadIsDue \/ expired # <<>> \/ now < MaxTime

\* The steps that are left, at most.
Remaining == 3 * i + 2 * Len(ddOrder) + Len(expired) + (MaxTime - now)

AccountInv == TypeOK /\ Account /\ SentInThePast

\* What a queue looks like with one more element.
LEMMA AppendedElements ==
    ASSUME NEW S, NEW s \in Seq(S), NEW e \in S
    PROVE  /\ Append(s, e) \in Seq(S) /\ Len(s) \in Nat
           /\ Len(Append(s, e)) = Len(s) + 1 /\ Append(s, e)[Len(s) + 1] = e
           /\ \A k \in 1 .. Len(s) : Append(s, e)[k] = s[k]
OBVIOUS

\* What a queue looks like without its first element.
LEMMA TakenElements ==
    ASSUME NEW S, NEW s \in Seq(S), s # <<>>
    PROVE  /\ Head(s) \in S /\ Head(s) = s[1] /\ Tail(s) \in Seq(S)
           /\ Len(s) \in Nat \ {0} /\ Len(Tail(s)) = Len(s) - 1
           /\ \A k \in 1 .. Len(s) - 1 : Tail(s)[k] = s[k + 1]
OBVIOUS

\* What a step must do: keep the account and the settled, and leave fewer steps.
StepAccounts == /\ AccountInv' /\ (Settled => Settled')
                /\ Remaining' < Remaining

\* The steps left are a number.
LEMMA RemainingIsNat ==
    ASSUME TypeOK
    PROVE  Remaining \in Nat
<1>1. /\ i \in Nat /\ MaxTime - now \in Nat
      /\ Len(ddOrder) \in Nat /\ Len(expired) \in Nat
  BY DelayQueueAssumption DEF TypeOK, MaxTime
<1> QED
  BY <1>1 DEF Remaining

\* A published message is the last of the queue, and the last sent.
LEMMA PublishAccounts ==
    ASSUME AccountInv, TypeOK', Publish
    PROVE  StepAccounts
<1> USE DEF AccountInv
<1> DEFINE e == [msg |-> i - 1, sentAt |-> now]
<1>1. /\ i > 0 /\ i' = i - 1 /\ ddOrder' = Append(ddOrder, e)
      /\ UNCHANGED <<now, expired, consumed>> /\ MaxTime' = MaxTime
  BY DEF Publish, MaxTime
<1>2. /\ i \in 0 .. N /\ now \in 0 .. MaxTime /\ ddOrder \in Seq(Waiting)
      /\ Len(expired) \in Nat /\ Len(consumed) \in Nat
  BY DEF TypeOK
<1>3. e \in Waiting /\ e.msg = i - 1 /\ e.sentAt = now
  BY <1>1, <1>2, DelayQueueAssumption DEF Waiting
<1> HIDE DEF e
<1>4. /\ Len(ddOrder) \in Nat /\ Len(ddOrder') = Len(ddOrder) + 1
      /\ ddOrder'[Len(ddOrder) + 1] = e
      /\ \A k \in 1 .. Len(ddOrder) : ddOrder'[k] = ddOrder[k]
  BY <1>1, <1>2, <1>3, AppendedElements
<1>5. Account'
  <2>1. i + Len(ddOrder) + Len(expired) + Len(consumed) = N
    BY DEF Account
  <2>2. i' + Len(ddOrder') + Len(expired') + Len(consumed') = N
    BY <1>1, <1>2, <1>4, <2>1
  <2>3. ASSUME NEW k \in 1 .. Len(ddOrder')
        PROVE  ddOrder'[k].msg = N - Len(consumed') - Len(expired') - k
    <3>1. CASE k = Len(ddOrder) + 1
      BY <1>1, <1>2, <1>3, <1>4, <2>1, <3>1, DelayQueueAssumption
    <3>2. CASE k # Len(ddOrder) + 1
      BY <1>1, <1>4, <2>3, <3>2 DEF Account
    <3> QED
      BY <3>1, <3>2
  <2> QED
    BY <1>1, <2>2, <2>3 DEF Account
<1>6. SentInThePast'
  <2> SUFFICES ASSUME NEW k \in 1 .. Len(ddOrder')
               PROVE  ddOrder'[k].sentAt <= now
    BY <1>1 DEF SentInThePast
  <2>1. CASE k = Len(ddOrder) + 1
    BY <1>2, <1>3, <1>4, <2>1
  <2>2. CASE k # Len(ddOrder) + 1
    BY <1>4, <2>2 DEF SentInThePast
  <2> QED
    BY <2>1, <2>2
<1>7. Settled => Settled'
  BY <1>1, <1>2 DEF Settled
<1>8. Remaining' < Remaining
  BY <1>1, <1>2, <1>4, DelayQueueAssumption DEF Remaining, MaxTime
<1> QED
  BY <1>5, <1>6, <1>7, <1>8 DEF StepAccounts

\* The broker takes the first of the waiting messages, which becomes the last of the
\* expired ones.
LEMMA DeadLetterAccounts ==
    ASSUME AccountInv, TypeOK', DeadLetter
    PROVE  StepAccounts
<1> USE DEF AccountInv
<1> DEFINE h == Head(ddOrder)
           e == [msg |-> h.msg, sentAt |-> h.sentAt, at |-> now]
<1>1. /\ ddOrder # <<>> /\ expired' = Append(expired, e) /\ ddOrder' = Tail(ddOrder)
      /\ UNCHANGED <<now, i, consumed>> /\ MaxTime' = MaxTime
  BY DEF DeadLetter, HeadIsDue, MaxTime
<1>2. /\ i \in 0 .. N /\ now \in 0 .. MaxTime /\ ddOrder \in Seq(Waiting)
      /\ expired \in Seq(Expired) /\ Len(consumed) \in Nat
  BY DEF TypeOK
<1>3. /\ h \in Waiting /\ h = ddOrder[1]
      /\ Len(ddOrder) \in Nat \ {0} /\ Len(ddOrder') = Len(ddOrder) - 1
      /\ \A k \in 1 .. Len(ddOrder) - 1 : ddOrder'[k] = ddOrder[k + 1]
  BY <1>1, <1>2, TakenElements
<1>4. e \in Expired /\ e.msg = h.msg
  BY <1>2, <1>3 DEF Waiting, Expired
<1> HIDE DEF e, h
<1>5. /\ Len(expired) \in Nat /\ Len(expired') = Len(expired) + 1
      /\ expired'[Len(expired) + 1] = e
      /\ \A k \in 1 .. Len(expired) : expired'[k] = expired[k]
  BY <1>1, <1>2, <1>4, AppendedElements
<1>6. Account'
  <2>1. i' + Len(ddOrder') + Len(expired') + Len(consumed') = N
    BY <1>1, <1>2, <1>3, <1>5 DEF Account
  <2>2. ASSUME NEW k \in 1 .. Len(expired')
        PROVE  expired'[k].msg = N - Len(consumed') - k
    <3>1. CASE k = Len(expired) + 1
      <4>1. h.msg = N - Len(consumed) - Len(expired) - 1
        BY <1>3 DEF Account
      <4> QED
        BY <1>1, <1>2, <1>4, <1>5, <3>1, <4>1, DelayQueueAssumption
    <3>2. CASE k # Len(expired) + 1
      BY <1>1, <1>5, <2>2, <3>2 DEF Account
    <3> QED
      BY <3>1, <3>2
  <2>3. ASSUME NEW k \in 1 .. Len(ddOrder')
        PROVE  ddOrder'[k].msg = N - Len(consumed') - Len(expired') - k
    <3>1. ddOrder'[k] = ddOrder[k + 1] /\ k + 1 \in 1 .. Len(ddOrder)
      BY <1>3, <2>3
    <3>2. ddOrder[k + 1].msg = N - Len(consumed) - Len(expired) - (k + 1)
      BY <3>1 DEF Account
    <3> QED
      BY <1>1, <1>2, <1>5, <3>1, <3>2, DelayQueueAssumption
  <2> QED
    BY <1>1, <2>1, <2>2, <2>3 DEF Account
<1>7. ASSUME NEW t, \A k \in 1 .. Len(ddOrder) : ddOrder[k].sentAt <= t
      PROVE  \A k \in 1 .. Len(ddOrder') : ddOrder'[k].sentAt <= t
  <2> SUFFICES ASSUME NEW k \in 1 .. Len(ddOrder')
               PROVE  ddOrder'[k].sentAt <= t
    OBVIOUS
  <2>1. ddOrder'[k] = ddOrder[k + 1] /\ k + 1 \in 1 .. Len(ddOrder)
    BY <1>3
  <2> QED
    BY <1>7, <2>1
<1>8. SentInThePast'
  BY <1>1, <1>7 DEF SentInThePast
<1>9. Settled => Settled'
  BY <1>1, <1>7 DEF Settled
<1>10. Remaining' < Remaining
  BY <1>1, <1>2, <1>3, <1>5, DelayQueueAssumption DEF Remaining, MaxTime
<1> QED
  BY <1>6, <1>8, <1>9, <1>10 DEF StepAccounts

\* The consumer takes the first of the expired messages.
LEMMA ConsumeAccounts ==
    ASSUME AccountInv, TypeOK', Consume
    PROVE  StepAccounts
<1> USE DEF AccountInv
<1> DEFINE h == Head(expired)
<1>1. /\ expired # <<>> /\ consumed' = Append(consumed, h) /\ expired' = Tail(expired)
      /\ UNCHANGED <<now, i, ddOrder>> /\ MaxTime' = MaxTime
  BY DEF Consume, MaxTime
<1>2. /\ i \in 0 .. N /\ now \in 0 .. MaxTime /\ Len(ddOrder) \in Nat
      /\ expired \in Seq(Expired) /\ consumed \in Seq(Expired)
  BY DEF TypeOK
<1>3. /\ h \in Expired /\ h = expired[1]
      /\ Len(expired) \in Nat \ {0} /\ Len(expired') = Len(expired) - 1
      /\ \A k \in 1 .. Len(expired) - 1 : expired'[k] = expired[k + 1]
  BY <1>1, <1>2, TakenElements
<1> HIDE DEF h
<1>4. /\ Len(consumed) \in Nat /\ Len(consumed') = Len(consumed) + 1
      /\ consumed'[Len(consumed) + 1] = h
      /\ \A k \in 1 .. Len(consumed) : consumed'[k] = consumed[k]
  BY <1>1, <1>2, <1>3, AppendedElements
<1>5. Account'
  <2>1. i' + Len(ddOrder') + Len(expired') + Len(consumed') = N
    BY <1>1, <1>2, <1>3, <1>4 DEF Account
  <2>2. ASSUME NEW k \in 1 .. Len(consumed')
        PROVE  consumed'[k].msg = N - k
    <3>1. CASE k = Len(consumed) + 1
      <4>1. h.msg = N - Len(consumed) - 1
        BY <1>3 DEF Account
      <4> QED
        BY <1>4, <3>1, <4>1, DelayQueueAssumption
    <3>2. CASE k # Len(consumed) + 1
      BY <1>4, <2>2, <3>2 DEF Account
    <3> QED
      BY <3>1, <3>2
  <2>3. ASSUME NEW k \in 1 .. Len(expired')
        PROVE  expired'[k].msg = N - Len(consumed') - k
    <3>1. expired'[k] = expired[k + 1] /\ k + 1 \in 1 .. Len(expired)
      BY <1>3, <2>3
    <3>2. expired[k + 1].msg = N - Len(consumed) - (k + 1)
      BY <3>1 DEF Account
    <3> QED
      BY <1>4, <3>1, <3>2, DelayQueueAssumption
  <2>4. ASSUME NEW k \in 1 .. Len(ddOrder')
        PROVE  ddOrder'[k].msg = N - Len(consumed') - Len(expired') - k
    <3>1. ddOrder[k].msg = N - Len(consumed) - Len(expired) - k
      BY <1>1, <2>4 DEF Account
    <3> QED
      BY <1>1, <1>2, <1>3, <1>4, <3>1, DelayQueueAssumption
  <2> QED
    BY <1>1, <2>1, <2>2, <2>3, <2>4 DEF Account
<1>6. SentInThePast' /\ (Settled => Settled')
  BY <1>1 DEF SentInThePast, Settled
<1>7. Remaining' < Remaining
  BY <1>1, <1>2, <1>3, DelayQueueAssumption DEF Remaining, MaxTime
<1> QED
  BY <1>5, <1>6, <1>7 DEF StepAccounts

\* Time moves nothing.
LEMMA TickAccounts ==
    ASSUME AccountInv, TypeOK', Tick
    PROVE  StepAccounts
<1> USE DEF AccountInv
<1>1. /\ now' = now + 1 /\ now < MaxTime /\ MaxTime' = MaxTime
      /\ UNCHANGED <<i, ddOrder, expired, consumed>>
  BY DEF Tick, MaxTime
<1>2. /\ i \in 0 .. N /\ now \in 0 .. MaxTime
      /\ Len(ddOrder) \in Nat /\ Len(expired) \in Nat
  BY DEF TypeOK
<1>3. Account' /\ (Settled => Settled')
  BY <1>1 DEF Account, Settled
<1>4. SentInThePast'
  <2> SUFFICES ASSUME NEW k \in 1 .. Len(ddOrder)
               PROVE  ddOrder[k].sentAt <= now + 1
    BY <1>1 DEF SentInThePast
  <2>1. ddOrder[k] \in Waiting /\ ddOrder[k].sentAt <= now
    BY DEF SentInThePast, TypeOK
  <2>2. ddOrder[k].sentAt \in Nat
    BY <2>1, DelayQueueAssumption DEF Waiting, MaxTime
  <2> QED
    BY <1>2, <2>1, <2>2
<1>5. Remaining' < Remaining
  BY <1>1, <1>2, DelayQueueAssumption DEF Remaining, MaxTime
<1> QED
  BY <1>3, <1>4, <1>5 DEF StepAccounts

\* No message is lost or doubled on the way, and the consumer gets them in the order of
\* their publication, however the queues, the broker and the consumer interleave.
THEOREM NoneLostNoneOvertaken == Spec => []AccountInv
<1>1. Init => AccountInv
  <2> SUFFICES ASSUME Init
               PROVE  AccountInv
    OBVIOUS
  <2>1. /\ now = 0 /\ i = N /\ ddOrder = <<>> /\ expired = <<>> /\ consumed = <<>>
    BY DEF Init
  <2> QED
    BY <2>1, DelayQueueAssumption
       DEF AccountInv, TypeOK, Account, SentInThePast, MaxTime
<1>2. AccountInv /\ TypeOK' /\ [Next]_vars => AccountInv'
  <2> SUFFICES ASSUME AccountInv, TypeOK', [Next]_vars
               PROVE  AccountInv'
    OBVIOUS
  <2>1. CASE UNCHANGED vars
    BY <2>1 DEF vars, AccountInv, TypeOK, Account, SentInThePast
  <2> QED
    BY <2>1, PublishAccounts, DeadLetterAccounts, ConsumeAccounts, TickAccounts
       DEF Next, Done, StepAccounts
<1> QED
  BY <1>1, <1>2, DelayTypeCorrect, PTL DEF Spec

\* Every step leaves fewer steps to come: a run of the queues ends.
THEOREM DelayRunsEnd ==
    Spec => [](Remaining \in Nat) /\ [][Remaining' < Remaining]_vars
<1>1. TypeOK => Remaining \in Nat
  BY RemainingIsNat
<1>2. AccountInv /\ TypeOK' /\ [Next]_vars => [Remaining' < Remaining]_vars
  <2> SUFFICES ASSUME AccountInv, TypeOK', [Next]_vars, ~UNCHANGED vars
               PROVE  Remaining' < Remaining
    BY DEF vars
  <2> QED
    BY PublishAccounts, DeadLetterAccounts, ConsumeAccounts, TickAccounts
       DEF Next, Done, StepAccounts
<1> QED
  BY <1>1, <1>2, DelayTypeCorrect, NoneLostNoneOvertaken, PTL DEF Spec

\* What EveryMessageArrives needs besides fairness: published in time, the messages stay
\* settled, and until the last one is consumed the broker, the consumer or the clock has
\* something to do.
THEOREM SettledMessagesMoveOn ==
    Spec => /\ []((i = 0 /\ now <= 2 * N) => Settled)
            /\ [][Settled => Settled']_vars
            /\ []((Settled /\ Len(consumed) # N) => SomethingToDo)
<1>1. AccountInv => ((i = 0 /\ now <= 2 * N) => Settled)
  <2> SUFFICES ASSUME AccountInv, i = 0, now <= 2 * N, NEW k \in 1 .. Len(ddOrder)
               PROVE  ddOrder[k].sentAt <= 2 * N
    BY DEF Settled
  <2>1. ddOrder[k] \in Waiting /\ ddOrder[k].sentAt <= now /\ now \in Nat
    BY DEF SentInThePast, TypeOK, AccountInv
  <2>2. ddOrder[k].sentAt \in Nat
    BY <2>1, DelayQueueAssumption DEF Waiting, MaxTime
  <2> QED
    BY <2>1, <2>2, DelayQueueAssumption
<1>2. AccountInv /\ TypeOK' /\ [Next]_vars => [Settled => Settled']_vars
  <2> SUFFICES ASSUME AccountInv, TypeOK', [Next]_vars, ~UNCHANGED vars
               PROVE  Settled => Settled'
    BY DEF vars
  <2> QED
    BY PublishAccounts, DeadLetterAccounts, ConsumeAccounts, TickAccounts
       DEF Next, Done, StepAccounts
<1>3. AccountInv => ((Settled /\ Len(consumed) # N) => SomethingToDo)
  <2> SUFFICES ASSUME AccountInv, Settled, ~SomethingToDo
               PROVE  Len(consumed) = N
    OBVIOUS
  <2>1. /\ expired = <<>> /\ ~HeadIsDue /\ i = 0 /\ now = MaxTime
        /\ Len(consumed) \in Nat /\ Len(ddOrder) \in Nat
    BY DelayQueueAssumption DEF SomethingToDo, Settled, AccountInv, TypeOK, MaxTime
  <2>2. ddOrder = <<>>
    <3> SUFFICES ASSUME ddOrder # <<>>
                 PROVE  HeadIsDue
      BY <2>1
    <3>1. Head(ddOrder) \in Waiting /\ Head(ddOrder) = ddOrder[1] /\ 1 \in 1 .. Len(ddOrder)
      BY TakenElements DEF AccountInv, TypeOK
    <3>2. /\ Head(ddOrder).msg \in 0 .. N - 1 /\ Head(ddOrder).sentAt \in 0 .. MaxTime
          /\ Head(ddOrder).sentAt <= 2 * N
      BY <3>1 DEF Waiting, Settled
    <3> QED
      BY <2>1, <3>2, DelayQueueAssumption DEF HeadIsDue, Expiration, MaxTime
  <2> QED
    BY <2>1, <2>2 DEF AccountInv, Account
<1> QED
  BY <1>1, <1>2, <1>3, DelayTypeCorrect, NoneLostNoneOvertaken, PTL DEF Spec

=============================================================================
