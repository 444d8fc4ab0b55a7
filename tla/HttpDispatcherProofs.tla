------------------------ MODULE HttpDispatcherProofs ------------------------
(***************************************************************************)
(* Proofs about HttpDispatcher, for any pipelined requests: the server is  *)
(* HttpConversation to its client, and answers and closes are on their way *)
(* until nothing is left to do.                                            *)
(***************************************************************************)
EXTENDS HttpDispatcher, SequenceTheorems, TLAPS

\* Requests the pipeline has not seen.
Waiting == ToSet(incoming) \union ToSet(batch)

Tasks == {"write", "close"} \X Requests

Answers == [req : Requests, status : {Ok, BadRequest, ServerError}]

\* A request that waits waits in one place, is sent and has no thread and no answer.
OnceInv ==
    /\ IsInjective(incoming) /\ IsInjective(batch)
    /\ ToSet(incoming) \intersect ToSet(batch) = {}
    /\ \A r \in Waiting : kind[r] # "not sent" /\ worker[r] = "none" /\ r \notin completed
    /\ \A r \in Requests :
          kind[r] = "not sent" => worker[r] = "none" /\ r \notin completed

\* A response is written by one task, after it was computed and before its future is
\* completed; only a completed future has its channel closed by a task.
TaskInv ==
    /\ \A k \in DOMAIN loopQueue :
          IF loopQueue[k][1] = "write"
          THEN /\ worker[loopQueue[k][2]] \in {"listen", "returned"}
               /\ loopQueue[k][2] \notin completed
          ELSE loopQueue[k][2] \in completed
    /\ \A j, k \in DOMAIN loopQueue :
          loopQueue[j] = loopQueue[k] /\ loopQueue[j][1] = "write" => j = k
    /\ \A r \in Requests : worker[r] \in {"handle", "write"} => r \notin completed
    /\ \A r \in Requests :
          worker[r] \in {"write", "listen", "returned"} => response[r] # NotComputed

\* The response to r has reached the client.
OnWire(r) == \E k \in DOMAIN wire : wire[k].req = r

\* Futures are completed by what is on the wire or by a closed channel.
WireInv ==
    /\ \A k \in DOMAIN wire : wire[k].req \in completed
    /\ open => \A r \in completed : OnWire(r)

\* The references to a request: the original's while the pipeline has it, and the copy's
\* from the moment there is a thread.
CountOf(r) ==
    [own |-> IF r \in ToSet(batch) \union inRead0 THEN 1 ELSE 0,
     copy |-> IF worker[r] = "none" THEN 0 ELSE 1]

\* At most one request is in channelRead0, and its thread has started.
CountInv ==
    /\ \A q, r \in inRead0 : q = r
    /\ \A r \in inRead0 : worker[r] # "none"
    /\ refCnt = [r \in Requests |-> CountOf(r)]

\* The inductive invariant.
DispatchInv == TypeOK /\ OnceInv /\ TaskInv /\ WireInv /\ CountInv

-----------------------------------------------------------------------------
(* Queues.                                                                  *)

\* What a queue with one more element holds.
LEMMA Queued ==
    ASSUME NEW S, NEW s \in Seq(S), NEW e \in S
    PROVE  /\ Append(s, e) \in Seq(S)
           /\ DOMAIN Append(s, e) = DOMAIN s \union {Len(s) + 1}
           /\ Len(s) + 1 \notin DOMAIN s
           /\ \A k \in DOMAIN s : Append(s, e)[k] = s[k]
           /\ Append(s, e)[Len(s) + 1] = e
OBVIOUS

\* The same for what it holds as a set.
LEMMA QueuedSet ==
    ASSUME NEW S, NEW s \in Seq(S), NEW e \in S
    PROVE  /\ ToSet(Append(s, e)) = ToSet(s) \union {e}
           /\ IsInjective(s) /\ e \notin ToSet(s) => IsInjective(Append(s, e))
BY Queued DEF ToSet, IsInjective

\* What a queue holds without its first element.
LEMMA Taken ==
    ASSUME NEW S, NEW s \in Seq(S), s # <<>>
    PROVE  /\ Head(s) \in S /\ Head(s) = s[1] /\ 1 \in DOMAIN s
           /\ Tail(s) \in Seq(S)
           /\ \A k \in DOMAIN Tail(s) :
                 Tail(s)[k] = s[k + 1] /\ k + 1 \in DOMAIN s /\ k \in Nat \ {0}
           /\ \A k \in DOMAIN s : k # 1 => k - 1 \in DOMAIN Tail(s) /\ k \in Nat
OBVIOUS

\* The same for what it holds as a set.
LEMMA TakenSet ==
    ASSUME NEW S, NEW s \in Seq(S), s # <<>>
    PROVE  /\ Head(s) \in ToSet(s)
           /\ ToSet(s) = ToSet(Tail(s)) \union {Head(s)}
           /\ IsInjective(s) => IsInjective(Tail(s)) /\ Head(s) \notin ToSet(Tail(s))
<1>1. \A k \in DOMAIN s : s[k] = Head(s) \/ \E j \in DOMAIN Tail(s) : Tail(s)[j] = s[k]
  <2> TAKE k \in DOMAIN s
  <2>1. CASE k = 1
    BY <2>1, Taken
  <2>2. CASE k # 1
    <3>1. k - 1 \in DOMAIN Tail(s) /\ Tail(s)[k - 1] = s[(k - 1) + 1] /\ k \in Nat
      BY <2>2, Taken
    <3>2. (k - 1) + 1 = k
      BY <3>1
    <3> QED
      BY <3>1, <3>2
  <2> QED
    BY <2>1, <2>2
<1>2. ToSet(s) = ToSet(Tail(s)) \union {Head(s)}
  BY <1>1, Taken DEF ToSet
<1>3. ASSUME IsInjective(s)
      PROVE  IsInjective(Tail(s)) /\ Head(s) \notin ToSet(Tail(s))
  <2>1. ASSUME NEW j \in DOMAIN Tail(s), NEW k \in DOMAIN Tail(s), Tail(s)[j] = Tail(s)[k]
        PROVE  j = k
    BY <1>3, <2>1, Taken DEF IsInjective
  <2>2. ASSUME NEW j \in DOMAIN Tail(s), Tail(s)[j] = Head(s)
        PROVE  FALSE
    <3>1. j + 1 = 1 /\ j \in Nat \ {0}
      BY <1>3, <2>2, Taken DEF IsInjective
    <3> QED
      BY <3>1
  <2> QED
    BY <2>1, <2>2 DEF IsInjective, ToSet
<1> QED
  BY <1>2, <1>3

\* What the two halves of a queue hold.
LEMMA CutSet ==
    ASSUME NEW S, NEW s \in Seq(S), NEW n \in DOMAIN s
    PROVE  LET front == SubSeq(s, 1, n)
               back == SubSeq(s, n + 1, Len(s))
           IN  /\ front \in Seq(S) /\ back \in Seq(S)
               /\ ToSet(s) = ToSet(front) \union ToSet(back)
               /\ IsInjective(s) => /\ IsInjective(front) /\ IsInjective(back)
                                    /\ ToSet(front) \intersect ToSet(back) = {}
<1> DEFINE front == SubSeq(s, 1, n)
           back == SubSeq(s, n + 1, Len(s))
<1>1. /\ n \in 1 .. Len(s) /\ Len(s) \in Nat /\ DOMAIN s = 1 .. Len(s)
      /\ \A k \in 1 .. Len(s) : s[k] \in S
  OBVIOUS
<1>2. /\ front \in Seq(S) /\ DOMAIN front = 1 .. n
      /\ \A k \in 1 .. n : front[k] = s[k]
  BY <1>1
<1>3. /\ back \in Seq(S) /\ DOMAIN back = 1 .. (Len(s) - n)
      /\ \A k \in 1 .. (Len(s) - n) : back[k] = s[n + k]
  BY <1>1
<1> HIDE DEF front, back
<1>4. ToSet(s) = ToSet(front) \union ToSet(back)
  <2>1. \A k \in 1 .. Len(s) : k \in 1 .. n \/ (k - n \in 1 .. (Len(s) - n) /\ s[k] = s[n + (k - n)])
    BY <1>1
  <2>2. \A k \in 1 .. Len(s) : s[k] \in ToSet(front) \union ToSet(back)
    BY <1>2, <1>3, <2>1 DEF ToSet
  <2>3. \A k \in 1 .. (Len(s) - n) : n + k \in 1 .. Len(s)
    BY <1>1
  <2>4. \A k \in 1 .. n : k \in 1 .. Len(s)
    BY <1>1
  <2>5. ToSet(s) \subseteq ToSet(front) \union ToSet(back)
    BY <1>1, <2>2 DEF ToSet
  <2>6. ToSet(front) \subseteq ToSet(s)
    BY <1>1, <1>2, <2>4 DEF ToSet
  <2>7. ToSet(back) \subseteq ToSet(s)
    BY <1>1, <1>3, <2>3 DEF ToSet
  <2> QED
    BY <2>5, <2>6, <2>7
<1>5. ASSUME IsInjective(s)
      PROVE  /\ IsInjective(front) /\ IsInjective(back)
             /\ ToSet(front) \intersect ToSet(back) = {}
  <2>1. \A j, k \in 1 .. Len(s) : s[j] = s[k] => j = k
    BY <1>1, <1>5 DEF IsInjective
  <2>2. IsInjective(front)
    BY <1>1, <1>2, <2>1 DEF IsInjective
  <2>3. IsInjective(back)
    <3> SUFFICES ASSUME NEW j \in 1 .. (Len(s) - n), NEW k \in 1 .. (Len(s) - n),
                        back[j] = back[k]
                 PROVE  j = k
      BY <1>3 DEF IsInjective
    <3>1. n + j \in 1 .. Len(s) /\ n + k \in 1 .. Len(s)
      BY <1>1
    <3>2. n + j = n + k
      BY <1>3, <2>1, <3>1
    <3> QED
      BY <1>1, <3>2
  <2>4. \A j \in 1 .. n, k \in 1 .. (Len(s) - n) : front[j] # back[k]
    <3> TAKE j \in 1 .. n, k \in 1 .. (Len(s) - n)
    <3>1. j \in 1 .. Len(s) /\ n + k \in 1 .. Len(s) /\ j # n + k
      BY <1>1
    <3>2. s[j] # s[n + k]
      BY <2>1, <3>1
    <3> QED
      BY <1>2, <1>3, <3>2
  <2> QED
    BY <1>2, <1>3, <2>2, <2>3, <2>4 DEF ToSet
<1> QED
  BY <1>2, <1>3, <1>4, <1>5 DEF front, back

-----------------------------------------------------------------------------
(* The inductive invariant.                                                 *)

\* The parts of a task.
LEMMA TaskParts ==
    ASSUME TypeOK
    PROVE  /\ loopQueue \in Seq(Tasks)
           /\ \A k \in DOMAIN loopQueue : loopQueue[k] \in Tasks /\ loopQueue[k][2] \in Requests
<1>1. loopQueue \in Seq(Tasks)
  BY DEF TypeOK, Tasks
<1>2. \A k \in DOMAIN loopQueue : loopQueue[k] \in Tasks
  BY <1>1
<1>3. \A t \in Tasks : t[2] \in Requests
  BY DEF Tasks
<1> QED
  BY <1>1, <1>2, <1>3

\* Counts like these have the counts' types.
LEMMA CountsType ==
    /\ refCnt = [r \in Requests |-> CountOf(r)]
          => refCnt \in [Requests -> [own : 0 .. 1, copy : 0 .. 1]]
    /\ refCnt' = [r \in Requests |-> CountOf(r)']
          => refCnt' \in [Requests -> [own : 0 .. 1, copy : 0 .. 1]]
<1>1. 0 \in 0 .. 1 /\ 1 \in 0 .. 1
  OBVIOUS
<1>2. \A r \in Requests : /\ CountOf(r) \in [own : 0 .. 1, copy : 0 .. 1]
                          /\ CountOf(r)' \in [own : 0 .. 1, copy : 0 .. 1]
  BY <1>1 DEF CountOf
<1> QED
  BY <1>2

\* A step that leaves the pipeline alone and starts no thread leaves the counts.
LEMMA CountsStay ==
    ASSUME CountInv, UNCHANGED <<batch, inRead0, refCnt>>,
           \A r \in Requests : worker'[r] = "none" <=> worker[r] = "none",
           inRead0 \subseteq Requests
    PROVE  CountInv'
<1>1. \A r \in Requests : CountOf(r)' = CountOf(r)
  BY DEF CountOf
<1> QED
  BY <1>1 DEF CountInv

\* What waits are requests.
LEMMA WaitingRequests ==
    ASSUME TypeOK
    PROVE  Waiting \subseteq Requests
<1>1. incoming \in Seq(Requests) /\ batch \in Seq(Requests)
  BY DEF TypeOK
<1> QED
  BY <1>1 DEF Waiting, ToSet

\* A request the client sends joins those that wait.
LEMMA SendKeeps ==
    ASSUME DispatchInv, NEW r \in Requests, NEW k \in Kinds, Send(r, k)
    PROVE  DispatchInv'
<1> USE DEF DispatchInv
<1>1. /\ kind[r] = "not sent" /\ k # "not sent" /\ r \notin Waiting
      /\ kind' = [kind EXCEPT ![r] = k] /\ incoming' = Append(incoming, r)
      /\ UNCHANGED <<clientGone, batch, inRead0, loopQueue, open, refCnt, worker, response,
                     completed, listener, wire>>
  BY DEF Send, OnceInv, Kinds
<1>2. /\ ToSet(incoming') = ToSet(incoming) \union {r}
      /\ IsInjective(incoming') /\ incoming' \in Seq(Requests)
  <2>1. incoming \in Seq(Requests) /\ IsInjective(incoming) /\ r \notin ToSet(incoming)
    BY <1>1 DEF OnceInv, TypeOK, Waiting
  <2>2. /\ ToSet(Append(incoming, r)) = ToSet(incoming) \union {r}
        /\ IsInjective(Append(incoming, r)) /\ Append(incoming, r) \in Seq(Requests)
    BY <2>1, Queued, QueuedSet
  <2> QED
    BY <1>1, <2>2
<1>3. TypeOK'
  BY <1>1, <1>2 DEF TypeOK
<1>4. OnceInv'
  <2>1. kind'[r] # "not sent" /\ \A q \in Requests \ {r} : kind'[q] = kind[q]
    BY <1>1 DEF TypeOK
  <2>2. Waiting' = Waiting \union {r} /\ r \notin ToSet(batch)
    BY <1>1, <1>2 DEF Waiting
  <2>3. worker[r] = "none" /\ r \notin completed
    BY <1>1 DEF OnceInv
  <2> QED
    BY <1>1, <1>2, <2>1, <2>2, <2>3, WaitingRequests DEF OnceInv
<1>5. TaskInv' /\ WireInv'
  BY <1>1 DEF TaskInv, WireInv, OnWire
<1>6. CountInv'
  BY <1>1, CountsStay DEF TypeOK
<1> QED
  BY <1>3, <1>4, <1>5, <1>6

\* A read moves requests from one place to the other.
LEMMA ReadBatchKeeps ==
    ASSUME DispatchInv, ReadBatch
    PROVE  DispatchInv' /\ Waiting' = Waiting
<1> USE DEF DispatchInv
<1>1. PICK n \in DOMAIN incoming :
         /\ batch' = SubSeq(incoming, 1, n)
         /\ incoming' = SubSeq(incoming, n + 1, Len(incoming))
         /\ refCnt' = [r \in Requests |->
                         IF r \in ToSet(SubSeq(incoming, 1, n))
                         THEN [refCnt[r] EXCEPT !.own = 1] ELSE refCnt[r]]
  BY DEF ReadBatch
<1>2. /\ batch = <<>> /\ inRead0 = {}
      /\ UNCHANGED <<kind, clientGone, inRead0, loopQueue, open, worker, response, completed,
                     listener, wire>>
  BY DEF ReadBatch, PipelineIsEmpty
<1>3. /\ batch' \in Seq(Requests) /\ incoming' \in Seq(Requests)
      /\ ToSet(incoming) = ToSet(batch') \union ToSet(incoming')
      /\ IsInjective(incoming') /\ IsInjective(batch')
      /\ ToSet(batch') \intersect ToSet(incoming') = {}
  <2>1. incoming \in Seq(Requests) /\ IsInjective(incoming)
    BY DEF TypeOK, OnceInv
  <2> QED
    BY <1>1, <2>1, CutSet
<1>4. Waiting' = Waiting
  <2>1. ToSet(batch) = {}
    BY <1>2 DEF ToSet
  <2> QED
    BY <1>3, <2>1 DEF Waiting
<1>5. CountInv'
  <2>1. ToSet(batch) = {}
    BY <1>2 DEF ToSet
  <2>2. \A r \in Requests : refCnt[r] = [own |-> 0, copy |-> CountOf(r).copy]
    BY <1>2, <2>1 DEF CountInv, CountOf
  <2>3. \A r \in Requests :
           CountOf(r)' = [own |-> IF r \in ToSet(batch') THEN 1 ELSE 0, copy |-> CountOf(r).copy]
    BY <1>2 DEF CountOf
  <2>4. refCnt' = [r \in Requests |-> IF r \in ToSet(batch')
                                      THEN [refCnt[r] EXCEPT !.own = 1] ELSE refCnt[r]]
    BY <1>1
  <2>5. ASSUME NEW r \in Requests
        PROVE  [refCnt[r] EXCEPT !.own = 1] = [own |-> 1, copy |-> CountOf(r).copy]
    <3>1. \A c : [[own |-> 0, copy |-> c] EXCEPT !.own = 1] = [own |-> 1, copy |-> c]
      OBVIOUS
    <3>2. refCnt[r] = [own |-> 0, copy |-> CountOf(r).copy]
      BY <2>2
    <3> QED
      BY <3>1, <3>2
  <2>6. \A r \in Requests : (IF r \in ToSet(batch') THEN [refCnt[r] EXCEPT !.own = 1]
                                                  ELSE refCnt[r]) = CountOf(r)'
    BY <2>2, <2>3, <2>5
  <2>7. refCnt' = [r \in Requests |-> CountOf(r)']
    BY <2>4, <2>6
  <2> QED
    BY <1>2, <2>7 DEF CountInv
<1>6. TypeOK'
  <2>1. refCnt' \in [Requests -> [own : 0 .. 1, copy : 0 .. 1]]
    BY <1>5, CountsType DEF CountInv
  <2> QED
    BY <1>2, <1>3, <2>1 DEF TypeOK
<1>7. OnceInv'
  BY <1>2, <1>3, <1>4 DEF OnceInv
<1>8. TaskInv' /\ WireInv'
  BY <1>2 DEF TaskInv, WireInv, OnWire
<1> QED
  BY <1>4, <1>5, <1>6, <1>7, <1>8

\* The requests answered so far, in order.
Answered == [i \in DOMAIN wire |-> wire[i].req]

\* Writing puts the response on the wire of an open channel and completes the future.
LEMMA WrittenKeeps ==
    ASSUME DispatchInv, NEW r \in Requests, NEW a \in {Ok, BadRequest, ServerError},
           Written(r, a)
    PROVE  /\ wire' \in Seq(Answers)
           /\ completed' = completed \union {r} /\ completed' \subseteq Requests
           /\ \A k \in DOMAIN wire' : wire'[k].req \in completed'
           /\ \A q : OnWire(q)' <=> OnWire(q) \/ (open /\ q = r)
           /\ open => \A q \in completed' : OnWire(q)'
           /\ Answered' = (IF open THEN Append(Answered, r) ELSE Answered)
<1> DEFINE e == [req |-> r, status |-> a]
<1>1. /\ wire \in Seq(Answers) /\ open \in BOOLEAN /\ completed \subseteq Requests
      /\ \A k \in DOMAIN wire : wire[k].req \in completed
      /\ open => \A q \in completed : OnWire(q)
  BY DEF DispatchInv, TypeOK, WireInv, Answers
<1>2. completed' = completed \union {r} /\ wire' = IF open THEN Append(wire, e) ELSE wire
  BY DEF Written
<1>3. e \in Answers /\ e.req = r
  BY DEF Answers
<1> HIDE DEF e
<1>4. CASE open
  <2>1. wire' = Append(wire, e)
    BY <1>2, <1>4
  <2>2. /\ wire' \in Seq(Answers)
        /\ DOMAIN wire' = DOMAIN wire \union {Len(wire) + 1} /\ Len(wire) + 1 \notin DOMAIN wire
        /\ \A k \in DOMAIN wire : wire'[k] = wire[k]
        /\ wire'[Len(wire) + 1] = e
    BY <1>1, <1>3, <2>1, Queued
  <2>3. \A q : OnWire(q)' <=> OnWire(q) \/ q = r
    BY <1>3, <2>2 DEF OnWire
  <2>4. Answered' = Append(Answered, r)
    <3>1. /\ DOMAIN wire = 1 .. Len(wire) /\ Len(wire) \in Nat
          /\ DOMAIN wire' = 1 .. Len(wire) + 1
          /\ \A k \in DOMAIN wire : wire[k].req \in Requests
      BY <1>1, <2>1 DEF Answers
    <3>2. Answered \in Seq(Requests) /\ Len(Answered) = Len(wire)
      BY <3>1 DEF Answered
    <3>3. /\ DOMAIN Append(Answered, r) = 1 .. Len(wire) + 1
          /\ \A k \in 1 .. Len(wire) : Append(Answered, r)[k] = wire[k].req
          /\ Append(Answered, r)[Len(wire) + 1] = r
          /\ Append(Answered, r) = [k \in 1 .. Len(wire) + 1 |-> Append(Answered, r)[k]]
      BY <3>1, <3>2 DEF Answered
    <3>4. Answered' = [k \in 1 .. Len(wire) + 1 |-> wire'[k].req]
      BY <3>1 DEF Answered
    <3>5. \A k \in 1 .. Len(wire) + 1 : wire'[k].req = Append(Answered, r)[k]
      BY <1>3, <2>2, <3>1, <3>3
    <3> QED
      BY <3>3, <3>4, <3>5
  <2> QED
    BY <1>1, <1>2, <1>3, <1>4, <2>2, <2>3, <2>4
<1>5. CASE ~open
  <2>1. wire' = wire
    BY <1>2, <1>5
  <2> QED
    BY <1>1, <1>2, <1>5, <2>1 DEF OnWire, Answered
<1> QED
  BY <1>4, <1>5

\* The pipeline takes the first request of the batch.
LEMMA ChannelReadKeeps ==
    ASSUME DispatchInv, ChannelRead
    PROVE  /\ DispatchInv'
           /\ Head(batch) \in Waiting /\ Waiting' = Waiting \ {Head(batch)}
<1> USE DEF DispatchInv
<1> DEFINE r == Head(batch)
<1>1. /\ batch # <<>> /\ inRead0 = {} /\ batch' = Tail(batch)
      /\ UNCHANGED <<kind, incoming, clientGone, loopQueue, response, listener>>
  BY DEF ChannelRead, clientVars
<1>2. /\ r \in Requests /\ batch' \in Seq(Requests)
      /\ r \in ToSet(batch) /\ ToSet(batch) = ToSet(batch') \union {r}
      /\ IsInjective(batch') /\ r \notin ToSet(batch')
  BY <1>1, Taken, TakenSet DEF TypeOK, OnceInv
<1>3. r \in Waiting /\ Waiting' = Waiting \ {r}
  BY <1>1, <1>2 DEF Waiting, OnceInv
<1>4. worker[r] = "none" /\ kind[r] # "not sent" /\ r \notin completed
  BY <1>3 DEF OnceInv
<1> HIDE DEF r
<1>5. CASE Reject(r)
  <2>1. /\ refCnt' = [refCnt EXCEPT ![r].own = @ - 1] /\ Written(r, BadRequest)
        /\ open' = FALSE /\ UNCHANGED <<worker, inRead0>>
    BY <1>5 DEF Reject, Released
  <2>2. /\ wire' \in Seq(Answers) /\ completed' = completed \union {r}
        /\ completed' \subseteq Requests
        /\ \A k \in DOMAIN wire' : wire'[k].req \in completed'
    BY <1>2, <2>1, WrittenKeeps
  <2>3. CountInv'
    <3>1. \A q \in Requests : CountOf(q)' = IF q = r THEN [own |-> 0, copy |-> 0] ELSE CountOf(q)
      BY <1>1, <1>2, <1>4, <2>1 DEF CountOf
    <3>2. CountOf(r) = [own |-> 1, copy |-> 0]
      BY <1>2, <1>4 DEF CountOf
    <3>3. refCnt = [q \in Requests |-> CountOf(q)]
      BY DEF CountInv
    <3>4. refCnt[r].own - 1 = 0
      BY <1>2, <3>2, <3>3
    <3>5. refCnt' = [q \in Requests |-> CountOf(q)']
      BY <1>2, <2>1, <3>1, <3>2, <3>3, <3>4
    <3> QED
      BY <1>1, <2>1, <3>5 DEF CountInv
  <2>4. TypeOK'
    <3>1. refCnt' \in [Requests -> [own : 0 .. 1, copy : 0 .. 1]]
      BY <2>3, CountsType DEF CountInv
    <3> QED
      BY <1>1, <1>2, <2>1, <2>2, <3>1 DEF TypeOK, Answers
  <2>5. OnceInv'
    BY <1>1, <1>2, <1>3, <1>4, <2>1, <2>2 DEF OnceInv
  <2>6. TaskInv'
    <3>1. \A k \in DOMAIN loopQueue :
             loopQueue[k] \in Tasks /\ loopQueue[k][1] = "write" => loopQueue[k][2] # r
      BY <1>4 DEF TaskInv, TypeOK, Tasks
    <3> QED
      BY <1>1, <1>4, <2>1, <2>2, <3>1 DEF TaskInv, TypeOK, Tasks
  <2>7. WireInv'
    BY <2>1, <2>2 DEF WireInv
  <2> QED
    BY <1>3, <2>3, <2>4, <2>5, <2>6, <2>7 DEF r
<1>6. CASE ChannelRead0(r)
  <2>1. /\ refCnt' = [refCnt EXCEPT ![r].copy = @ + 1]
        /\ worker' = [worker EXCEPT ![r] = "handle"] /\ inRead0' = {r}
        /\ UNCHANGED <<open, completed, wire>>
    BY <1>6 DEF ChannelRead0
  <2>2. CountInv'
    <3>1. worker'[r] = "handle" /\ \A q \in Requests \ {r} : worker'[q] = worker[q]
      BY <1>2, <2>1 DEF TypeOK
    <3>2. \A q \in Requests : CountOf(q)' = IF q = r THEN [own |-> 1, copy |-> 1] ELSE CountOf(q)
      BY <1>1, <1>2, <2>1, <3>1 DEF CountOf
    <3>3. CountOf(r) = [own |-> 1, copy |-> 0]
      BY <1>2, <1>4 DEF CountOf
    <3>4. refCnt = [q \in Requests |-> CountOf(q)]
      BY DEF CountInv
    <3>5. refCnt[r].copy + 1 = 1
      BY <1>2, <3>3, <3>4
    <3>6. refCnt' = [q \in Requests |-> CountOf(q)']
      BY <1>2, <2>1, <3>2, <3>3, <3>4, <3>5
    <3> QED
      BY <2>1, <3>1, <3>6 DEF CountInv
  <2>3. worker' \in [Requests -> WorkerStates]
    BY <2>1 DEF TypeOK, WorkerStates
  <2>4. TypeOK'
    <3>1. refCnt' \in [Requests -> [own : 0 .. 1, copy : 0 .. 1]]
      BY <2>2, CountsType DEF CountInv
    <3> QED
      BY <1>1, <1>2, <2>1, <2>3, <3>1 DEF TypeOK
  <2>5. worker'[r] = "handle" /\ \A q \in Requests \ {r} : worker'[q] = worker[q]
    BY <1>2, <2>1 DEF TypeOK
  <2>6. OnceInv'
    BY <1>1, <1>2, <1>3, <1>4, <2>1, <2>5, WaitingRequests DEF OnceInv
  <2>7. TaskInv'
    <3>1. \A k \in DOMAIN loopQueue :
             /\ loopQueue[k][2] \in Requests
             /\ loopQueue[k][1] = "write" => loopQueue[k][2] # r
      BY <1>4, TaskParts DEF TaskInv
    <3>2. \A k \in DOMAIN loopQueue' :
             IF loopQueue'[k][1] = "write"
             THEN /\ worker'[loopQueue'[k][2]] \in {"listen", "returned"}
                  /\ loopQueue'[k][2] \notin completed'
             ELSE loopQueue'[k][2] \in completed'
      BY <1>1, <2>1, <2>5, <3>1 DEF TaskInv
    <3>3. /\ \A q \in Requests : worker'[q] \in {"handle", "write"} => q \notin completed'
          /\ \A q \in Requests :
                worker'[q] \in {"write", "listen", "returned"} => response'[q] # NotComputed
      BY <1>1, <1>2, <1>4, <2>1, <2>5 DEF TaskInv
    <3> QED
      BY <1>1, <3>2, <3>3 DEF TaskInv
  <2>8. WireInv'
    BY <2>1 DEF WireInv, OnWire
  <2> QED
    BY <1>3, <2>2, <2>4, <2>6, <2>7, <2>8 DEF r
<1> QED
  BY <1>5, <1>6 DEF ChannelRead, r

\* The original is released once, and only its count changes.
LEMMA ReleaseKeeps ==
    ASSUME DispatchInv, ReleaseOriginal
    PROVE  DispatchInv'
<1> USE DEF DispatchInv
<1>1. PICK r \in inRead0 : refCnt' = [refCnt EXCEPT ![r].own = @ - 1]
  BY DEF ReleaseOriginal, Released
<1>2. /\ inRead0' = {}
      /\ UNCHANGED <<kind, incoming, clientGone, batch, loopQueue, open, worker, response,
                     completed, listener, wire>>
  BY DEF ReleaseOriginal, clientVars
<1>3. r \in Requests /\ inRead0 = {r} /\ r \notin ToSet(batch)
  BY <1>1 DEF TypeOK, CountInv, OnceInv, Waiting
<1>4. CountInv'
  <2>1. \A q \in Requests :
           CountOf(q)' = IF q = r THEN [own |-> 0, copy |-> CountOf(r).copy] ELSE CountOf(q)
    BY <1>2, <1>3 DEF CountOf
  <2>2. CountOf(r) = [own |-> 1, copy |-> CountOf(r).copy]
    BY <1>3 DEF CountOf
  <2>3. refCnt = [q \in Requests |-> CountOf(q)]
    BY DEF CountInv
  <2>4. refCnt[r].own - 1 = 0
    BY <1>3, <2>2, <2>3
  <2>5. refCnt' = [q \in Requests |-> CountOf(q)']
    BY <1>1, <1>3, <2>1, <2>2, <2>3, <2>4
  <2> QED
    BY <1>2, <2>5 DEF CountInv
<1>5. TypeOK'
  <2>1. refCnt' \in [Requests -> [own : 0 .. 1, copy : 0 .. 1]]
    BY <1>4, CountsType DEF CountInv
  <2> QED
    BY <1>2, <2>1 DEF TypeOK
<1>6. OnceInv' /\ TaskInv' /\ WireInv'
  BY <1>2 DEF OnceInv, Waiting, TaskInv, WireInv, OnWire
<1> QED
  BY <1>4, <1>5, <1>6

\* The first task of the event loop, what it is about and what it leaves.
LEMMA RunTaskIs ==
    ASSUME DispatchInv, RunTask
    PROVE  /\ loopQueue # <<>> /\ loopQueue' = Tail(loopQueue)
           /\ UNCHANGED <<kind, incoming, clientGone, batch, inRead0, refCnt, worker, response,
                     listener>>
           /\ \E r \in Requests :
                 \/ /\ Head(loopQueue) = <<"write", r>> /\ r \notin completed
                    /\ worker[r] \in {"listen", "returned"}
                    /\ response[r] \in {Ok, BadRequest, ServerError}
                    /\ Written(r, response[r])
                    /\ open' = (open /\ r \notin listener)
                 \/ /\ Head(loopQueue) = <<"close", r>> /\ r \in completed
                    /\ open' = FALSE /\ UNCHANGED <<wire, completed>>
<1>1. /\ loopQueue # <<>> /\ loopQueue' = Tail(loopQueue)
      /\ UNCHANGED <<kind, incoming, clientGone, batch, inRead0, refCnt, worker, response,
                     listener>>
  BY DEF RunTask, clientVars
<1> DEFINE task == Head(loopQueue)
<1>2. loopQueue \in Seq(Tasks)
  BY DEF DispatchInv, TypeOK, Tasks
<1>3. task \in Tasks /\ task = loopQueue[1] /\ 1 \in DOMAIN loopQueue
  BY <1>1, <1>2, Taken
<1>4. /\ task[2] \in Requests /\ task[1] \in {"write", "close"}
      /\ task = <<task[1], task[2]>>
  BY <1>3 DEF Tasks
<1>5. /\ task[1] = "write" => /\ Written(task[2], response[task[2]])
                              /\ open' = (open /\ task[2] \notin listener)
      /\ task[1] # "write" => open' = FALSE /\ UNCHANGED <<wire, completed>>
  BY DEF RunTask
<1> HIDE DEF task
<1>6. CASE task[1] = "write"
  <2>1. worker[task[2]] \in {"listen", "returned"} /\ task[2] \notin completed
    BY <1>3, <1>6 DEF DispatchInv, TaskInv
  <2>2. response[task[2]] \in {Ok, BadRequest, ServerError}
    BY <1>4, <2>1 DEF DispatchInv, TaskInv, TypeOK
  <2> QED
    BY <1>1, <1>4, <1>5, <1>6, <2>1, <2>2 DEF task
<1>7. CASE task[1] = "close"
  <2>1. task[2] \in completed
    BY <1>3, <1>7 DEF DispatchInv, TaskInv
  <2> QED
    BY <1>1, <1>4, <1>5, <1>7, <2>1 DEF task
<1> QED
  BY <1>4, <1>6, <1>7

\* A task leaves the others in place.
LEMMA RunTaskKeeps ==
    ASSUME DispatchInv, RunTask
    PROVE  DispatchInv'
<1> USE DEF DispatchInv
<1>1. /\ loopQueue # <<>> /\ loopQueue' = Tail(loopQueue) /\ loopQueue \in Seq(Tasks)
      /\ UNCHANGED <<kind, incoming, clientGone, batch, inRead0, refCnt, worker, response,
                     listener>>
  BY RunTaskIs DEF TypeOK, Tasks
<1>2. /\ loopQueue' \in Seq(Tasks) /\ Head(loopQueue) = loopQueue[1] /\ 1 \in DOMAIN loopQueue
      /\ \A k \in DOMAIN loopQueue' :
            loopQueue'[k] = loopQueue[k + 1] /\ k + 1 \in DOMAIN loopQueue /\ k \in Nat \ {0}
  BY <1>1, Taken
<1>3. \A k \in DOMAIN loopQueue' : loopQueue'[k][1] = "write" => loopQueue'[k] # loopQueue[1]
  BY <1>2 DEF TaskInv
<1>4. \A j, k \in DOMAIN loopQueue' :
         loopQueue'[j] = loopQueue'[k] /\ loopQueue'[j][1] = "write" => j = k
  BY <1>2 DEF TaskInv
<1>5. PICK r \in Requests :
         \/ /\ Head(loopQueue) = <<"write", r>> /\ r \notin completed
            /\ worker[r] \in {"listen", "returned"}
            /\ response[r] \in {Ok, BadRequest, ServerError}
            /\ Written(r, response[r])
            /\ open' = (open /\ r \notin listener)
         \/ /\ Head(loopQueue) = <<"close", r>> /\ r \in completed
            /\ open' = FALSE /\ UNCHANGED <<wire, completed>>
  BY RunTaskIs
<1>6. \A k \in DOMAIN loopQueue' :
         /\ loopQueue'[k][1] \in {"write", "close"}
         /\ loopQueue'[k] = <<loopQueue'[k][1], loopQueue'[k][2]>>
  BY <1>2 DEF Tasks
<1>9. CountInv'
  BY <1>1, CountsStay DEF TypeOK
<1>7. CASE Head(loopQueue) = <<"write", r>>
  <2>1. /\ r \notin completed /\ worker[r] \in {"listen", "returned"}
        /\ open' = (open /\ r \notin listener)
        /\ response[r] \in {Ok, BadRequest, ServerError} /\ Written(r, response[r])
    BY <1>5, <1>7
  <2>2. /\ wire' \in Seq(Answers) /\ completed' = completed \union {r}
        /\ completed' \subseteq Requests
        /\ \A k \in DOMAIN wire' : wire'[k].req \in completed'
        /\ open => \A q \in completed' : OnWire(q)'
    BY <2>1, WrittenKeeps
  <2>3. \A k \in DOMAIN loopQueue' : loopQueue'[k][1] = "write" => loopQueue'[k][2] # r
    BY <1>2, <1>3, <1>6, <1>7
  <2>4. TypeOK'
    BY <1>1, <1>2, <2>1, <2>2 DEF TypeOK, Answers, Tasks
  <2>5. OnceInv'
    BY <1>1, <2>1, <2>2 DEF OnceInv, Waiting
  <2>6. TaskInv'
    <3>1. \A k \in DOMAIN loopQueue' :
             IF loopQueue'[k][1] = "write"
             THEN /\ worker[loopQueue'[k][2]] \in {"listen", "returned"}
                  /\ loopQueue'[k][2] \notin completed'
             ELSE loopQueue'[k][2] \in completed'
      BY <1>2, <2>2, <2>3 DEF TaskInv
    <3>2. \A q \in Requests : worker[q] \in {"handle", "write"} => q \notin completed'
      BY <2>1, <2>2 DEF TaskInv
    <3> QED
      BY <1>1, <1>4, <3>1, <3>2 DEF TaskInv
  <2>7. WireInv'
    BY <2>1, <2>2 DEF WireInv
  <2> QED
    BY <1>9, <2>4, <2>5, <2>6, <2>7
<1>8. CASE Head(loopQueue) = <<"close", r>>
  <2>1. open' = FALSE /\ UNCHANGED <<wire, completed>>
    BY <1>5, <1>8
  <2>2. TypeOK'
    BY <1>1, <1>2, <2>1 DEF TypeOK, Tasks
  <2>3. OnceInv'
    BY <1>1, <2>1 DEF OnceInv, Waiting
  <2>4. TaskInv'
    BY <1>1, <1>2, <1>4, <2>1 DEF TaskInv
  <2>5. WireInv'
    BY <2>1 DEF WireInv, OnWire
  <2> QED
    BY <1>9, <2>2, <2>3, <2>4, <2>5
<1> QED
  BY <1>5, <1>7, <1>8

\* The thread of the pool queues at most one write and one close for its request.
LEMMA WorkerKeeps ==
    ASSUME DispatchInv, NEW r \in Requests, Worker(r)
    PROVE  /\ DispatchInv'
           /\ UNCHANGED <<kind, incoming, batch, wire, open, clientGone>>
<1> USE DEF DispatchInv
<1>4. CountInv'
  <2>1. /\ worker \in [Requests -> WorkerStates] /\ inRead0 \subseteq Requests
        /\ UNCHANGED <<batch, inRead0, refCnt>>
    BY DEF TypeOK, Worker, Handle, WriteAndFlush, AddListener, clientVars
  <2>2. \A q \in Requests : worker'[q] = "none" <=> worker[q] = "none"
    BY <2>1 DEF Worker, Handle, WriteAndFlush, AddListener
  <2> QED
    BY <2>1, <2>2, CountsStay
<1>1. CASE Handle(r)
  <2>1. /\ worker[r] = "handle"
        /\ UNCHANGED <<kind, incoming, clientGone, batch, inRead0, loopQueue, open, refCnt,
                       completed,
                       listener, wire>>
    BY <1>1 DEF Handle, clientVars
  <2>2. \/ /\ worker' = [worker EXCEPT ![r] = "write"]
           /\ response' \in [Requests -> {NotComputed, Ok, BadRequest, ServerError}]
           /\ response'[r] # NotComputed
           /\ \A q \in Requests \ {r} : response'[q] = response[q]
        \/ worker' = [worker EXCEPT ![r] = "died"] /\ UNCHANGED response
    <3>1. response \in [Requests -> {NotComputed, Ok, BadRequest, ServerError}]
      BY DEF TypeOK
    <3>2. \A o \in Outcomes \ {"throwsNoMessage"} :
             ControllerResponse(o) \in {Ok, BadRequest, ServerError}
      BY HttpDispatcherAssumption DEF ControllerResponse
    <3>3. NotComputed \notin {Ok, BadRequest, ServerError}
      BY DEF NotComputed, Ok, BadRequest, ServerError
    <3>4. \/ worker' = [worker EXCEPT ![r] = "died"] /\ UNCHANGED response
          \/ /\ worker' = [worker EXCEPT ![r] = "write"]
             /\ \E a \in {Ok, BadRequest, ServerError} : response' = [response EXCEPT ![r] = a]
      BY <1>1, <3>2 DEF Handle
    <3> QED
      BY <3>1, <3>3, <3>4
  <2>3. TypeOK'
    BY <2>1, <2>2 DEF TypeOK, WorkerStates
  <2>4. OnceInv'
    <3>1. /\ \A q \in Requests \ {r} : worker'[q] = worker[q]
          /\ r \notin Waiting /\ kind[r] # "not sent"
      BY <2>1, <2>2 DEF TypeOK, OnceInv
    <3>2. Waiting' = Waiting
      BY <2>1 DEF Waiting
    <3> QED
      BY <2>1, <3>1, <3>2, WaitingRequests DEF OnceInv
  <2>5. TaskInv'
    <3>1. \A k \in DOMAIN loopQueue : loopQueue[k][2] \in Requests
      BY TaskParts
    <3>2. \A k \in DOMAIN loopQueue : loopQueue[k][1] = "write" => loopQueue[k][2] # r
      BY <2>1 DEF TaskInv
    <3>3. \A q \in Requests \ {r} : worker'[q] = worker[q] /\ response'[q] = response[q]
      BY <2>2 DEF TypeOK
    <3>4. /\ worker'[r] \in {"write", "died"}
          /\ worker'[r] = "write" => response'[r] # NotComputed
      BY <2>2 DEF TypeOK
    <3> QED
      BY <2>1, <3>1, <3>2, <3>3, <3>4 DEF TaskInv
  <2>6. WireInv'
    BY <2>1 DEF WireInv, OnWire
  <2> QED
    BY <1>4, <2>1, <2>3, <2>4, <2>5, <2>6
<1>2. CASE WriteAndFlush(r)
  <2> DEFINE e == <<"write", r>>
  <2>1. /\ worker[r] = "write" /\ worker' = [worker EXCEPT ![r] = "listen"]
        /\ loopQueue' = Append(loopQueue, e)
        /\ UNCHANGED <<kind, incoming, clientGone, batch, inRead0, open, refCnt, response,
                       completed,
                       listener, wire>>
    BY <1>2 DEF WriteAndFlush, clientVars
  <2>2. e \in Tasks /\ e[1] = "write" /\ e[2] = r /\ loopQueue \in Seq(Tasks)
    BY DEF Tasks, TypeOK
  <2> HIDE DEF e
  <2>3. /\ loopQueue' \in Seq(Tasks)
        /\ DOMAIN loopQueue' = DOMAIN loopQueue \union {Len(loopQueue) + 1}
        /\ Len(loopQueue) + 1 \notin DOMAIN loopQueue
        /\ \A k \in DOMAIN loopQueue : loopQueue'[k] = loopQueue[k]
        /\ loopQueue'[Len(loopQueue) + 1] = e
    BY <2>1, <2>2, Queued
  <2>4. TypeOK'
    BY <2>1, <2>3 DEF TypeOK, WorkerStates, Tasks
  <2>5. OnceInv'
    <3>1. /\ \A q \in Requests \ {r} : worker'[q] = worker[q]
          /\ r \notin Waiting /\ kind[r] # "not sent"
      BY <2>1 DEF TypeOK, OnceInv
    <3>2. Waiting' = Waiting
      BY <2>1 DEF Waiting
    <3> QED
      BY <2>1, <3>1, <3>2, WaitingRequests DEF OnceInv
  <2>6. TaskInv'
    <3>1. \A k \in DOMAIN loopQueue :
             /\ loopQueue[k][2] \in Requests
             /\ loopQueue[k][1] = "write" => loopQueue[k][2] # r
      BY <2>1, TaskParts DEF TaskInv
    <3>2. \A q \in Requests \ {r} : worker'[q] = worker[q]
      BY <2>1 DEF TypeOK
    <3>3. worker'[r] = "listen" /\ r \notin completed /\ response[r] # NotComputed
      BY <2>1 DEF TaskInv, TypeOK
    <3>4. \A k \in DOMAIN loopQueue' :
             IF loopQueue'[k][1] = "write"
             THEN /\ worker'[loopQueue'[k][2]] \in {"listen", "returned"}
                  /\ loopQueue'[k][2] \notin completed'
             ELSE loopQueue'[k][2] \in completed'
      BY <2>1, <2>2, <2>3, <3>1, <3>2, <3>3 DEF TaskInv
    <3>5. \A j, k \in DOMAIN loopQueue' :
             loopQueue'[j] = loopQueue'[k] /\ loopQueue'[j][1] = "write" => j = k
      BY <2>2, <2>3, <3>1 DEF TaskInv
    <3> QED
      BY <2>1, <3>2, <3>3, <3>4, <3>5 DEF TaskInv
  <2>7. WireInv'
    BY <2>1 DEF WireInv, OnWire
  <2> QED
    BY <1>4, <2>1, <2>4, <2>5, <2>6, <2>7
<1>3. CASE AddListener(r)
  <2>1. /\ worker[r] = "listen" /\ worker' = [worker EXCEPT ![r] = "returned"]
        /\ UNCHANGED <<kind, incoming, clientGone, batch, inRead0, open, refCnt, response,
                       completed,
                       wire>>
        /\ listener' \subseteq Requests
    BY <1>3 DEF AddListener, clientVars, TypeOK
  <2>2. OnceInv' /\ WireInv'
    <3>1. /\ \A q \in Requests \ {r} : worker'[q] = worker[q]
          /\ r \notin Waiting /\ kind[r] # "not sent"
      BY <2>1 DEF TypeOK, OnceInv
    <3>2. Waiting' = Waiting
      BY <2>1 DEF Waiting
    <3> QED
      BY <2>1, <3>1, <3>2, WaitingRequests DEF OnceInv, WireInv, OnWire
  <2>3. \A q \in Requests :
           /\ worker'[q] \in {"listen", "returned"} <=> worker[q] \in {"listen", "returned"}
           /\ worker'[q] \in {"handle", "write"} <=> worker[q] \in {"handle", "write"}
           /\ worker'[q] = "write" <=> worker[q] = "write"
    BY <2>1 DEF TypeOK
  <2>4. \A k \in DOMAIN loopQueue : loopQueue[k][2] \in Requests
    BY TaskParts
  <2>5. CASE r \notin completed
    <3>1. UNCHANGED loopQueue
      BY <1>3, <2>5 DEF AddListener
    <3>2. TypeOK'
      BY <2>1, <3>1 DEF TypeOK, WorkerStates
    <3>3. TaskInv'
      BY <2>1, <2>3, <2>4, <3>1 DEF TaskInv
    <3> QED
      BY <1>4, <2>1, <2>2, <3>2, <3>3
  <2>6. CASE r \in completed
    <3> DEFINE e == <<"close", r>>
    <3>1. loopQueue' = Append(loopQueue, e)
      BY <1>3, <2>6 DEF AddListener
    <3>2. e \in Tasks /\ e[1] = "close" /\ e[2] = r /\ loopQueue \in Seq(Tasks)
      BY DEF Tasks, TypeOK
    <3> HIDE DEF e
    <3>3. /\ loopQueue' \in Seq(Tasks)
          /\ DOMAIN loopQueue' = DOMAIN loopQueue \union {Len(loopQueue) + 1}
          /\ \A k \in DOMAIN loopQueue : loopQueue'[k] = loopQueue[k]
          /\ loopQueue'[Len(loopQueue) + 1] = e
      BY <3>1, <3>2, Queued
    <3>4. TypeOK'
      BY <2>1, <3>3 DEF TypeOK, WorkerStates, Tasks
    <3>5. \A k \in DOMAIN loopQueue' :
             IF loopQueue'[k][1] = "write"
             THEN /\ worker'[loopQueue'[k][2]] \in {"listen", "returned"}
                  /\ loopQueue'[k][2] \notin completed'
             ELSE loopQueue'[k][2] \in completed'
      BY <2>1, <2>3, <2>4, <2>6, <3>2, <3>3 DEF TaskInv
    <3>6. \A j, k \in DOMAIN loopQueue' :
             loopQueue'[j] = loopQueue'[k] /\ loopQueue'[j][1] = "write" => j = k
      BY <3>2, <3>3 DEF TaskInv
    <3>7. TaskInv'
      BY <2>1, <2>3, <3>5, <3>6 DEF TaskInv
    <3> QED
      BY <1>4, <2>1, <2>2, <3>4, <3>7
  <2> QED
    BY <2>5, <2>6
<1> QED
  BY <1>1, <1>2, <1>3 DEF Worker

\* The invariant holds for any requests and any controllers.
THEOREM DispatchInvHolds == Spec => []DispatchInv
<1>1. Init => DispatchInv
  <2> SUFFICES ASSUME Init
               PROVE  DispatchInv
    OBVIOUS
  <2>1. incoming = <<>> /\ batch = <<>> /\ loopQueue = <<>> /\ wire = <<>>
    BY DEF Init
  <2>2. /\ \A k \in DOMAIN incoming : FALSE
        /\ \A k \in DOMAIN batch : FALSE
        /\ \A k \in DOMAIN loopQueue : FALSE
        /\ \A k \in DOMAIN wire : FALSE
    BY <2>1
  <2>7. CountInv
    <3>1. \A r \in Requests : CountOf(r) = [own |-> 0, copy |-> 0]
      BY <2>2 DEF Init, CountOf, ToSet
    <3> QED
      BY <3>1 DEF Init, CountInv
  <2>3. TypeOK
    <3>1. refCnt \in [Requests -> [own : 0 .. 1, copy : 0 .. 1]]
      BY <2>7, CountsType DEF CountInv
    <3>2. /\ kind \in [Requests -> Kinds \union {"not sent"}]
          /\ worker \in [Requests -> WorkerStates]
          /\ response \in [Requests -> {NotComputed, Ok, BadRequest, ServerError}]
      BY DEF Init, WorkerStates
    <3>3. incoming \in Seq(Requests) /\ batch \in Seq(Requests)
      BY <2>1
    <3>4. /\ loopQueue \in Seq({"write", "close"} \X Requests)
          /\ wire \in Seq([req : Requests, status : {Ok, BadRequest, ServerError}])
      BY <2>1
    <3> QED
      BY <3>1, <3>4, <3>2, <3>3 DEF Init, TypeOK
  <2>4. OnceInv
    BY <2>2 DEF Init, OnceInv, Waiting, ToSet, IsInjective
  <2>5. TaskInv
    BY <2>2 DEF Init, TaskInv
  <2>6. WireInv
    BY <2>2 DEF Init, WireInv
  <2> QED
    BY <2>3, <2>4, <2>5, <2>6, <2>7 DEF DispatchInv
<1>2. DispatchInv /\ [Next]_vars => DispatchInv'
  <2> SUFFICES ASSUME DispatchInv, [Next]_vars
               PROVE  DispatchInv'
    OBVIOUS
  <2>1. CASE ClientCloses
    <3>1. /\ open' = FALSE
          /\ UNCHANGED <<kind, incoming, batch, inRead0, loopQueue, refCnt, worker, response,
                         completed, listener, wire>>
          /\ clientGone' = TRUE
      BY <2>1 DEF ClientCloses
    <3>2. CountInv'
      BY <3>1, CountsStay DEF DispatchInv, TypeOK
    <3>3. TypeOK'
      BY <3>1 DEF DispatchInv, TypeOK
    <3> QED
      BY <3>1, <3>2, <3>3 DEF DispatchInv, OnceInv, TaskInv, WireInv, Waiting
  <2>2. CASE UNCHANGED vars
    <3>1. CountInv'
      BY <2>2, CountsStay DEF vars, DispatchInv, TypeOK
    <3> QED
      BY <2>2, <3>1
      DEF vars, clientVars, DispatchInv, TypeOK, OnceInv, TaskInv, WireInv, OnWire, Waiting
  <2>3. CASE Idle
    BY <2>2, <2>3 DEF Idle
  <2> QED
    BY <2>1, <2>2, <2>3, SendKeeps, ReadBatchKeeps, ChannelReadKeeps, ReleaseKeeps,
       RunTaskKeeps, WorkerKeeps
    DEF Next, EventLoop
<1> QED
  BY <1>1, <1>2, PTL DEF Spec

-----------------------------------------------------------------------------
(* What the client and the threads of the pool rely on.                     *)

\* A thread of the pool reads a request only while what it was handed is allocated, and
\* the pipeline releases every original once, for any requests in any order.
THEOREM RequestsOutlive == Spec => []RequestOutlivesItsRead
<1>1. DispatchInv => RequestOutlivesItsRead
  <2> SUFFICES ASSUME DispatchInv, NEW r \in Requests
               PROVE  /\ worker[r] = "handle" => refCnt[r].copy > 0
                      /\ refCnt[r].own = (IF r \in ToSet(batch) \union inRead0 THEN 1 ELSE 0)
    BY DEF RequestOutlivesItsRead, HandedOver
  <2>1. refCnt[r] = CountOf(r)
    BY DEF DispatchInv, CountInv
  <2>2. /\ CountOf(r).own = (IF r \in ToSet(batch) \union inRead0 THEN 1 ELSE 0)
        /\ CountOf(r).copy = (IF worker[r] = "none" THEN 0 ELSE 1)
    BY DEF CountOf
  <2> QED
    BY <2>1, <2>2
<1> QED
  BY <1>1, DispatchInvHolds, PTL

\* The requests the server has taken, on the abstract side.
Taking == {r \in Requests : Received(r)}

\* What has reached the pipeline has been sent and waits no more.
LEMMA TakingIs ==
    /\ Taking = {r \in Requests : kind[r] # "not sent"} \ Waiting
    /\ Taking' = {r \in Requests : kind'[r] # "not sent"} \ Waiting'
BY DEF Taking, Received, Waiting

\* The steps of HttpConversation on the state of the server.
Receives(r) ==
    /\ r \notin Taking /\ Taking' = Taking \union {r}
    /\ UNCHANGED <<loopQueue, clientGone>> /\ Answered' = Answered /\ open' = open

Rejects(r) ==
    /\ open /\ r \notin Taking /\ Taking' = Taking \union {r}
    /\ Answered' = Append(Answered, r) /\ open' = FALSE
    /\ UNCHANGED <<loopQueue, clientGone>>

HandsOver(r) ==
    /\ r \in Taking /\ r \notin ToSet(Answered) /\ <<"write", r>> \notin ToSet(loopQueue)
    /\ loopQueue' = Append(loopQueue, <<"write", r>>)
    /\ Taking' = Taking /\ Answered' = Answered /\ UNCHANGED <<open, clientGone>>

HandsOverClose(r) ==
    /\ r \in ToSet(Answered) \/ ~open
    /\ loopQueue' = Append(loopQueue, <<"close", r>>)
    /\ Taking' = Taking /\ Answered' = Answered /\ UNCHANGED <<open, clientGone>>

Writes(r) ==
    /\ loopQueue # <<>> /\ Head(loopQueue) = <<"write", r>> /\ loopQueue' = Tail(loopQueue)
    /\ Taking' = Taking /\ UNCHANGED clientGone
    /\ \/ /\ open /\ r \in Taking \ ToSet(Answered) /\ open' \in BOOLEAN
          /\ Answered' = Append(Answered, r)
       \/ /\ ~open /\ Answered' = Answered /\ UNCHANGED open

Closes(r) ==
    /\ loopQueue # <<>> /\ Head(loopQueue) = <<"close", r>> /\ loopQueue' = Tail(loopQueue)
    /\ r \in ToSet(Answered) \/ ~open
    /\ Taking' = Taking /\ Answered' = Answered /\ open' = FALSE /\ UNCHANGED clientGone

ClientGoes ==
    /\ open /\ open' = FALSE /\ clientGone' = TRUE
    /\ Taking' = Taking /\ Answered' = Answered /\ UNCHANGED loopQueue

NothingSeen ==
    /\ Taking' = Taking /\ Answered' = Answered
    /\ UNCHANGED <<loopQueue, open, clientGone>>

\* Who is answered is on the wire.
LEMMA AnsweredIs == \A q : q \in ToSet(Answered) <=> OnWire(q)
BY DEF ToSet, Answered, OnWire

\* The pipeline takes a request.
LEMMA ChannelReadConverses ==
    ASSUME DispatchInv, ChannelRead
    PROVE  \E r \in Requests : Receives(r) \/ Rejects(r)
<1> DEFINE r == Head(batch)
<1>1. r \in Waiting /\ Waiting' = Waiting \ {r}
  BY ChannelReadKeeps
<1>2. UNCHANGED <<kind, clientGone, loopQueue>>
  BY DEF ChannelRead, clientVars
<1>3. r \in Requests
  BY <1>1, WaitingRequests DEF DispatchInv
<1>4. kind[r] # "not sent"
  BY <1>1 DEF DispatchInv, OnceInv
<1>5. Reject(r) \/ ChannelRead0(r)
  BY DEF ChannelRead
<1>6. open \in BOOLEAN
  BY DEF DispatchInv, TypeOK
<1> HIDE DEF r
<1>7. r \in Requests /\ r \notin Taking /\ Taking' = Taking \union {r}
  BY <1>1, <1>2, <1>3, <1>4, TakingIs
<1>8. CASE ChannelRead0(r)
  BY <1>2, <1>7, <1>8 DEF ChannelRead0, Receives, Answered
<1>9. CASE Reject(r)
  <2>1. open' = FALSE /\ Written(r, BadRequest)
    BY <1>9 DEF Reject
  <2>2. Answered' = (IF open THEN Append(Answered, r) ELSE Answered)
    BY <1>7, <2>1, WrittenKeeps
  <2> QED
    BY <1>2, <1>6, <1>7, <2>1, <2>2 DEF Receives, Rejects
<1> QED
  BY <1>5, <1>8, <1>9

\* The event loop runs a task.
LEMMA RunTaskConverses ==
    ASSUME DispatchInv, RunTask
    PROVE  \E r \in Requests : Writes(r) \/ Closes(r)
<1>1. PICK r \in Requests :
         \/ /\ Head(loopQueue) = <<"write", r>> /\ r \notin completed
            /\ worker[r] \in {"listen", "returned"}
            /\ response[r] \in {Ok, BadRequest, ServerError}
            /\ Written(r, response[r])
            /\ open' = (open /\ r \notin listener)
         \/ /\ Head(loopQueue) = <<"close", r>> /\ r \in completed
            /\ open' = FALSE /\ UNCHANGED <<wire, completed>>
  BY RunTaskIs
<1>2. loopQueue # <<>> /\ loopQueue' = Tail(loopQueue) /\ open \in BOOLEAN
  BY RunTaskIs DEF DispatchInv, TypeOK
<1>3. Taking' = Taking /\ UNCHANGED clientGone
  BY RunTaskIs, TakingIs DEF Waiting
<1>4. CASE /\ Head(loopQueue) = <<"write", r>> /\ r \notin completed
           /\ worker[r] \in {"listen", "returned"}
           /\ response[r] \in {Ok, BadRequest, ServerError}
           /\ Written(r, response[r]) /\ open' = (open /\ r \notin listener)
  <2>1. r \in Taking
    BY <1>4, TakingIs DEF DispatchInv, OnceInv
  <2>2. r \notin ToSet(Answered)
    BY <1>4, AnsweredIs DEF DispatchInv, WireInv, OnWire
  <2>3. Answered' = (IF open THEN Append(Answered, r) ELSE Answered)
    BY <1>4, WrittenKeeps
  <2> QED
    BY <1>2, <1>3, <1>4, <2>1, <2>2, <2>3 DEF Writes
<1>5. CASE /\ Head(loopQueue) = <<"close", r>> /\ r \in completed
           /\ open' = FALSE /\ UNCHANGED <<wire, completed>>
  <2>1. r \in ToSet(Answered) \/ ~open
    BY <1>5, AnsweredIs DEF DispatchInv, WireInv
  <2> QED
    BY <1>2, <1>3, <1>5, <2>1 DEF Closes, Answered
<1> QED
  BY <1>1, <1>4, <1>5

\* A thread of the pool hands over an answer or a close, or is busy.
LEMMA WorkerConverses ==
    ASSUME DispatchInv, NEW r \in Requests, Worker(r)
    PROVE  HandsOver(r) \/ HandsOverClose(r) \/ NothingSeen
<1>1. UNCHANGED <<kind, incoming, batch, wire, open, clientGone>>
  BY WorkerKeeps
<1>2. Taking' = Taking /\ Answered' = Answered /\ UNCHANGED <<open, clientGone>>
  BY <1>1, TakingIs DEF Waiting, Answered
<1>3. CASE WriteAndFlush(r)
  <2>1. worker[r] = "write" /\ loopQueue' = Append(loopQueue, <<"write", r>>)
    BY <1>3 DEF WriteAndFlush
  <2>2. r \in Taking /\ r \notin completed
    BY <2>1, TakingIs DEF DispatchInv, OnceInv, TaskInv
  <2>3. r \notin ToSet(Answered)
    BY <2>2, AnsweredIs DEF DispatchInv, WireInv, OnWire
  <2>4. <<"write", r>> \notin ToSet(loopQueue)
    <3> SUFFICES ASSUME NEW k \in DOMAIN loopQueue, loopQueue[k] = <<"write", r>>
                 PROVE  FALSE
      BY DEF ToSet
    <3>1. worker[r] \in {"listen", "returned"}
      BY DEF DispatchInv, TaskInv
    <3> QED
      BY <2>1, <3>1
  <2> QED
    BY <1>2, <2>1, <2>2, <2>3, <2>4 DEF HandsOver
<1>4. CASE AddListener(r)
  <2>1. CASE r \in completed
    <3>1. loopQueue' = Append(loopQueue, <<"close", r>>)
      BY <1>4, <2>1 DEF AddListener
    <3>2. r \in ToSet(Answered) \/ ~open
      BY <2>1, AnsweredIs DEF DispatchInv, WireInv
    <3> QED
      BY <1>2, <3>1, <3>2 DEF HandsOverClose
  <2>2. CASE r \notin completed
    BY <1>2, <1>4, <2>2 DEF AddListener, NothingSeen
  <2> QED
    BY <2>1, <2>2
<1>5. CASE Handle(r)
  BY <1>2, <1>5 DEF Handle, NothingSeen
<1> QED
  BY <1>3, <1>4, <1>5 DEF Worker

\* The client sees a step of HttpConversation or nothing.
LEMMA ConversationSteps ==
    ASSUME DispatchInv, [Next]_vars
    PROVE  \/ \E r \in Requests : \/ Receives(r) \/ Rejects(r) \/ HandsOver(r)
                                  \/ HandsOverClose(r) \/ Writes(r) \/ Closes(r)
           \/ ClientGoes
           \/ NothingSeen
<1>1. ASSUME NEW r \in Requests, NEW k \in Kinds, Send(r, k)
      PROVE  NothingSeen
  <2>1. /\ kind[r] = "not sent" /\ kind' = [kind EXCEPT ![r] = k]
        /\ incoming' = Append(incoming, r)
        /\ UNCHANGED <<wire, open, clientGone, batch, loopQueue>>
    BY <1>1 DEF Send
  <2>2. incoming \in Seq(Requests) /\ kind \in [Requests -> Kinds \union {"not sent"}]
    BY DEF DispatchInv, TypeOK
  <2>3. ToSet(Append(incoming, r)) = ToSet(incoming) \union {r}
    BY <2>2, QueuedSet
  <2>4. Waiting' = Waiting \union {r}
    BY <2>1, <2>3 DEF Waiting
  <2>5. \A q \in Requests \ {r} : kind'[q] = kind[q]
    BY <2>1, <2>2
  <2>6. Taking' = Taking
    BY <2>1, <2>4, <2>5, TakingIs
  <2> QED
    BY <2>1, <2>6 DEF NothingSeen, Answered
<1>2. CASE ReadBatch
  <2>1. Waiting' = Waiting /\ UNCHANGED <<kind, wire, open, clientGone, loopQueue>>
    BY <1>2, ReadBatchKeeps DEF ReadBatch
  <2> QED
    BY <2>1, TakingIs DEF NothingSeen, Answered
<1>3. CASE ClientCloses
  BY <1>3, TakingIs DEF ClientCloses, Waiting, ClientGoes, Answered
<1>4. CASE ReleaseOriginal
  BY <1>4, TakingIs DEF ReleaseOriginal, clientVars, Waiting, NothingSeen, Answered
<1>5. CASE Idle \/ UNCHANGED vars
  BY <1>5, TakingIs DEF Idle, vars, clientVars, Waiting, NothingSeen, Answered
<1> QED
  BY <1>1, <1>2, <1>3, <1>4, <1>5, ChannelReadConverses, RunTaskConverses, WorkerConverses
  DEF Next, EventLoop

\* To its client the server is HttpConversation, for any requests a client may pipeline
\* and any way controllers end: one answer each, in the order of handing over.
THEOREM Converses == Spec => ImplementsConversation
<1>1. Init => Conversation!Init
  <2> SUFFICES ASSUME Init
               PROVE  /\ Taking = {} /\ Answered = <<>> /\ loopQueue = <<>>
                      /\ open = TRUE /\ clientGone = FALSE
    BY DEF Conversation!Init, Taking, Answered
  <2>1. wire = <<>>
    BY DEF Init
  <2>2. Answered = <<>>
    BY <2>1 DEF Answered
  <2>3. Taking = {}
    BY DEF Init, Taking, Received
  <2> QED
    BY <2>2, <2>3 DEF Init
<1>2. DispatchInv /\ [Next]_vars => [Conversation!Next]_(Conversation!vars)
  <2> SUFFICES ASSUME DispatchInv, [Next]_vars
               PROVE  [Conversation!Next]_(Conversation!vars)
    OBVIOUS
  <2>1. ASSUME NEW r \in Requests, Receives(r)
        PROVE  Conversation!Receive(r)
    BY <2>1 DEF Receives, Conversation!Receive, Taking, Answered
  <2>2. ASSUME NEW r \in Requests, Rejects(r)
        PROVE  Conversation!Reject(r)
    BY <2>2 DEF Rejects, Conversation!Reject, Taking, Answered
  <2>3. ASSUME NEW r \in Requests, HandsOver(r)
        PROVE  Conversation!HandOver(r)
    BY <2>3
    DEF HandsOver, Conversation!HandOver, Taking, Answered, ToSet, Conversation!ToSet
  <2>4. ASSUME NEW r \in Requests, HandsOverClose(r)
        PROVE  Conversation!HandOverClose(r)
    BY <2>4
    DEF HandsOverClose, Conversation!HandOverClose, Taking, Answered, ToSet, Conversation!ToSet
  <2>5. ASSUME NEW r \in Requests, Writes(r)
        PROVE  Conversation!Answer(r) \/ Conversation!Drop(r)
    BY <2>5
    DEF Writes, Conversation!Answer, Conversation!Drop, Taking, Answered, ToSet,
        Conversation!ToSet
  <2>6. ASSUME NEW r \in Requests, Closes(r)
        PROVE  Conversation!Close(r)
    BY <2>6
    DEF Closes, Conversation!Close, Taking, Answered, ToSet, Conversation!ToSet
  <2>7. ClientGoes => Conversation!ClientCloses
    BY DEF ClientGoes, Conversation!ClientCloses, Taking, Answered
  <2>8. NothingSeen => UNCHANGED Conversation!vars
    BY DEF NothingSeen, Conversation!vars, Taking, Answered
  <2> QED
    BY <2>1, <2>2, <2>3, <2>4, <2>5, <2>6, <2>7, <2>8, ConversationSteps
    DEF Conversation!Next
<1> QED
  BY <1>1, <1>2, DispatchInvHolds, PTL DEF Spec, ImplementsConversation, Conversation!Spec

-----------------------------------------------------------------------------
(* The part of NobodyIsLeftWaiting and ClosesAfterWrite that needs no       *)
(* fairness.                                                                *)

Tasked(what, r) == \E k \in DOMAIN loopQueue : loopQueue[k] = <<what, r>>

\* A request the pipeline has seen is with its thread, which may have died, or its
\* response is queued or written.
OnItsWay(r) == \/ worker[r] \in {"handle", "write", "died"}
               \/ Tasked("write", r) \/ r \in completed

\* The thread of a request will have the channel closed, or the event loop will close it.
Closing(r) == worker[r] = "listen" \/ Tasked("close", r)

\* A thread of the pool that has returned left a listener or found the future completed.
ListenerInv ==
    \A r \in Requests : worker[r] = "returned" => r \in listener \union completed

\* On an open channel every request is not sent, waiting or on its way ...
AnswerInv == open => \A r \in Requests \ Waiting : kind[r] = "not sent" \/ OnItsWay(r)

\* ... and what is written is on the wire, and will close the channel.
CloseInv == open => \A r \in completed : OnWire(r) /\ Closing(r)

\* The inductive invariant, on top of DispatchInv.
PathInv == ListenerInv /\ AnswerInv /\ CloseInv

\* What is left to do, what comes first first: to send, to read, to pass through the
\* pipeline, to release, to handle, to write, to add listeners, to run tasks, to close.
Unsent == {r \in Requests : kind[r] = "not sent"}
Unread == ToSet(incoming)
Unpassed == ToSet(batch)
Unreleased == inRead0
With(state) == {r \in Requests : worker[r] = state}
TasksLeft == DOMAIN loopQueue
Unclosed == {TRUE} \intersect {open}

Stages == <<Unsent, Unread, Unpassed, Unreleased, With("handle"), With("write"), With("listen"),
            TasksLeft, Unclosed>>

\* Something is done, and nothing that comes before it is undone.
StageShrinks ==
    \E n \in 1 .. 9 : /\ \A k \in 1 .. n : Stages'[k] \subseteq Stages[k]
                      /\ Stages'[n] # Stages[n]

\* A task that is queued leaves the others queued.
LEMMA QueuedTask ==
    ASSUME TypeOK, NEW e \in Tasks, loopQueue' = Append(loopQueue, e)
    PROVE  /\ \A what, q : Tasked(what, q) => Tasked(what, q)'
           /\ \A what, q : e = <<what, q>> => Tasked(what, q)'
<1>1. loopQueue \in Seq(Tasks)
  BY TaskParts
<1>2. /\ DOMAIN loopQueue' = DOMAIN loopQueue \union {Len(loopQueue) + 1}
      /\ \A k \in DOMAIN loopQueue : loopQueue'[k] = loopQueue[k]
      /\ loopQueue'[Len(loopQueue) + 1] = e
  BY <1>1, Queued
<1> QED
  BY <1>2 DEF Tasked

\* A task that is taken leaves the others queued.
LEMMA TakenTask ==
    ASSUME TypeOK, loopQueue # <<>>, loopQueue' = Tail(loopQueue),
           NEW what, NEW q, Tasked(what, q), Head(loopQueue) # <<what, q>>
    PROVE  Tasked(what, q)'
<1>1. loopQueue \in Seq(Tasks)
  BY TaskParts
<1>2. PICK k \in DOMAIN loopQueue : loopQueue[k] = <<what, q>>
  BY DEF Tasked
<1>3. k # 1
  BY <1>1, <1>2, Taken
<1>4. k - 1 \in DOMAIN Tail(loopQueue) /\ k \in Nat
  BY <1>1, <1>3, Taken
<1>5. Tail(loopQueue)[k - 1] = loopQueue[(k - 1) + 1] /\ (k - 1) + 1 = k
  BY <1>1, <1>4, Taken
<1> QED
  BY <1>2, <1>4, <1>5 DEF Tasked

\* Writing leaves what is on the wire, and puts the response there if the channel is open.
LEMMA WrittenOnWire ==
    ASSUME DispatchInv, NEW r \in Requests, NEW a \in {Ok, BadRequest, ServerError},
           Written(r, a)
    PROVE  /\ completed' = completed \union {r}
           /\ \A q : OnWire(q) => OnWire(q)'
           /\ open => OnWire(r)'
BY WrittenKeeps

\* A step of the thread of a request.
LEMMA WorkerKeepsPath ==
    ASSUME DispatchInv, PathInv, NEW r \in Requests, Worker(r)
    PROVE  PathInv'
<1> USE DEF PathInv
<1>1. TypeOK /\ worker \in [Requests -> WorkerStates]
  BY DEF DispatchInv, TypeOK
<1>2. UNCHANGED <<kind, incoming, batch, wire, open, completed>>
  BY DEF Worker, Handle, WriteAndFlush, AddListener, clientVars
<1>3. \A q \in Requests \ {r} : worker'[q] = worker[q]
  BY <1>1 DEF Worker, Handle, WriteAndFlush, AddListener
<1>4. Waiting' = Waiting /\ \A q : OnWire(q)' <=> OnWire(q)
  BY <1>2 DEF Waiting, OnWire
<1>5. completed \subseteq Requests
  BY <1>1 DEF TypeOK
<1>6. CASE Handle(r)
  <2>1. /\ worker[r] = "handle" /\ worker'[r] \in {"write", "died"}
        /\ UNCHANGED <<loopQueue, listener>>
    BY <1>1, <1>6 DEF Handle
  <2>2. \A what, q : Tasked(what, q)' <=> Tasked(what, q)
    BY <2>1 DEF Tasked
  <2>3. ListenerInv'
    BY <1>2, <1>3, <2>1 DEF ListenerInv
  <2>4. AnswerInv'
    BY <1>2, <1>3, <1>4, <2>1, <2>2 DEF AnswerInv, OnItsWay
  <2>5. CloseInv'
    BY <1>2, <1>3, <1>4, <1>5, <2>1, <2>2 DEF CloseInv, Closing
  <2> QED
    BY <2>3, <2>4, <2>5
<1>7. CASE WriteAndFlush(r)
  <2>1. /\ worker[r] = "write" /\ worker'[r] = "listen"
        /\ loopQueue' = Append(loopQueue, <<"write", r>>)
        /\ UNCHANGED listener
    BY <1>1, <1>7 DEF WriteAndFlush
  <2>2. <<"write", r>> \in Tasks
    BY DEF Tasks
  <2>3. Tasked("write", r)' /\ \A what, q : Tasked(what, q) => Tasked(what, q)'
    BY <1>1, <2>1, <2>2, QueuedTask
  <2>4. ListenerInv'
    BY <1>2, <1>3, <2>1 DEF ListenerInv
  <2>5. AnswerInv'
    BY <1>2, <1>3, <1>4, <2>3 DEF AnswerInv, OnItsWay
  <2>6. CloseInv'
    BY <1>2, <1>3, <1>4, <1>5, <2>1, <2>3 DEF CloseInv, Closing
  <2> QED
    BY <2>4, <2>5, <2>6
<1>8. CASE AddListener(r)
  <2>1. worker[r] = "listen" /\ worker'[r] = "returned"
    BY <1>1, <1>8 DEF AddListener
  <2>2. CASE r \in completed
    <3>1. loopQueue' = Append(loopQueue, <<"close", r>>) /\ UNCHANGED listener
      BY <1>8, <2>2 DEF AddListener
    <3>2. <<"close", r>> \in Tasks
      BY DEF Tasks
    <3>3. Tasked("close", r)' /\ \A what, q : Tasked(what, q) => Tasked(what, q)'
      BY <1>1, <3>1, <3>2, QueuedTask
    <3>4. ListenerInv'
      BY <1>2, <1>3, <2>2, <3>1 DEF ListenerInv
    <3>5. AnswerInv'
      BY <1>2, <1>3, <1>4, <2>1, <3>3 DEF AnswerInv, OnItsWay
    <3>6. CloseInv'
      BY <1>2, <1>3, <1>4, <1>5, <3>3 DEF CloseInv, Closing
    <3> QED
      BY <3>4, <3>5, <3>6
  <2>3. CASE r \notin completed
    <3>1. UNCHANGED loopQueue /\ listener' = listener \union {r}
      BY <1>8, <2>3 DEF AddListener
    <3>2. \A what, q : Tasked(what, q)' <=> Tasked(what, q)
      BY <3>1 DEF Tasked
    <3>3. ListenerInv'
      BY <1>2, <1>3, <3>1 DEF ListenerInv
    <3>4. AnswerInv'
      BY <1>2, <1>3, <1>4, <2>1, <3>2 DEF AnswerInv, OnItsWay
    <3>5. CloseInv'
      BY <1>2, <1>3, <1>4, <1>5, <2>3, <3>2 DEF CloseInv, Closing
    <3> QED
      BY <3>3, <3>4, <3>5
  <2> QED
    BY <2>2, <2>3
<1> QED
  BY <1>6, <1>7, <1>8 DEF Worker

\* A request the pipeline passes on is with its thread; one it rejects closes the channel.
LEMMA ChannelReadKeepsPath ==
    ASSUME DispatchInv, PathInv, ChannelRead
    PROVE  PathInv'
<1> USE DEF PathInv
<1> DEFINE r == Head(batch)
<1>1. /\ r \in Waiting /\ Waiting' = Waiting \ {r} /\ r \in Requests
      /\ UNCHANGED <<kind, loopQueue, listener>>
  BY ChannelReadKeeps, WaitingRequests DEF ChannelRead, clientVars, DispatchInv
<1>2. worker[r] = "none" /\ r \notin completed
  BY <1>1 DEF DispatchInv, OnceInv
<1>3. Reject(r) \/ ChannelRead0(r)
  BY DEF ChannelRead
<1>4. worker \in [Requests -> WorkerStates] /\ completed \subseteq Requests
  BY DEF DispatchInv, TypeOK
<1> HIDE DEF r
<1>5. CASE Reject(r)
  <2>1. open' = FALSE /\ UNCHANGED worker /\ completed \subseteq completed'
    BY <1>5 DEF Reject, Written
  <2> QED
    BY <1>1, <2>1 DEF ListenerInv, AnswerInv, CloseInv
<1>6. CASE ChannelRead0(r)
  <2>1. /\ worker'[r] = "handle" /\ \A q \in Requests \ {r} : worker'[q] = worker[q]
        /\ UNCHANGED <<open, completed, wire>>
    BY <1>1, <1>4, <1>6 DEF ChannelRead0
  <2>2. /\ \A what, q : Tasked(what, q)' <=> Tasked(what, q)
        /\ \A q : OnWire(q)' <=> OnWire(q)
    BY <1>1, <2>1 DEF Tasked, OnWire
  <2>3. ListenerInv'
    BY <1>1, <2>1 DEF ListenerInv
  <2>4. AnswerInv'
    BY <1>1, <2>1, <2>2 DEF AnswerInv, OnItsWay
  <2>5. CloseInv'
    BY <1>2, <1>4, <2>1, <2>2 DEF CloseInv, Closing
  <2> QED
    BY <2>3, <2>4, <2>5
<1> QED
  BY <1>3, <1>5, <1>6

\* A task writes the response of a thread that has still to add its listener, or of one
\* whose listener closes the channel.
LEMMA RunTaskKeepsPath ==
    ASSUME DispatchInv, PathInv, RunTask
    PROVE  PathInv'
<1> USE DEF PathInv
<1>1. /\ loopQueue # <<>> /\ loopQueue' = Tail(loopQueue)
      /\ UNCHANGED <<kind, incoming, batch, worker, listener>>
  BY RunTaskIs
<1>2. PICK r \in Requests :
         \/ /\ Head(loopQueue) = <<"write", r>> /\ r \notin completed
            /\ worker[r] \in {"listen", "returned"}
            /\ response[r] \in {Ok, BadRequest, ServerError}
            /\ Written(r, response[r])
            /\ open' = (open /\ r \notin listener)
         \/ /\ Head(loopQueue) = <<"close", r>> /\ r \in completed
            /\ open' = FALSE /\ UNCHANGED <<wire, completed>>
  BY RunTaskIs
<1>3. Waiting' = Waiting /\ TypeOK
  BY <1>1 DEF Waiting, DispatchInv
<1>4. CASE open' = FALSE /\ UNCHANGED <<wire, completed>>
  BY <1>1, <1>4 DEF ListenerInv, AnswerInv, CloseInv
<1>5. CASE /\ Head(loopQueue) = <<"write", r>> /\ r \notin completed
           /\ worker[r] \in {"listen", "returned"}
           /\ response[r] \in {Ok, BadRequest, ServerError}
           /\ Written(r, response[r])
           /\ open' = (open /\ r \notin listener)
  <2>1. /\ completed' = completed \union {r}
        /\ \A q : OnWire(q) => OnWire(q)'
        /\ open => OnWire(r)'
    BY <1>5, WrittenOnWire
  <2>2. open' => open /\ worker[r] = "listen"
    BY <1>5 DEF ListenerInv
  <2>3. ASSUME NEW what, NEW q, Tasked(what, q), <<what, q>> # <<"write", r>>
        PROVE  Tasked(what, q)'
    BY <1>1, <1>3, <1>5, <2>3, TakenTask
  <2>4. ListenerInv'
    BY <1>1, <2>1 DEF ListenerInv
  <2>5. AnswerInv'
    <3> SUFFICES ASSUME open', NEW q \in Requests \ Waiting, kind[q] # "not sent"
                 PROVE  OnItsWay(q)'
      BY <1>1, <1>3 DEF AnswerInv
    <3>1. OnItsWay(q)
      BY <2>2 DEF AnswerInv
    <3>2. CASE q = r
      BY <2>1, <3>2 DEF OnItsWay
    <3>3. CASE q # r
      <4>1. Tasked("write", q) => Tasked("write", q)'
        BY <2>3, <3>3
      <4> QED
        BY <1>1, <2>1, <3>1, <4>1 DEF OnItsWay
    <3> QED
      BY <3>2, <3>3
  <2>6. CloseInv'
    <3> SUFFICES ASSUME open', NEW q \in completed'
                 PROVE  OnWire(q)' /\ Closing(q)'
      BY DEF CloseInv
    <3>1. CASE q = r
      BY <1>1, <2>1, <2>2, <3>1 DEF Closing
    <3>2. CASE q # r
      <4>1. q \in completed /\ OnWire(q) /\ Closing(q)
        BY <2>1, <2>2, <3>2 DEF CloseInv
      <4>2. Tasked("close", q) => Tasked("close", q)'
        BY <2>3
      <4> QED
        BY <1>1, <2>1, <4>1, <4>2 DEF Closing
    <3> QED
      BY <3>1, <3>2
  <2> QED
    BY <2>4, <2>5, <2>6
<1> QED
  BY <1>2, <1>4, <1>5

\* Every step keeps requests and closes on their way.
LEMMA PathInvHolds == Spec => []PathInv
<1>1. Init => PathInv
  BY DEF Init, PathInv, ListenerInv, AnswerInv, CloseInv
<1>2. DispatchInv /\ PathInv /\ [Next]_vars => PathInv'
  <2> SUFFICES ASSUME DispatchInv, PathInv, [Next]_vars
               PROVE  PathInv'
    OBVIOUS
  <2>1. ASSUME UNCHANGED <<loopQueue, worker, completed, listener, wire>>,
               open' => open,
               \A q \in Requests \ Waiting' : q \notin Waiting /\ kind'[q] = kind[q]
        PROVE  PathInv'
    <3>1. /\ \A what, q : Tasked(what, q)' <=> Tasked(what, q)
          /\ \A q : OnWire(q)' <=> OnWire(q)
      BY <2>1 DEF Tasked, OnWire
    <3>2. ListenerInv'
      BY <2>1 DEF PathInv, ListenerInv
    <3>3. AnswerInv'
      BY <2>1, <3>1 DEF PathInv, AnswerInv, OnItsWay
    <3>4. CloseInv'
      BY <2>1, <3>1 DEF PathInv, CloseInv, Closing
    <3> QED
      BY <3>2, <3>3, <3>4 DEF PathInv
  <2>2. ASSUME NEW r \in Requests, NEW k \in Kinds, Send(r, k)
        PROVE  PathInv'
    <3>1. incoming \in Seq(Requests) /\ kind' = [kind EXCEPT ![r] = k]
          /\ incoming' = Append(incoming, r)
          /\ UNCHANGED <<batch, loopQueue, worker, completed, listener, wire, open>>
      BY <2>2 DEF Send, DispatchInv, TypeOK
    <3>2. ToSet(incoming') = ToSet(incoming) \union {r}
      BY <3>1, QueuedSet
    <3>3. Waiting' = Waiting \union {r}
      BY <3>1, <3>2 DEF Waiting
    <3>4. \A q \in Requests \ {r} : kind'[q] = kind[q]
      BY <3>1 DEF DispatchInv, TypeOK
    <3> QED
      BY <2>1, <3>1, <3>3, <3>4
  <2>3. CASE ReadBatch
    <3>1. Waiting' = Waiting
          /\ UNCHANGED <<kind, loopQueue, worker, completed, listener, wire, open>>
      BY <2>3, ReadBatchKeeps DEF ReadBatch
    <3> QED
      BY <2>1, <3>1
  <2>4. CASE ClientCloses \/ Idle \/ UNCHANGED vars
    BY <2>1, <2>4 DEF ClientCloses, Idle, vars, clientVars, Waiting
  <2>5. CASE ReleaseOriginal
    BY <2>1, <2>5 DEF ReleaseOriginal, clientVars, Waiting
  <2> QED
    BY <2>2, <2>3, <2>4, <2>5, ChannelReadKeepsPath, RunTaskKeepsPath, WorkerKeepsPath
    DEF Next, EventLoop
<1> QED
  BY <1>1, <1>2, DispatchInvHolds, PTL DEF Spec

\* What NobodyIsLeftWaiting needs besides fairness: as long as the channel is open, a
\* request that was read is with its thread, which can go on unless it has died, or its
\* response is queued on the event loop or on the wire.
THEOREM AnswersAreOnTheirWay ==
    Spec => [](\A r \in Requests :
                  Received(r) /\ open => \/ worker[r] \in {"handle", "write", "died"}
                                         \/ Tasked("write", r) \/ OnWire(r))
<1>1. PathInv => \A r \in Requests :
                    Received(r) /\ open => \/ worker[r] \in {"handle", "write", "died"}
                                           \/ Tasked("write", r) \/ OnWire(r)
  BY DEF PathInv, AnswerInv, CloseInv, OnItsWay, Received, Waiting
<1> QED
  BY <1>1, PathInvHolds, PTL

\* What ClosesAfterWrite needs besides fairness: once anything is on the wire of an open
\* channel, some thread has still to add its CLOSE listener or the event loop has a close
\* to run, whichever of the two threads was faster.
THEOREM ACloseIsOnItsWay ==
    Spec => [](wire # <<>> /\ open => \E r \in Requests : Closing(r))
<1>1. DispatchInv /\ PathInv => (wire # <<>> /\ open => \E r \in Requests : Closing(r))
  <2> SUFFICES ASSUME DispatchInv, PathInv, wire # <<>>, open
               PROVE  \E r \in Requests : Closing(r)
    OBVIOUS
  <2>1. wire \in Seq(Answers) /\ 1 \in DOMAIN wire
    <3>1. wire \in Seq(Answers)
      BY DEF DispatchInv, TypeOK, Answers
    <3> QED
      BY <3>1
  <2>2. wire[1].req \in completed /\ completed \subseteq Requests
    BY <2>1 DEF DispatchInv, TypeOK, WireInv
  <2> QED
    BY <2>2 DEF PathInv, CloseInv
<1> QED
  BY <1>1, DispatchInvHolds, PathInvHolds, PTL

\* A stage that shrinks while those before it do not grow.
LEMMA AStageShrinks ==
    ASSUME NEW n \in 1 .. 9, \A k \in 1 .. n : Stages'[k] \subseteq Stages[k],
           Stages'[n] # Stages[n]
    PROVE  StageShrinks
BY DEF StageShrinks

\* The stages one by one.
LEMMA StageNumbers ==
    /\ Stages[1] = Unsent /\ Stages[2] = Unread /\ Stages[3] = Unpassed
    /\ Stages[4] = Unreleased /\ Stages[5] = With("handle") /\ Stages[6] = With("write")
    /\ Stages[7] = With("listen") /\ Stages[8] = TasksLeft /\ Stages[9] = Unclosed
    /\ Stages'[1] = Unsent' /\ Stages'[2] = Unread' /\ Stages'[3] = Unpassed'
    /\ Stages'[4] = Unreleased' /\ Stages'[5] = With("handle")'
    /\ Stages'[6] = With("write")' /\ Stages'[7] = With("listen")'
    /\ Stages'[8] = TasksLeft' /\ Stages'[9] = Unclosed'
BY DEF Stages

\* What is left of a stage whose variables do not change.
LEMMA StagesRest ==
    /\ UNCHANGED kind => Unsent' = Unsent
    /\ UNCHANGED incoming => Unread' = Unread
    /\ UNCHANGED batch => Unpassed' = Unpassed
    /\ UNCHANGED inRead0 => Unreleased' = Unreleased
    /\ UNCHANGED worker => \A s \in WorkerStates : With(s)' = With(s)
    /\ UNCHANGED loopQueue => TasksLeft' = TasksLeft
BY DEF Unsent, Unread, Unpassed, Unreleased, With, TasksLeft

\* Every step of the client, the event loop or a thread leaves less to do: for any finite
\* number of pipelined requests nothing goes on for ever, so that what is on its way
\* arrives.
THEOREM DispatchRunsEnd == Spec => [][StageShrinks]_vars
<1>1. DispatchInv /\ DispatchInv' /\ [Next]_vars => [StageShrinks]_vars
  <2> SUFFICES ASSUME DispatchInv, DispatchInv', Next, ~UNCHANGED vars
               PROVE  StageShrinks
    OBVIOUS
  <2>1. TypeOK /\ worker \in [Requests -> WorkerStates] /\ kind \in [Requests -> Kinds \union {"not sent"}]
    BY DEF DispatchInv, TypeOK
  <2>2. ASSUME NEW r \in Requests, NEW k \in Kinds, Send(r, k)
        PROVE  StageShrinks
    <3>1. kind[r] = "not sent" /\ kind'[r] # "not sent" /\ \A q \in Requests \ {r} : kind'[q] = kind[q]
      BY <2>1, <2>2 DEF Send, Kinds
    <3>2. Unsent' \subseteq Unsent /\ Unsent' # Unsent
      BY <3>1 DEF Unsent
    <3>3. Stages'[1] \subseteq Stages[1] /\ Stages'[1] # Stages[1]
      BY <3>2, StageNumbers
    <3> QED
      BY <3>3, AStageShrinks
  <2>3. CASE ReadBatch
    <3>1. PICK n \in DOMAIN incoming :
             /\ batch' = SubSeq(incoming, 1, n)
             /\ incoming' = SubSeq(incoming, n + 1, Len(incoming))
      BY <2>3 DEF ReadBatch
    <3>2. incoming \in Seq(Requests) /\ IsInjective(incoming) /\ UNCHANGED kind
      BY <2>3 DEF ReadBatch, DispatchInv, TypeOK, OnceInv
    <3>3. /\ ToSet(incoming) = ToSet(batch') \union ToSet(incoming')
          /\ ToSet(batch') \intersect ToSet(incoming') = {}
      BY <3>1, <3>2, CutSet
    <3>4. batch' # <<>> /\ batch' \in Seq(Requests)
      BY <3>1, <3>2
    <3>5. ToSet(batch') # {}
      BY <3>4, TakenSet
    <3>6. Unread' \subseteq Unread /\ Unread' # Unread
      BY <3>3, <3>5 DEF Unread
    <3>7. Unsent' = Unsent
      BY <3>2, StagesRest
    <3>8. \A k \in 1 .. 2 : Stages'[k] \subseteq Stages[k]
      BY <3>6, <3>7, StageNumbers
    <3> QED
      BY <3>6, <3>8, StageNumbers, AStageShrinks
  <2>4. CASE ChannelRead
    <3>1. /\ batch # <<>> /\ batch' = Tail(batch) /\ UNCHANGED <<kind, incoming>>
          /\ batch \in Seq(Requests) /\ IsInjective(batch)
      BY <2>4 DEF ChannelRead, clientVars, DispatchInv, TypeOK, OnceInv
    <3>2. Unpassed' \subseteq Unpassed /\ Unpassed' # Unpassed
      BY <3>1, TakenSet DEF Unpassed
    <3>3. Unsent' = Unsent /\ Unread' = Unread
      BY <3>1, StagesRest
    <3>4. \A k \in 1 .. 3 : Stages'[k] \subseteq Stages[k]
      BY <3>2, <3>3, StageNumbers
    <3> QED
      BY <3>2, <3>4, StageNumbers, AStageShrinks
  <2>10. CASE ReleaseOriginal
    <3>1. inRead0 # {} /\ inRead0' = {} /\ UNCHANGED <<kind, incoming, batch>>
      BY <2>10 DEF ReleaseOriginal, clientVars
    <3>2. Unreleased' \subseteq Unreleased /\ Unreleased' # Unreleased
      BY <3>1 DEF Unreleased
    <3>3. Unsent' = Unsent /\ Unread' = Unread /\ Unpassed' = Unpassed
      BY <3>1, StagesRest
    <3>4. \A k \in 1 .. 4 : Stages'[k] \subseteq Stages[k]
      BY <3>2, <3>3, StageNumbers
    <3> QED
      BY <3>2, <3>4, StageNumbers, AStageShrinks
  <2>5. ASSUME NEW r \in Requests, Handle(r)
        PROVE  StageShrinks
    <3>1. /\ UNCHANGED <<kind, incoming, batch, inRead0>>
          /\ worker[r] = "handle" /\ worker'[r] # "handle"
          /\ \A q \in Requests \ {r} : worker'[q] = worker[q]
      BY <2>1, <2>5 DEF Handle, clientVars
    <3>2. With("handle")' \subseteq With("handle") /\ With("handle")' # With("handle")
      BY <3>1 DEF With
    <3>3. /\ Unsent' = Unsent /\ Unread' = Unread /\ Unpassed' = Unpassed
          /\ Unreleased' = Unreleased
      BY <3>1, StagesRest
    <3>4. \A k \in 1 .. 5 : Stages'[k] \subseteq Stages[k]
      BY <3>2, <3>3, StageNumbers
    <3> QED
      BY <3>2, <3>4, StageNumbers, AStageShrinks
  <2>6. ASSUME NEW r \in Requests, WriteAndFlush(r)
        PROVE  StageShrinks
    <3>1. /\ UNCHANGED <<kind, incoming, batch, inRead0>>
          /\ worker[r] = "write" /\ worker'[r] = "listen"
          /\ \A q \in Requests \ {r} : worker'[q] = worker[q]
      BY <2>1, <2>6 DEF WriteAndFlush, clientVars
    <3>2. /\ With("handle")' \subseteq With("handle")
          /\ With("write")' \subseteq With("write") /\ With("write")' # With("write")
      BY <3>1 DEF With
    <3>3. /\ Unsent' = Unsent /\ Unread' = Unread /\ Unpassed' = Unpassed
          /\ Unreleased' = Unreleased
      BY <3>1, StagesRest
    <3>4. \A k \in 1 .. 6 : Stages'[k] \subseteq Stages[k]
      BY <3>2, <3>3, StageNumbers
    <3> QED
      BY <3>2, <3>4, StageNumbers, AStageShrinks
  <2>7. ASSUME NEW r \in Requests, AddListener(r)
        PROVE  StageShrinks
    <3>1. /\ UNCHANGED <<kind, incoming, batch, inRead0>>
          /\ worker[r] = "listen" /\ worker'[r] = "returned"
          /\ \A q \in Requests \ {r} : worker'[q] = worker[q]
      BY <2>1, <2>7 DEF AddListener, clientVars
    <3>2. /\ With("handle")' \subseteq With("handle") /\ With("write")' \subseteq With("write")
          /\ With("listen")' \subseteq With("listen") /\ With("listen")' # With("listen")
      BY <3>1 DEF With
    <3>3. /\ Unsent' = Unsent /\ Unread' = Unread /\ Unpassed' = Unpassed
          /\ Unreleased' = Unreleased
      BY <3>1, StagesRest
    <3>4. \A k \in 1 .. 7 : Stages'[k] \subseteq Stages[k]
      BY <3>2, <3>3, StageNumbers
    <3> QED
      BY <3>2, <3>4, StageNumbers, AStageShrinks
  <2>8. CASE RunTask
    <3>1. /\ loopQueue # <<>> /\ loopQueue' = Tail(loopQueue)
          /\ UNCHANGED <<kind, incoming, batch, inRead0, worker>>
      BY <2>8, RunTaskIs
    <3>2. loopQueue \in Seq(Tasks)
      BY <2>1, TaskParts
    <3>3. TasksLeft' \subseteq TasksLeft /\ TasksLeft' # TasksLeft
      <4>1. PICK n \in Nat : n = Len(loopQueue)
        BY <3>2
      <4>2. n # 0 /\ TasksLeft = 1 .. n /\ TasksLeft' = 1 .. (n - 1)
        BY <3>1, <3>2, <4>1 DEF TasksLeft
      <4>3. n \in 1 .. n /\ n \notin 1 .. (n - 1) /\ 1 .. (n - 1) \subseteq 1 .. n
        BY <4>1, <4>2
      <4> QED
        BY <4>2, <4>3
    <3>4. /\ Unsent' = Unsent /\ Unread' = Unread /\ Unpassed' = Unpassed
          /\ Unreleased' = Unreleased
          /\ With("handle")' = With("handle") /\ With("write")' = With("write")
          /\ With("listen")' = With("listen")
      BY <3>1, StagesRest DEF WorkerStates
    <3>5. \A k \in 1 .. 8 : Stages'[k] \subseteq Stages[k]
      BY <3>3, <3>4, StageNumbers
    <3> QED
      BY <3>3, <3>5, StageNumbers, AStageShrinks
  <2>9. CASE ClientCloses
    <3>1. open /\ ~open' /\ UNCHANGED <<kind, incoming, batch, inRead0, worker, loopQueue>>
          /\ open \in BOOLEAN /\ open' \in BOOLEAN
      BY <2>9 DEF ClientCloses, DispatchInv, TypeOK
    <3>2. Unclosed' \subseteq Unclosed /\ Unclosed' # Unclosed
      BY <3>1 DEF Unclosed
    <3>3. /\ Unsent' = Unsent /\ Unread' = Unread /\ Unpassed' = Unpassed
          /\ Unreleased' = Unreleased
          /\ With("handle")' = With("handle") /\ With("write")' = With("write")
          /\ With("listen")' = With("listen") /\ TasksLeft' = TasksLeft
      BY <3>1, StagesRest DEF WorkerStates
    <3>4. \A k \in 1 .. 9 : Stages'[k] \subseteq Stages[k]
      BY <3>2, <3>3, StageNumbers
    <3> QED
      BY <3>2, <3>4, StageNumbers, AStageShrinks
  <2> QED
    BY <2>2, <2>3, <2>4, <2>5, <2>6, <2>7, <2>8, <2>9, <2>10
    DEF Next, EventLoop, Worker, Idle
<1> QED
  BY <1>1, DispatchInvHolds, PTL DEF Spec

=============================================================================
