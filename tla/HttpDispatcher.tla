--------------------------- MODULE HttpDispatcher ---------------------------
(***************************************************************************)
(* One connection of the Netty HTTP server (SpringNettyConfiguration,      *)
(* InterceptorHandler, DispatcherServlet, HttpResponse).                   *)
(*                                                                         *)
(* Two kinds of threads touch the connection.  Its event loop reads a      *)
(* batch of decoded requests and passes each through the pipeline: the     *)
(* interceptor answers anything but GET and POST itself, the dispatcher    *)
(* copies the request and hands it to the cached thread pool, so that each *)
(* request has a thread of its own; once channelRead0 has returned,        *)
(* SimpleChannelInboundHandler releases the original, while that thread    *)
(* may already run.  The thread computes the response, calls               *)
(* writeAndFlush, which only queues a task for the event loop, and then    *)
(* adds the CLOSE listener to the future it got back.                      *)
(*                                                                         *)
(* External, modelled from their use here: HttpServerCodec,                *)
(* HttpObjectAggregator and the socket (a response that is flushed is on   *)
(* the wire: the send buffer of 1 MB never fills), reference counting of   *)
(* buffers, futures that call their listeners on the event loop.           *)
(***************************************************************************)
EXTENDS Naturals, Sequences, SequencesExt

CONSTANTS Requests,   \* the requests a client may pipeline on the connection
          Outcomes    \* how controllers end: "returns", "returnsNull",
                      \* "throws" or "throwsNoMessage"

ASSUME HttpDispatcherAssumption ==
    Outcomes \subseteq {"returns", "returnsNull", "throws", "throwsNoMessage"}

VARIABLES kind,        \* what each request is, once the client has sent it
          incoming,    \* requests sent and not yet read
          batch,       \* requests read together and not yet in the pipeline
          inRead0,     \* the request channelRead0 was called with, if its
                       \* original is still to be released
          loopQueue,   \* the tasks other threads have queued on the event loop
          open,        \* the channel is open
          clientGone,  \* the client closed its side
          refCnt,      \* reference counts of each request and of its copy
          worker,      \* where the pool's thread for each request is
          response,    \* the response it has computed
          completed,   \* requests whose writeAndFlush future is completed
          listener,    \* requests whose future has a CLOSE listener waiting
          wire         \* responses that reached the client, in order

clientVars == <<kind, incoming, clientGone>>
vars == <<clientVars, batch, inRead0, loopQueue, open, refCnt, worker,
          response, completed, listener, wire>>

\* What the pipeline tells apart in a request.
Kinds == {"known path", "unknown path", "other method"}

\* A response is its status.
Ok == 200
BadRequest == 400
ServerError == 500
NotComputed == 0

\* The pool's thread: not started, in handleRequest, about to write, about to
\* add the listener, returned, ended by an exception.
WorkerStates == {"none", "handle", "write", "listen", "returned", "died"}

TypeOK ==
    /\ kind \in [Requests -> Kinds \union {"not sent"}]
    /\ incoming \in Seq(Requests)
    /\ batch \in Seq(Requests)
    /\ inRead0 \subseteq Requests
    /\ loopQueue \in Seq({"write", "close"} \X Requests)
    /\ open \in BOOLEAN
    /\ clientGone \in BOOLEAN
    /\ refCnt \in [Requests -> [own : 0 .. 1, copy : 0 .. 1]]
    /\ worker \in [Requests -> WorkerStates]
    /\ response \in [Requests -> {NotComputed, Ok, BadRequest, ServerError}]
    /\ completed \subseteq Requests
    /\ listener \subseteq Requests
    /\ wire \in Seq([req : Requests, status : {Ok, BadRequest, ServerError}])

Init ==
    /\ kind = [r \in Requests |-> "not sent"]
    /\ incoming = <<>>
    /\ batch = <<>>
    /\ inRead0 = {}
    /\ loopQueue = <<>>
    /\ open = TRUE
    /\ clientGone = FALSE
    /\ refCnt = [r \in Requests |-> [own |-> 0, copy |-> 0]]
    /\ worker = [r \in Requests |-> "none"]
    /\ response = [r \in Requests |-> NotComputed]
    /\ completed = {}
    /\ listener = {}
    /\ wire = <<>>

-----------------------------------------------------------------------------
(* The client.                                                              *)

Send(r, k) ==
    /\ open
    /\ kind[r] = "not sent"
    /\ kind' = [kind EXCEPT ![r] = k]
    /\ incoming' = Append(incoming, r)
    /\ UNCHANGED <<clientGone, batch, inRead0, loopQueue, open, refCnt, worker,
                   response, completed, listener, wire>>

\* The event loop is between two turns: the pipeline is done with what was read.
PipelineIsEmpty == batch = <<>> /\ inRead0 = {}

\* The event loop notices a closed peer between two batches.
ClientCloses ==
    /\ open
    /\ PipelineIsEmpty
    /\ open' = FALSE
    /\ clientGone' = TRUE
    /\ UNCHANGED <<kind, incoming, batch, inRead0, loopQueue, refCnt, worker,
                   response, completed, listener, wire>>

-----------------------------------------------------------------------------
(* The event loop.                                                          *)

\* A read takes some of what has arrived; the decoder passes all of it on in
\* the same turn, also when one of the requests gets the channel closed.
ReadBatch ==
    /\ open
    /\ PipelineIsEmpty
    /\ \E n \in DOMAIN incoming :
          /\ batch' = SubSeq(incoming, 1, n)
          /\ incoming' = SubSeq(incoming, n + 1, Len(incoming))
          /\ refCnt' = [r \in Requests |->
                          IF r \in ToSet(SubSeq(incoming, 1, n))
                          THEN [refCnt[r] EXCEPT !.own = 1] ELSE refCnt[r]]
    /\ UNCHANGED <<kind, clientGone, inRead0, loopQueue, open, worker, response,
                   completed, listener, wire>>

\* Writing on the event loop: the response is on the wire unless the channel
\* is closed, and the future is completed either way.
Written(r, answer) ==
    /\ wire' = IF open
               THEN Append(wire, [req |-> r, status |-> answer])
               ELSE wire
    /\ completed' = completed \union {r}

\* release() by the handler that ends the way of the original.
Released(r) == refCnt' = [refCnt EXCEPT ![r].own = @ - 1]

\* InterceptorHandler.channelRead of anything but GET and POST: release,
\* answer, and close as soon as the answer is written, which is at once.
Reject(r) ==
    /\ kind[r] = "other method"
    /\ Released(r)
    /\ Written(r, BadRequest)
    /\ open' = FALSE
    /\ UNCHANGED <<worker, inRead0>>

\* Mutant: the request itself is handed over, not a copy.
HandedOver_mutant == "own"

\* The buffer channelRead0 hands to the pool's thread.
HandedOver == "copy"

\* DispatcherServlet.channelRead0: copy, which has a count of its own, and
\* execute.  From here on the thread runs.
ChannelRead0(r) ==
    /\ kind[r] # "other method"
    /\ refCnt' = [refCnt EXCEPT ![r].copy = @ + 1]
    /\ worker' = [worker EXCEPT ![r] = "handle"]
    /\ inRead0' = {r}
    /\ UNCHANGED <<open, completed, wire>>

ChannelRead ==
    /\ batch # <<>>
    /\ inRead0 = {}
    /\ Reject(Head(batch)) \/ ChannelRead0(Head(batch))
    /\ batch' = Tail(batch)
    /\ UNCHANGED <<clientVars, loopQueue, response, listener>>

\* SimpleChannelInboundHandler.channelRead once channelRead0 has returned.
ReleaseOriginal ==
    /\ \E r \in inRead0 : Released(r)
    /\ inRead0' = {}
    /\ UNCHANGED <<clientVars, batch, loopQueue, open, worker, response,
                   completed, listener, wire>>

\* A task another thread queued: the write of writeAndFlush, which completes
\* the future and tells a listener that is already there, or a listener that
\* was added to a completed future.
RunTask ==
    /\ PipelineIsEmpty
    /\ loopQueue # <<>>
    /\ loopQueue' = Tail(loopQueue)
    /\ LET task == Head(loopQueue)
           r == task[2]
       IN  IF task[1] = "write"
           THEN /\ Written(r, response[r])
                /\ open' = (open /\ r \notin listener)
           ELSE /\ open' = FALSE
                /\ UNCHANGED <<wire, completed>>
    /\ UNCHANGED <<clientVars, batch, inRead0, refCnt, worker, response, listener>>

-----------------------------------------------------------------------------
(* The pool's thread: DispatcherServlet.handleRequest and writeResponse.    *)

\* The response of a controller that returns, returns null or throws.
ControllerResponse(outcome) ==
    CASE outcome = "returns" -> Ok
      [] outcome = "returnsNull" -> ServerError
      [] outcome = "throws" -> ServerError

\* An exception without a message makes HttpResponse.fail throw inside the
\* catch block, and nobody catches that.
Handle(r) ==
    /\ worker[r] = "handle"
    /\ \/ /\ kind[r] = "unknown path"
          /\ response' = [response EXCEPT ![r] = BadRequest]
          /\ worker' = [worker EXCEPT ![r] = "write"]
       \/ /\ kind[r] = "known path"
          /\ \E outcome \in Outcomes \ {"throwsNoMessage"} :
                response' = [response EXCEPT ![r] = ControllerResponse(outcome)]
          /\ worker' = [worker EXCEPT ![r] = "write"]
       \/ /\ kind[r] = "known path"
          /\ "throwsNoMessage" \in Outcomes
          /\ worker' = [worker EXCEPT ![r] = "died"]
          /\ UNCHANGED response
    /\ UNCHANGED <<clientVars, batch, inRead0, loopQueue, open, refCnt,
                   completed, listener, wire>>

\* Mutant: write without flush, the response stays in the channel's buffer.
WriteAndFlush_mutant(r) ==
    /\ worker[r] = "write"
    /\ worker' = [worker EXCEPT ![r] = "listen"]
    /\ UNCHANGED <<clientVars, batch, inRead0, loopQueue, open, refCnt, response,
                   completed, listener, wire>>

\* Mutant: the response is written again until the first write is completed.
WriteAgain_mutant(r) ==
    /\ worker[r] = "write"
    /\ worker' = [worker EXCEPT ![r] = IF r \in completed THEN "listen" ELSE "write"]
    /\ loopQueue' = Append(loopQueue, <<"write", r>>)
    /\ UNCHANGED <<clientVars, batch, inRead0, open, refCnt, response,
                   completed, listener, wire>>

WriteAndFlush(r) ==
    /\ worker[r] = "write"
    /\ worker' = [worker EXCEPT ![r] = "listen"]
    /\ loopQueue' = Append(loopQueue, <<"write", r>>)
    /\ UNCHANGED <<clientVars, batch, inRead0, open, refCnt, response,
                   completed, listener, wire>>

\* Mutant: the future of writeAndFlush is dropped.
AddListener_mutant(r) ==
    /\ worker[r] = "listen"
    /\ worker' = [worker EXCEPT ![r] = "returned"]
    /\ UNCHANGED <<clientVars, batch, inRead0, loopQueue, open, refCnt, response,
                   completed, listener, wire>>

\* addListener(CLOSE): a future that is already completed calls it from a task
\* of its own.
AddListener(r) ==
    /\ worker[r] = "listen"
    /\ worker' = [worker EXCEPT ![r] = "returned"]
    /\ IF r \in completed
       THEN /\ loopQueue' = Append(loopQueue, <<"close", r>>)
            /\ UNCHANGED listener
       ELSE /\ listener' = listener \union {r}
            /\ UNCHANGED loopQueue
    /\ UNCHANGED <<clientVars, batch, inRead0, open, refCnt, response,
                   completed, wire>>

-----------------------------------------------------------------------------
Worker(r) == Handle(r) \/ WriteAndFlush(r) \/ AddListener(r)

EventLoop == ReadBatch \/ ChannelRead \/ ReleaseOriginal \/ RunTask

\* Nothing is left to do: the channel is closed, or it waits for the client.
Idle ==
    /\ \A r \in Requests : worker[r] \in {"none", "returned", "died"}
    /\ PipelineIsEmpty /\ loopQueue = <<>>
    /\ open => incoming = <<>>
    /\ UNCHANGED vars

Next ==
    \/ \E r \in Requests, k \in Kinds : Send(r, k)
    \/ ClientCloses
    \/ EventLoop
    \/ \E r \in Requests : Worker(r)
    \/ Idle

Spec == Init /\ [][Next]_vars

\* The event loop runs for ever and takes what is ready; the cached pool gives
\* every request a thread of its own.
FairSpec ==
    /\ Spec
    /\ WF_vars(ReadBatch) /\ WF_vars(ChannelRead)
    /\ WF_vars(ReleaseOriginal) /\ WF_vars(RunTask)
    /\ \A r \in Requests : WF_vars(Worker(r))

-----------------------------------------------------------------------------
(* Properties.                                                              *)

Received(r) ==
    kind[r] # "not sent" /\ r \notin ToSet(incoming) \union ToSet(batch)

\* To the client the server is HttpConversation: no request is answered twice
\* or unasked, by whichever threads; answers leave in the order in which the
\* threads handed them over; the server closes only with or after an answer;
\* nothing follows the rejection of the interceptor.
Conversation ==
    INSTANCE HttpConversation
        WITH received <- {r \in Requests : Received(r)},
             outbox <- loopQueue,
             answered <- [i \in DOMAIN wire |-> wire[i].req]

ImplementsConversation == Conversation!Spec

\* The threads of the pool read the request while the event loop releases the
\* original: what they were handed is still allocated, however the release
\* falls between execute and the end of handleRequest; and the original is
\* released once, by the handler that ends its way, neither early nor never.
RequestOutlivesItsRead ==
    \A r \in Requests :
        /\ worker[r] = "handle" => refCnt[r][HandedOver] > 0
        /\ refCnt[r].own = (IF r \in ToSet(batch) \union inRead0 THEN 1 ELSE 0)

\* "close the channel when write is completed": once any response has been
\* written the channel closes, whether the listener was added before or after
\* the write and whichever thread did it.
ClosesAfterWrite == (wire # <<>>) ~> ~open

\* Every request that is read gets its answer, or finds the channel closed by
\* the answer to another one; only an exception without a message, which makes
\* HttpResponse.fail throw in the catch block, leaves a client waiting on an
\* open channel.
NobodyIsLeftWaiting ==
    \A r \in Requests :
        Received(r) ~> \/ ~open
                       \/ \E i \in DOMAIN wire : wire[i].req = r
                       \/ worker[r] = "died"

=============================================================================
