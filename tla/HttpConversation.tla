-------------------------- MODULE HttpConversation --------------------------
(***************************************************************************)
(* What a client of the Netty HTTP server may rely on, on one connection,  *)
(* however many requests it pipelines.  The threads that answer hand their *)
(* answers to the connection through one queue.  A request is handed over  *)
(* and answered at most once, and never before it was received; answers    *)
(* leave in the order in which they were handed over; the server closes    *)
(* the connection only with or after an answer; a rejection of the         *)
(* interceptor goes past the queue and closes the connection at once.      *)
(* That answers are handed over in the order of their requests is not      *)
(* promised.  HttpDispatcher implements this specification.                *)
(***************************************************************************)
EXTENDS Naturals, Sequences, SequencesExt

CONSTANT Requests     \* the requests of the connection

VARIABLES received,   \* requests the server has taken
          outbox,     \* answers and closes that were handed over, in order
          answered,   \* requests whose answer is on the wire, in order
          open,       \* the connection is up
          clientGone  \* the client closed it

vars == <<received, outbox, answered, open, clientGone>>

Init ==
    /\ received = {} /\ outbox = <<>> /\ answered = <<>>
    /\ open = TRUE /\ clientGone = FALSE

Receive(r) ==
    /\ r \notin received
    /\ received' = received \union {r}
    /\ UNCHANGED <<outbox, answered, open, clientGone>>

\* The interceptor answers in the step that receives.
Reject(r) ==
    /\ open
    /\ r \notin received
    /\ received' = received \union {r}
    /\ answered' = Append(answered, r)
    /\ open' = FALSE
    /\ UNCHANGED <<outbox, clientGone>>

\* An answer is handed over, once.
HandOver(r) ==
    /\ r \in received
    /\ r \notin ToSet(answered)
    /\ <<"write", r>> \notin ToSet(outbox)
    /\ outbox' = Append(outbox, <<"write", r>>)
    /\ UNCHANGED <<received, answered, open, clientGone>>

\* The server wants to close after the answer to r.
HandOverClose(r) ==
    /\ r \in ToSet(answered) \/ ~open
    /\ outbox' = Append(outbox, <<"close", r>>)
    /\ UNCHANGED <<received, answered, open, clientGone>>

\* What was handed over first is answered first.  The answer may be what
\* closes the connection, but need not be.
Answer(r) ==
    /\ open
    /\ outbox # <<>>
    /\ Head(outbox) = <<"write", r>>
    /\ r \in received \ ToSet(answered)
    /\ answered' = Append(answered, r)
    /\ outbox' = Tail(outbox)
    /\ open' \in BOOLEAN
    /\ UNCHANGED <<received, clientGone>>

\* An answer finds the connection closed.
Drop(r) ==
    /\ ~open
    /\ outbox # <<>>
    /\ Head(outbox) = <<"write", r>>
    /\ outbox' = Tail(outbox)
    /\ UNCHANGED <<received, answered, open, clientGone>>

Close(r) ==
    /\ outbox # <<>>
    /\ Head(outbox) = <<"close", r>>
    /\ r \in ToSet(answered) \/ ~open
    /\ outbox' = Tail(outbox)
    /\ open' = FALSE
    /\ UNCHANGED <<received, answered, clientGone>>

ClientCloses ==
    /\ open
    /\ open' = FALSE
    /\ clientGone' = TRUE
    /\ UNCHANGED <<received, outbox, answered>>

Next ==
    \/ \E r \in Requests :
          \/ Receive(r) \/ Reject(r)
          \/ HandOver(r) \/ HandOverClose(r)
          \/ Answer(r) \/ Drop(r) \/ Close(r)
    \/ ClientCloses

Spec == Init /\ [][Next]_vars

=============================================================================
