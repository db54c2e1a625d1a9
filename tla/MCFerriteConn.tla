---------------------------- MODULE MCFerriteConn ----------------------------
(***************************************************************************)
(* Both editions of ferrite against the same client: a behaviour starts    *)
(* with either one, and each property asks of it what that edition's code  *)
(* promises.                                                               *)
(***************************************************************************)
EXTENDS FerriteWire

VARIABLES edition, stop, scanned

V1 == INSTANCE FerriteConnV1 WITH taken <- scanned
V2 == INSTANCE FerriteConn

mcvars == <<wirevars, edition, stop, scanned>>

Init == \/ edition = "v1" /\ V1!Init /\ stop = FALSE
        \/ edition = "v2" /\ V2!Init

Worker == edition = "v1" /\ V1!Worker /\ UNCHANGED <<edition, stop>>
ReadTimeout == edition = "v1" /\ V1!IdleTimeout /\ UNCHANGED <<edition, stop>>
Task == edition = "v2" /\ V2!Server /\ UNCHANGED edition
Timer == edition = "v2" /\ (V2!IdleTimeout \/ V2!Cancel) /\ UNCHANGED edition
ClientStep == Client /\ UNCHANGED <<edition, stop, scanned>>

Next == Worker \/ ReadTimeout \/ Task \/ Timer \/ ClientStep

Spec == /\ Init /\ [][Next]_mcvars
        /\ WF_mcvars(Worker) /\ WF_mcvars(ReadTimeout) /\ WF_mcvars(Task)
-----------------------------------------------------------------------------
V1Promises(p) == edition = "v1" => p
V2Promises(p) == edition = "v2" => p

\* What is executed depends on the bytes alone, not on how they arrived.  v1
\* counts an unterminated fragment at the end of the stream as a request.
ExecutedAreRequests ==
  /\ V1Promises(V1!ExecutedLinesOrLastFragment)
  /\ V2Promises(V2!ExecutedAreLines)

\* A connection is cut for an over-long line exactly where its edition's limit
\* lies, and no such line is executed.
LengthLimitExact ==
  V1Promises(V1!LengthLimitExact) /\ V2Promises(V2!LengthLimitExact)

\* No reply waits in a buffer while the server waits for the client; in v1,
\* unless the client has begun another request.
NothingWithheld ==
  V1Promises(V1!NothingWithheld) /\ V2Promises(V2!NothingWithheld)

\* Replies leave once each, in the order of the requests, from bounded buffers.
RepliesInOrder ==
  V1Promises(V1!RepliesInOrder) /\ V2Promises(V2!RepliesInOrder)

\* Every executed request is answered or its connection ends; v1 needs a client
\* that keeps reading.
Answered ==
  \A k \in 1..MaxSent :
    (edition = "v1" => []<>(unread < SocketRoom)) =>
      (Len(executed) >= k ~> (Len(answers) >= k \/ pc = "closed"))
=============================================================================
