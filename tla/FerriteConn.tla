----------------------------- MODULE FerriteConn -----------------------------
(***************************************************************************)
(* serve(): one connection of ferrite v2, from the LineCodec that finds    *)
(* request lines in whatever bytes have arrived to the rule that decides   *)
(* when replies are flushed.  Executing a line is one step here; its reply *)
(* is the line's number.                                                   *)
(***************************************************************************)
EXTENDS FerriteWire

VARIABLES stop,      \* the CancellationToken
          scanned    \* LineCodec::scanned

connvars == <<wirevars, stop, scanned>>

\* The socket and the buffers, when a step of the loop leaves them alone.
streams == <<sent, eof, gone, unread, arrived, answers, pending>>

Init == WireInit /\ pc = "stop?" /\ stop = FALSE /\ scanned = 0

Cancel == ~stop /\ stop' = TRUE /\ UNCHANGED <<wirevars, scanned>>

Close(reason) == pc' = "closed" /\ why' = reason

\* The biased select!: the token first, then the next line.
CheckStop ==
  /\ pc = "stop?"
  /\ IF stop
       THEN pc' = "feed" /\ reply' = ShuttingDown /\ why' = "shutdown"
       ELSE pc' = "decode" /\ UNCHANGED <<reply, why>>
  /\ UNCHANGED <<streams, consumed, executed, stop, scanned>>

\* The cancellation, or the idle timeout, ends the wait for a line.  next() is
\* cancel safe: the buffer and scanned stay in the FramedRead.
WokenByStop ==
  /\ pc = "read" /\ stop /\ pc' = "stop?"
  /\ UNCHANGED <<streams, consumed, executed, reply, why, stop, scanned>>

IdleTimeout ==
  /\ pc = "read" /\ Close("idle")
  /\ UNCHANGED <<streams, consumed, executed, reply, stop, scanned>>

\* FramedRead reads more only when decode found no line.
Read ==
  /\ pc = "read" /\ Arrival /\ pc' = "decode"
  /\ UNCHANGED <<sent, eof, gone, unread, consumed, executed, answers, pending,
                 reply, why, stop, scanned>>

\* The stream ends or breaks; bytes of an unfinished line are an error too
\* (decode_eof), and nothing is executed.
ReadEnds ==
  /\ pc = "read" /\ (EndOfStream \/ gone) /\ Close("client")
  /\ UNCHANGED <<streams, consumed, executed, reply, stop, scanned>>

TooLong ==
  /\ pc' = "feed" /\ reply' = LineTooLong /\ why' = "line_too_long"
  /\ UNCHANGED <<consumed, executed>>

\* A whole line leaves the buffer and is executed.
TakeLine(end) ==
  /\ consumed' = consumed + end
  /\ executed' = Append(executed, SubSeq(Buffered, 1, end - 1))
  /\ reply' = Len(executed) + 1
  /\ pc' = "feed"
  /\ UNCHANGED why

\* Seeded fault: the search position is not reset when a line is taken.
DecodeKeepsScanned ==
  /\ pc = "decode"
  /\ LET end == NewlineAt(Buffered, scanned + 1)
     IN  \/ /\ end # 0
            /\ scanned' = end
            /\ IF end - 1 > MaxLine THEN TooLong ELSE TakeLine(end)
         \/ /\ end = 0 /\ Len(Buffered) > MaxLine
            /\ TooLong /\ UNCHANGED scanned
         \/ /\ end = 0 /\ Len(Buffered) <= MaxLine
            /\ scanned' = Len(Buffered) /\ pc' = "read"
            /\ UNCHANGED <<consumed, executed, reply, why>>
  /\ UNCHANGED <<streams, stop>>

\* LineCodec::decode: the search resumes at scanned; a line, or a line-less
\* buffer, longer than max_line is refused.
Decode ==
  /\ pc = "decode"
  /\ LET end == NewlineAt(Buffered, scanned + 1)
     IN  \/ /\ end # 0
            /\ scanned' = 0
            /\ IF end - 1 > MaxLine THEN TooLong ELSE TakeLine(end)
         \/ /\ end = 0 /\ Len(Buffered) > MaxLine
            /\ TooLong /\ UNCHANGED scanned
         \/ /\ end = 0 /\ Len(Buffered) <= MaxLine
            /\ scanned' = Len(Buffered) /\ pc' = "read"
            /\ UNCHANGED <<consumed, executed, reply, why>>
  /\ UNCHANGED <<streams, stop>>

\* Seeded fault: v1's rule, flush only when nothing at all is buffered.
WaitsIfAnythingBuffered == Buffered # <<>>

\* more_waiting: another complete request is already in the read buffer.
MoreWaiting == NewlineAt(Buffered, 1) # 0

\* After the reply to a line the flush waits for the next one, if it is
\* already there; after a final reply it never does.
AfterFeed == CASE why # "open" -> "last_flush"
               [] why = "open" /\ MoreWaiting -> "stop?"
               [] OTHER -> "flush"

\* Seeded fault: feed never makes room first.
FeedUnbounded ==
  pc = "feed" /\ BufferReply(FALSE, AfterFeed) /\ UNCHANGED <<stop, scanned>>

\* feed: at the backpressure boundary the buffer is written out first.
Feed ==
  /\ pc = "feed" /\ BufferReply(Len(pending) >= MaxUnflushed, AfterFeed)
  /\ UNCHANGED <<stop, scanned>>

Write == PutOnSocket /\ UNCHANGED <<stop, scanned>>

FlushDone ==
  /\ Flushing /\ pending = <<>>
  /\ pc' = CASE pc = "make_room" -> "feed"
             [] pc = "flush" -> "stop?"
             [] pc = "last_flush" -> "closed"
  /\ UNCHANGED <<streams, consumed, executed, reply, why, stop, scanned>>

\* The socket is full until write_timeout, or broken.  After a final reply
\* the reason to close stands.
WriteFails ==
  /\ Flushing /\ pending # <<>>
  /\ gone \/ unread >= SocketRoom
  /\ Close(CASE why # "open" -> why
             [] why = "open" /\ gone -> "client"
             [] OTHER -> "slow_reader")
  /\ UNCHANGED <<streams, consumed, executed, reply, stop, scanned>>

Server ==
  \/ CheckStop \/ WokenByStop \/ Read \/ ReadEnds \/ Decode \/ Feed
  \/ Write \/ FlushDone \/ WriteFails

ClientStep == Client /\ UNCHANGED <<stop, scanned>>

Next == ClientStep \/ Cancel \/ IdleTimeout \/ Server

\* The task is polled whenever it can go on and write_timeout fires; clients
\* and the idle timer are free.
Fairness == WF_connvars(Server)

Spec == Init /\ [][Next]_connvars /\ Fairness
-----------------------------------------------------------------------------
\* What is executed depends on the bytes alone, not on how they arrived: line
\* by line, in order, each whole, none of an unfinished request.
ExecutedAreLines == IsPrefix(executed, Lines(sent))

\* A connection is cut for an over-long line exactly at the first line longer
\* than max_line, and no such line is executed.
LengthLimitExact ==
  /\ \A k \in DOMAIN executed : Len(executed[k]) <= MaxLine
  /\ why = "line_too_long" =>
       Len(NextLine) > MaxLine

\* While the server waits for the client, the client waits for nothing: every
\* reply to what has been executed is on the socket.
NothingWithheld == pc = "read" => pending = <<>> /\ Len(answers) = Len(executed)

\* Replies leave in the order of the requests, none is skipped or repeated,
\* whichever of the flushes moves them, and neither buffer outgrows its bound.
RepliesInOrder ==
  /\ AnswersInOrder
  /\ why = "open" /\ pc \notin {"make_room", "feed"} => Len(Written) = Len(executed)
  /\ Len(pending) <= MaxUnflushed
  /\ Len(Buffered) <= MaxLine + ReadSize

\* An executed request is answered, or the connection ends.
Answered == \A k \in 1..MaxSent :
              Len(executed) >= k ~> (Len(answers) >= k \/ pc = "closed")
=============================================================================
