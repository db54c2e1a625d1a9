---------------------------- MODULE FerriteConnV1 ----------------------------
(***************************************************************************)
(* handle_connection(): one connection of ferrite v1, served by a worker   *)
(* thread with blocking reads and writes.  A line is whatever read_until   *)
(* returns from a reader limited to max_line + 1 bytes.                    *)
(***************************************************************************)
EXTENDS FerriteWire

VARIABLE taken   \* line.len(): bytes of the current line read so far

v1vars == <<wirevars, taken>>

streams == <<sent, eof, gone, unread, answers, pending>>

Init == WireInit /\ pc = "read" /\ taken = 0

\* BufReader reads the socket only when its buffer is empty.
Fill ==
  /\ pc = "read" /\ Buffered = <<>> /\ Arrival
  /\ UNCHANGED <<streams, consumed, executed, reply, why, pc, taken>>

\* The line of n bytes that read_until has just returned: too long, or
\* executed without its line terminator.
HandleLine(n) ==
  LET line == SubSeq(sent, consumed' - n + 1, consumed')
  IN  /\ taken' = 0 /\ pc' = "write"
      /\ IF n > MaxLine
           THEN reply' = LineTooLong /\ why' = "line_too_long" /\ UNCHANGED executed
           ELSE /\ executed' = Append(executed, IF Last(line) = Newline THEN Front(line) ELSE line)
                /\ reply' = Len(executed) + 1
                /\ UNCHANGED why

\* Seeded fault: take(max_line), so that the limit is never seen to be passed.
AllowedTooLittle == MaxLine - taken

\* What read_until may still take of a line under take(max_line + 1).
Allowed == MaxLine + 1 - taken

\* read_until goes on until a newline or the limit.
ReadUntil ==
  /\ pc = "read" /\ Buffered # <<>>
  /\ LET end == NewlineAt(Buffered, 1)
     IN  \/ /\ end \in 1..Allowed
            /\ consumed' = consumed + end
            /\ HandleLine(taken + end)
         \/ /\ end \notin 1..Allowed /\ Len(Buffered) >= Allowed
            /\ consumed' = consumed + Allowed
            /\ HandleLine(taken + Allowed)
         \/ /\ end = 0 /\ Len(Buffered) < Allowed
            /\ consumed' = consumed + Len(Buffered)
            /\ taken' = taken + Len(Buffered)
            /\ UNCHANGED <<executed, reply, why, pc>>
  /\ UNCHANGED <<streams, arrived>>

\* Leaving the function drops the BufWriter, which flushes what it holds.
Return(reason) ==
  /\ pc' = "last_flush" /\ why' = reason
  /\ UNCHANGED <<streams, arrived, consumed, executed, reply, taken>>

\* At the end of the stream read_until returns what it has: nothing ends the
\* connection, and a fragment is handled like a line.
ReadEof ==
  /\ pc = "read" /\ Buffered = <<>> /\ EndOfStream
  /\ IF taken = 0
       THEN Return("client")
       ELSE UNCHANGED <<streams, arrived, consumed>> /\ HandleLine(taken)

ReadFails == pc = "read" /\ Buffered = <<>> /\ gone /\ Return("client")

\* Seeded fault: no read timeout is set.
IdleTimeoutNever == FALSE

\* set_read_timeout: a read that waited idle_timeout for its bytes fails.
IdleTimeout == pc = "read" /\ Buffered = <<>> /\ Return("idle")

\* reader.buffer().is_empty(): no pipelined byte is waiting.
AfterWrite == CASE why # "open" -> "last_flush"
                [] why = "open" /\ Buffered = <<>> -> "flush"
                [] OTHER -> "read"

WriteReply ==
  /\ pc = "write" /\ BufferReply(Len(pending) >= MaxUnflushed, AfterWrite)
  /\ UNCHANGED taken

Write == PutOnSocket /\ UNCHANGED taken

FlushDone ==
  /\ Flushing /\ pending = <<>>
  /\ pc' = CASE pc = "make_room" -> "write"
             [] pc = "flush" -> "read"
             [] pc = "last_flush" -> "closed"
  /\ UNCHANGED <<streams, arrived, consumed, executed, reply, why, taken>>

\* Only a broken connection ends a write: there is no write timeout.
WriteFails ==
  /\ Flushing /\ pending # <<>> /\ gone
  /\ pc' = "closed" /\ why' = IF why = "open" THEN "client" ELSE why
  /\ UNCHANGED <<streams, arrived, consumed, executed, reply, taken>>

Worker ==
  \/ Fill \/ ReadUntil \/ ReadEof \/ ReadFails
  \/ WriteReply \/ Write \/ FlushDone \/ WriteFails

Next == (Client /\ UNCHANGED taken) \/ IdleTimeout \/ Worker

\* The worker thread runs when it can, and the kernel ends a read that waits
\* too long; the client owes nothing.
Spec == Init /\ [][Next]_v1vars /\ WF_v1vars(Worker) /\ WF_v1vars(IdleTimeout)
-----------------------------------------------------------------------------
\* Only whole, newline-terminated requests are executed, in order: the protocol
\* as the chapter states it.
ExecutedAreLines == IsPrefix(executed, Lines(sent))

\* What the code does: as above, except that the unterminated bytes before the
\* client's end of stream are executed as one more request.
ExecutedLinesOrLastFragment ==
  \/ ExecutedAreLines
  \/ eof /\ executed = Append(Lines(sent), Unfinished(sent)) /\ Unfinished(sent) # <<>>

\* The limit counts the terminator: a line of exactly max_line bytes before its
\* newline ends the connection, a shorter one never does.
LengthLimitExact ==
  /\ \A k \in DOMAIN executed : k <= Len(Lines(sent)) => Len(executed[k]) < MaxLine
  /\ why = "line_too_long" => Len(NextLine) >= MaxLine

\* Replies are held back only behind the beginning of another request.
NothingWithheld ==
  pc = "read" /\ taken = 0 /\ Buffered = <<>>
    => pending = <<>> /\ Len(answers) = Len(executed)

\* Replies leave in the order of the requests, none is skipped or repeated, and
\* neither buffer outgrows its bound.
RepliesInOrder ==
  /\ AnswersInOrder
  /\ why = "open" /\ pc \notin {"make_room", "write"} => Len(Written) = Len(executed)
  /\ Len(pending) <= MaxUnflushed
  /\ taken + Len(Buffered) <= MaxLine + ReadSize

\* As long as the client keeps reading, an executed request is answered or the
\* connection ends: at the latest, the idle timeout releases a reply that waits
\* behind a fragment.
Answered ==
  []<>(unread < SocketRoom) =>
    \A k \in 1..MaxSent : Len(executed) >= k ~> (Len(answers) >= k \/ pc = "closed")
=============================================================================
