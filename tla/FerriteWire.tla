----------------------------- MODULE FerriteWire -----------------------------
(***************************************************************************)
(* One connection to a ferrite server as both of its ends see it: the byte *)
(* stream of requests, however the network cuts it up, and the stream of   *)
(* replies, through a socket that holds only so many.  The client is the   *)
(* environment: it sends lines in arbitrary pieces, may stop reading, half *)
(* close or vanish.  What is common to both editions of the server is here *)
(* too: the meaning of the stream and the write buffer.                    *)
(***************************************************************************)
EXTENDS Integers, Sequences, FiniteSets, SequencesExt, FiniteSetsExt

CONSTANTS MaxSent,      \* bound: the length of the request stream
          MaxLine,      \* Config::max_line
          ReadSize,     \* the most bytes one read of the socket returns
          SocketRoom,   \* replies the kernel holds until the client reads
          MaxUnflushed  \* replies the server's write buffer holds

ASSUME WireAssumption ==
  /\ {MaxSent, MaxLine} \subseteq Nat
  /\ {ReadSize, SocketRoom, MaxUnflushed} \subseteq Nat \ {0}

VARIABLES
  sent,       \* the request stream so far, a sequence of Byte
  eof,        \* the client has shut down its sending side
  gone,       \* the client has reset the connection
  unread,     \* replies in the socket that the client has not read
  arrived,    \* how much of sent the server has read from the socket
  consumed,   \* how much of that its framing has taken out of its buffer
  executed,   \* the lines handed to the store, each as the bytes it holds
  answers,    \* every reply the server has ever put on the socket
  pending,    \* replies written to the server's buffer but not to the socket
  reply,      \* the reply being written to that buffer, or 0
  why,        \* the reason the connection ends, or "open"
  pc          \* where the server's connection loop is

wirevars == <<sent, eof, gone, unread, arrived, consumed, executed, answers,
              pending, reply, why, pc>>

\* What only the server changes.
serverside == <<arrived, consumed, executed, answers, pending, reply, why, pc>>

\* The line terminator, and a byte of which only the position matters.
Newline == "\n"
Byte == {Newline, "x"}

\* Replies are numbered like the lines they answer, except these.
LineTooLong == -1
ShuttingDown == -2

WireInit ==
  /\ sent = <<>> /\ eof = FALSE /\ gone = FALSE /\ unread = 0
  /\ arrived = 0 /\ consumed = 0
  /\ executed = <<>> /\ answers = <<>> /\ pending = <<>>
  /\ reply = 0 /\ why = "open"

Open == pc # "closed"

ClientSends(b) ==
  /\ Open /\ ~eof /\ ~gone /\ Len(sent) < MaxSent
  /\ sent' = Append(sent, b)
  /\ UNCHANGED <<eof, gone, unread, serverside>>

ClientReads ==
  /\ unread > 0 /\ ~gone
  /\ unread' = unread - 1
  /\ UNCHANGED <<sent, eof, gone, serverside>>

ClientHalfCloses ==
  /\ Open /\ ~eof /\ ~gone /\ eof' = TRUE
  /\ UNCHANGED <<sent, gone, unread, serverside>>

ClientVanishes ==
  /\ Open /\ ~gone /\ gone' = TRUE
  /\ UNCHANGED <<sent, eof, unread, serverside>>

Client == \/ \E b \in Byte : ClientSends(b)
          \/ ClientReads \/ ClientHalfCloses \/ ClientVanishes

\* The bytes the server has buffered and not yet consumed.
Buffered == SubSeq(sent, consumed + 1, arrived)

\* memchr: the first newline of s at or after index from, or 0.
NewlineAt(s, from) ==
  LET at == {i \in from..Len(s) : s[i] = Newline}
  IN  IF at = {} THEN 0 ELSE Min(at)

\* A read of the socket returns what has come in, in pieces of any size.
Arrival ==
  /\ arrived < Len(sent) /\ ~gone
  /\ \E n \in 1..ReadSize : arrived + n <= Len(sent) /\ arrived' = arrived + n

EndOfStream == eof /\ ~gone /\ arrived = Len(sent)

Flushing == pc \in {"make_room", "flush", "last_flush"}

\* A flush moves one reply from the server's buffer to the socket.
PutOnSocket ==
  /\ Flushing /\ pending # <<>> /\ ~gone /\ unread < SocketRoom
  /\ answers' = Append(answers, Head(pending))
  /\ pending' = Tail(pending)
  /\ unread' = unread + 1
  /\ UNCHANGED <<sent, eof, gone, arrived, consumed, executed, reply, why, pc>>

\* The reply goes into the buffer, which is written out first when it is full.
BufferReply(full, next) ==
  /\ IF full
       THEN pc' = "make_room" /\ UNCHANGED <<pending, reply>>
       ELSE pending' = Append(pending, reply) /\ reply' = 0 /\ pc' = next
  /\ UNCHANGED <<sent, eof, gone, unread, arrived, consumed, executed, answers, why>>

-----------------------------------------------------------------------------
\* What the protocol says a stream means, however it is cut up: one line for
\* each newline, and the bytes after the last one are no line yet.
Newlines(s, i) == Cardinality({j \in 1..i : s[j] = Newline})
EndsAt(s, i, k) == i \in 0..Len(s) /\ Newlines(s, i) = k /\ (i # 0 => s[i] = Newline)
LineEnd(s, k) == CHOOSE i \in 0..Len(s) : EndsAt(s, i, k)
Lines(s) == [k \in 1..Newlines(s, Len(s)) |->
               SubSeq(s, LineEnd(s, k - 1) + 1, LineEnd(s, k) - 1)]
Unfinished(s) == SubSeq(s, LineEnd(s, Newlines(s, Len(s))) + 1, Len(s))

\* What the server has not executed yet: its next line, or what there is of it.
NextLine == Append(Lines(sent), Unfinished(sent))[Len(executed) + 1]

\* Every reply written so far, in the order they were written: the k-th answers
\* the k-th request, except the last one of a connection that ends.
Written == answers \o pending
AnswersInOrder ==
  \A k \in DOMAIN Written :
    \/ Written[k] = k
    \/ Written[k] \in {LineTooLong, ShuttingDown} /\ k = Len(Written) /\ why # "open"
=============================================================================
