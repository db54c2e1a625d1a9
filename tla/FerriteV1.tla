------------------------------ MODULE FerriteV1 ------------------------------
(***************************************************************************)
(* The server of ferrite v1: a blocking accept loop that is the only       *)
(* caller of the worker pool's try_submit, the ShutdownHandle that sets a  *)
(* flag and wakes accept with a connection of its own, and the handler     *)
(* each worker runs, with the two counters it keeps.                       *)
(*                                                                         *)
(* An item of the pool is a client's connection.  What the worker reads    *)
(* and writes on it is module FerriteConnV1; here serving it is one step,  *)
(* which ends when the connection does.                                    *)
(***************************************************************************)
EXTENDS WorkerPool

VARIABLES
  flag,      \* the AtomicBool shutdown
  dialled,   \* whether shutdown() has connected to the listener yet
  net,       \* net[c]: where client c's connection is until it is accepted
  loop,      \* where Server::run is
  hand,      \* the connection the loop has accepted
  step,      \* step[w]: where worker w is in the handler
  seen,      \* seen[w]: what w has just loaded from ACTIVE
  active, peak,   \* the statics ACTIVE and PEAK
  maxActive       \* history: the largest number of connections served at once

serverside == <<flag, dialled, net, loop, hand>>
handler == <<step, seen, active, peak, maxActive>>
v1vars == <<poolvars, serverside, handler>>

\* What accept returns besides clients: its own waker, or an error.
Waker == "waker"
AcceptError == "error"
Nothing == "nothing"

ASSUME V1Assumption == Items \cap {Waker, AcceptError, Nothing} = {}

ServerInit ==
  /\ Init
  /\ flag = FALSE /\ dialled = FALSE
  /\ net = [c \in Items |-> "away"]
  /\ loop = "accept" /\ hand = Nothing
  /\ step = [w \in Workers |-> "out"] /\ seen = [w \in Workers |-> 0]
  /\ active = 0 /\ peak = 0 /\ maxActive = 0

Listening == loop \notin {"closing", "done"}

Connect(c) ==
  /\ net[c] = "away" /\ Listening /\ net' = [net EXCEPT ![c] = "backlog"]
  /\ UNCHANGED <<poolvars, flag, dialled, loop, hand, handler>>

-----------------------------------------------------------------------------
\* ShutdownHandle::shutdown: first the flag, then the connection that makes
\* accept return.
SetFlag ==
  /\ ~flag /\ flag' = TRUE
  /\ UNCHANGED <<poolvars, dialled, net, loop, hand, handler>>

\* Seeded fault: shutdown only sets the flag.
DialNever == FALSE

Dial ==
  /\ flag /\ ~dialled /\ dialled' = TRUE
  /\ UNCHANGED <<poolvars, flag, net, loop, hand, handler>>

-----------------------------------------------------------------------------
\* Server::run

\* listener.incoming(): a client's connection, or the one that wakes the loop.
Accept ==
  /\ loop = "accept" /\ loop' = "check"
  /\ \/ \E c \in Items :
          net[c] = "backlog" /\ hand' = c /\ net' = [net EXCEPT ![c] = "accepted"]
     \/ dialled /\ hand' = Waker /\ UNCHANGED net
  /\ UNCHANGED <<poolvars, flag, dialled, handler>>

AcceptFails ==
  /\ loop = "accept" /\ loop' = "check" /\ hand' = AcceptError
  /\ UNCHANGED <<poolvars, flag, dialled, net, handler>>

\* The flag is read after every accept.  Leaving the loop drops the stream in
\* hand; the listener, a field of self, is dropped only when run returns, but
\* nobody accepts from it any more.
CheckFlag ==
  /\ loop = "check"
  /\ loop' = CASE flag -> "closing"
               [] ~flag /\ hand \in Items -> "submit"
               [] OTHER -> "accept"
  /\ hand' = IF ~flag /\ hand \in Items THEN hand ELSE Nothing
  /\ net' = IF flag /\ hand \in Items THEN [net EXCEPT ![hand] = "dropped"] ELSE net
  /\ UNCHANGED <<poolvars, flag, dialled, handler>>

\* try_submit; a connection it hands back is told so and dropped, for which
\* the loop takes at most 100 ms.
Submit ==
  /\ loop = "submit" /\ TrySubmit(hand)
  /\ loop' = IF call'[hand] = "notify" THEN "notify" ELSE "accept"
  /\ hand' = IF call'[hand] = "notify" THEN hand ELSE Nothing
  /\ UNCHANGED <<flag, dialled, net, handler>>

Notify ==
  /\ loop = "notify" /\ NotifyOne(hand)
  /\ loop' = "accept" /\ hand' = Nothing
  /\ UNCHANGED <<flag, dialled, net, handler>>

\* self.pool.shutdown(), and run returns its report.
ShutDownPool ==
  /\ loop = "closing"
  /\ Close(TRUE) \/ OwnerStep
  /\ loop' = IF owner' = "gone" THEN "done" ELSE loop
  /\ UNCHANGED <<flag, dialled, net, hand, handler>>

-----------------------------------------------------------------------------
\* A worker, and the handler it runs

Seek(w) ==
  /\ WorkerStep(w) \/ SpuriousWake(w)
  /\ step' = [step EXCEPT ![w] = IF worker'[w] = "busy" THEN "enter" ELSE "out"]
  /\ UNCHANGED <<serverside, seen, active, peak, maxActive>>

Handling(w, from, to) ==
  /\ step[w] = from /\ step' = [step EXCEPT ![w] = to]
  /\ UNCHANGED <<poolvars, serverside>>

Enter(w) ==
  /\ Handling(w, "enter", "load")
  /\ active' = active + 1
  /\ maxActive' = IF active + 1 > maxActive THEN active + 1 ELSE maxActive
  /\ UNCHANGED <<seen, peak>>

\* The argument of fetch_max is a second read of ACTIVE.
LoadActive(w) ==
  /\ Handling(w, "load", "max") /\ seen' = [seen EXCEPT ![w] = active]
  /\ UNCHANGED <<active, peak, maxActive>>

RaisePeak(w) ==
  /\ Handling(w, "max", "serve")
  /\ peak' = IF seen[w] > peak THEN seen[w] ELSE peak
  /\ seen' = [seen EXCEPT ![w] = 0]
  /\ UNCHANGED <<active, maxActive>>

\* handle_connection returns, with or without an I/O error.
Leave(w) ==
  /\ Handling(w, "serve", "left") /\ active' = active - 1
  /\ UNCHANGED <<seen, peak, maxActive>>

\* The handler returns, or it panicked while it served.
Return(w) ==
  /\ Finish(w)
  /\ \/ step[w] = "left" /\ completed' # completed
     \/ step[w] = "serve" /\ panicked' # panicked
  /\ step' = [step EXCEPT ![w] = "out"]
  /\ UNCHANGED <<serverside, seen, active, peak, maxActive>>

Handle(w) == Enter(w) \/ LoadActive(w) \/ RaisePeak(w) \/ Leave(w) \/ Return(w)

LoopStep == Accept \/ CheckFlag \/ Submit \/ Notify \/ ShutDownPool

Stopped == loop = "done" /\ UNCHANGED v1vars

ServerNext ==
  \/ SetFlag \/ Dial \/ LoopStep \/ AcceptFails \/ Stopped
  \/ \E c \in Items : Connect(c)
  \/ \E w \in Workers : Seek(w) \/ Handle(w)

\* Threads run when they can, accept delivers what has connected, and every
\* connection ends: the client's doing, for v1 bounds neither one that keeps
\* sending nor one that stops reading.  No accept error is promised.
ServerFairness ==
  /\ WF_v1vars(Dial) /\ WF_v1vars(LoopStep)
  /\ \A w \in Workers : WF_v1vars(Seek(w) /\ WorkerStep(w)) /\ WF_v1vars(Handle(w))

ServerSpec == ServerInit /\ [][ServerNext]_v1vars /\ ServerFairness
-----------------------------------------------------------------------------
Inside == {w \in Workers : step[w] \in {"load", "max", "serve"}}

\* The pool's types, and those of the loop and the handler: a worker is in the
\* handler exactly while the pool calls it busy.
ServerTypeOK ==
  /\ TypeOK
  /\ flag \in BOOLEAN /\ dialled \in BOOLEAN
  /\ net \in [Items -> {"away", "backlog", "accepted", "dropped"}]
  /\ loop \in {"accept", "check", "submit", "notify", "closing", "done"}
  /\ hand \in Items \union {Waker, AcceptError, Nothing}
  /\ step \in [Workers -> {"out", "enter", "load", "max", "serve", "left"}]
  /\ \A w \in Workers : worker[w] # "busy" <=> step[w] = "out"
  /\ seen \in [Workers -> Nat]
  /\ active \in Nat /\ peak \in Nat /\ maxActive \in Nat

\* What the comment on ACTIVE says: "Connections being served right now".
ActiveIsServed == active = Cardinality(Inside)

\* What ACTIVE is: one more than that for every handler that ever panicked, for
\* the decrement after handle_connection is not in a guard.
ActiveOffByPanics == active = Cardinality(Inside) + panicked

\* PEAK never reports more connections than were ever counted at once, nor will
\* it with what a worker has loaded and not yet recorded.
PeakNeverOver == peak <= maxActive /\ \A w \in Workers : seen[w] <= maxActive

\* What the comment on PEAK says ("the most ever served at once"): once no
\* worker is recording, PEAK is the largest value ACTIVE has had.
PeakIsMost == (\A w \in Workers : step[w] \notin {"load", "max"}) => peak = maxActive

Entered == {c \in Items : net[c] \in {"accepted", "dropped"}}

\* After run has returned, each connection ever accepted has been served to its
\* end or refused, but for at most one: the client's connection that accept
\* returned just when the flag was set is dropped without a word.
AtMostOneDropped ==
  loop = "done" =>
    LET told == completed + panicked + rejected
    IN  /\ report = <<completed, panicked, rejected>>
        /\ Cardinality(Entered) - told = Cardinality({c \in Items : net[c] = "dropped"})
        /\ Cardinality(Entered) - told \in {0, 1}

\* run returns once shutdown() was called, whatever the loop was doing.
RunReturns == flag ~> loop = "done"
=============================================================================
