---------------------------- MODULE FerriteServer ----------------------------
(***************************************************************************)
(* The server of ferrite v2: the accept loop with its biased select!, the  *)
(* connection limit, one task per connection in a JoinSet, graceful        *)
(* shutdown with a drain deadline, and the counters.                       *)
(*                                                                         *)
(* The runtime has several threads, so the loop and the tasks interleave   *)
(* between any two of: a branch of a select! being polled, an atomic       *)
(* operation, the drop of a guard.  What a task reads and writes on its    *)
(* socket is module FerriteConn; here a request is a step.                 *)
(***************************************************************************)
EXTENDS Integers, FiniteSets

CONSTANTS Conns,           \* the connections clients may make
          MaxConnections   \* Config::max_connections

ASSUME ServerAssumption == MaxConnections \in Nat \ {0} /\ IsFiniteSet(Conns)

VARIABLES
  stop,        \* the CancellationToken
  loop,        \* where Server::run is
  task,        \* task[c]: the connection of c, and then its task
  now,         \* now[c]: what fetch_add told ActiveGuard::new of c's task
  crashed,     \* the connections whose task has panicked
  free,        \* the semaphore's permits
  accepted, refused, closed, panicked, active, peak,   \* Stats
  report,      \* the Report run() returns
  maxActive,   \* history: the largest number of connections ever active
  late         \* history: late[c] requests were taken after the cancellation

servervars == <<stop, loop, task, now, crashed, free, accepted, refused, closed,
                panicked, active, peak, report, maxActive, late>>

stats == <<accepted, refused, closed, panicked, active, peak, maxActive>>

NoReport == [drained |-> FALSE, aborted |-> -1]

Init ==
  /\ stop = FALSE /\ loop = "stop?"
  /\ task = [c \in Conns |-> "away"]
  /\ now = [c \in Conns |-> 0] /\ crashed = {}
  /\ free = MaxConnections
  /\ accepted = 0 /\ refused = 0 /\ closed = 0 /\ panicked = 0
  /\ active = 0 /\ peak = 0 /\ maxActive = 0
  /\ report = NoReport
  /\ late = [c \in Conns |-> 0]

Goto(c, s) == task' = [task EXCEPT ![c] = s]

\* A task that is in the JoinSet, and one that has a result to collect.
Finished(c) == task[c] = "ended"
Joined(c) == task[c] \notin {"away", "backlog", "reset", "reaped"}
Members == {c \in Conns : Joined(c)}

\* The kernel completes a client's connection, or resets it once the listener
\* is dropped.
Connect(c) ==
  /\ task[c] = "away" /\ loop \in {"stop?", "join?", "accept?", "backoff"}
  /\ Goto(c, "backlog")
  /\ UNCHANGED <<stop, loop, now, crashed, free, stats, report, late>>

Cancel ==
  /\ ~stop /\ stop' = TRUE
  /\ UNCHANGED <<loop, task, now, crashed, free, stats, report, late>>
-----------------------------------------------------------------------------
(***************************************************************************)
(* Server::run.                                                            *)
(***************************************************************************)

\* First branch of the biased select!.  Leaving the loop drops the listener.
PollStop ==
  /\ loop = "stop?"
  /\ IF stop
       THEN /\ loop' = "draining"
            /\ task' = [c \in Conns |->
                          IF task[c] = "backlog" THEN "reset" ELSE task[c]]
       ELSE loop' = "join?" /\ UNCHANGED task
  /\ UNCHANGED <<stop, now, crashed, free, stats, report, late>>

\* record(): a panic is counted, any other result is ignored.
Reap(c) ==
  /\ Finished(c)
  /\ Goto(c, "reaped")
  /\ panicked' = panicked + (IF c \in crashed THEN 1 ELSE 0)
  /\ UNCHANGED <<now, crashed, free, accepted, refused, closed, active, peak, maxActive>>

\* Second branch: join_next, which is disabled while the set is empty.
PollJoin ==
  /\ loop = "join?"
  /\ \/ /\ \E c \in Conns : Reap(c)
        /\ loop' = "stop?"
     \/ /\ ~ \E c \in Conns : Finished(c)
        /\ loop' = "accept?"
        /\ UNCHANGED <<task, now, crashed, free, stats>>
  /\ UNCHANGED <<stop, report, late>>

\* An accepted connection gets a permit and a task, or a task that refuses it.
Admit(c) ==
  /\ task[c] = "backlog"
  /\ IF free > 0
       THEN /\ free' = free - 1 /\ accepted' = accepted + 1
            /\ Goto(c, "spawned") /\ UNCHANGED refused
       ELSE /\ refused' = refused + 1
            /\ Goto(c, "refusing") /\ UNCHANGED <<free, accepted>>
  /\ UNCHANGED <<now, crashed, closed, panicked, active, peak, maxActive>>

\* Third branch: accept succeeds, fails (the loop sleeps), or would block, and
\* then the select! is polled again when anything happens.
PollAccept ==
  /\ loop = "accept?"
  /\ \/ /\ \E c \in Conns : Admit(c)
        /\ loop' = "stop?"
     \/ /\ loop' = "backoff"
        /\ UNCHANGED <<task, now, crashed, free, stats>>
     \/ /\ ~ \E c \in Conns : task[c] = "backlog"
        /\ loop' = "stop?"
        /\ UNCHANGED <<task, now, crashed, free, stats>>
  /\ UNCHANGED <<stop, report, late>>

\* The 10 ms after an accept error, during which nothing else is polled.
BackoffOver ==
  /\ loop = "backoff" /\ loop' = "stop?"
  /\ UNCHANGED <<stop, task, now, crashed, free, stats, report, late>>

\* The drain: join_next until the set is empty.
DrainOne ==
  /\ loop = "draining"
  /\ \E c \in Conns : Reap(c)
  /\ UNCHANGED <<stop, loop, report, late>>

DrainedAll ==
  /\ loop = "draining" /\ Members = {}
  /\ report' = [drained |-> TRUE, aborted |-> 0]
  /\ loop' = "done"
  /\ UNCHANGED <<stop, task, now, crashed, free, stats, late>>

\* Seeded fault: the drain has no deadline.
DeadlineNever == FALSE

\* drain_timeout expires with a task still in the set.
Deadline ==
  /\ loop = "draining" /\ Members # {}
  /\ loop' = "expired"
  /\ UNCHANGED <<stop, task, now, crashed, free, stats, report, late>>

\* conns.len() is read, then conns.shutdown() aborts every task.
AbortAll ==
  /\ loop = "expired"
  /\ report' = [drained |-> FALSE, aborted |-> Cardinality(Members)]
  /\ loop' = "aborting"
  /\ UNCHANGED <<stop, task, now, crashed, free, stats, late>>

\* Seeded fault: run() returns without waiting for the aborted tasks.
AbortedAllAtOnce ==
  /\ loop = "aborting" /\ loop' = "done"
  /\ UNCHANGED <<stop, task, now, crashed, free, stats, report, late>>

\* shutdown() has waited until every task is gone; results are not recorded.
AbortedAll ==
  /\ loop = "aborting" /\ \A c \in Members : Finished(c)
  /\ task' = [c \in Conns |-> IF Finished(c) THEN "reaped" ELSE task[c]]
  /\ loop' = "done"
  /\ UNCHANGED <<stop, now, crashed, free, stats, report, late>>
-----------------------------------------------------------------------------
(***************************************************************************)
(* A connection's task.                                                    *)
(***************************************************************************)
Larger(a, b) == IF a > b THEN a ELSE b

\* ActiveGuard::new, first statement: the task's own count comes back from
\* fetch_add.
Enter(c) ==
  /\ task[c] = "spawned"
  /\ active' = active + 1
  /\ maxActive' = Larger(maxActive, active + 1)
  /\ now' = [now EXCEPT ![c] = active + 1]
  /\ Goto(c, "entering")
  /\ UNCHANGED <<stop, loop, crashed, free, accepted, refused, closed, panicked, peak,
                 report, late>>

\* Seeded fault: the peak is taken from a second read of active (as v1 did).
EnterPeakReread(c) ==
  /\ task[c] = "entering"
  /\ peak' = Larger(peak, active)
  /\ now' = [now EXCEPT ![c] = 0]
  /\ Goto(c, "stop?")
  /\ UNCHANGED <<stop, loop, crashed, free, accepted, refused, closed, panicked, active,
                 report, maxActive, late>>

EnterPeak(c) ==
  /\ task[c] = "entering"
  /\ peak' = Larger(peak, now[c])
  /\ now' = [now EXCEPT ![c] = 0]
  /\ Goto(c, "stop?")
  /\ UNCHANGED <<stop, loop, crashed, free, accepted, refused, closed, panicked, active,
                 report, maxActive, late>>

\* Seeded fault: the token is not polled between requests.
CheckStopNever(c) ==
  /\ task[c] = "stop?"
  /\ Goto(c, "listening")
  /\ UNCHANGED <<stop, loop, now, crashed, free, stats, report, late>>

\* serve: the token is polled first.  A cancelled connection sends
\* SHUTTING_DOWN and closes, for which it may take up to write_timeout.
CheckStop(c) ==
  /\ task[c] = "stop?"
  /\ Goto(c, IF stop THEN "closing" ELSE "listening")
  /\ UNCHANGED <<stop, loop, now, crashed, free, stats, report, late>>

\* The cancellation wakes a task that waits for a request.
WokenByStop(c) ==
  /\ task[c] = "listening" /\ stop
  /\ Goto(c, "stop?")
  /\ UNCHANGED <<stop, loop, now, crashed, free, stats, report, late>>

\* A whole request line is there: it is executed, and its reply is now being
\* written.
TakeRequest(c) ==
  /\ task[c] = "listening"
  /\ Goto(c, "writing")
  /\ late' = [late EXCEPT ![c] = @ + (IF stop THEN 1 ELSE 0)]
  /\ UNCHANGED <<stop, loop, now, crashed, free, stats, report>>

Written(c) ==
  /\ task[c] = "writing"
  /\ Goto(c, "stop?")
  /\ UNCHANGED <<stop, loop, now, crashed, free, stats, report, late>>

\* Idle, closed by the client or an over-long line while it listens; client
\* gone or too slow while it writes.
Leave(c) ==
  /\ task[c] \in {"listening", "writing"}
  /\ Goto(c, "closing")
  /\ UNCHANGED <<stop, loop, now, crashed, free, stats, report, late>>

\* The last statement of serve: the closing reason is counted.
CountClosed(c) ==
  /\ task[c] = "closing"
  /\ closed' = closed + 1
  /\ Goto(c, "leaving")
  /\ UNCHANGED <<stop, loop, now, crashed, free, accepted, refused, panicked, active,
                 peak, report, maxActive, late>>

\* handle_line panics: the task unwinds.
Panic(c) ==
  /\ task[c] = "listening"
  /\ crashed' = crashed \union {c}
  /\ Goto(c, "leaving")
  /\ UNCHANGED <<stop, loop, now, free, stats, report, late>>

\* Seeded fault: no guard; a panic skips the decrement (as in v1).
DropActiveUnguarded(c) ==
  /\ task[c] = "leaving"
  /\ active' = active - (IF c \in crashed THEN 0 ELSE 1)
  /\ Goto(c, "unpermitting")
  /\ UNCHANGED <<stop, loop, now, crashed, free, accepted, refused, closed, panicked,
                 peak, report, maxActive, late>>

\* The future's locals are dropped in reverse order: _active, then _permit.
DropActive(c) ==
  /\ task[c] = "leaving"
  /\ active' = active - 1
  /\ Goto(c, "unpermitting")
  /\ UNCHANGED <<stop, loop, now, crashed, free, accepted, refused, closed, panicked,
                 peak, report, maxActive, late>>

DropPermit(c) ==
  /\ task[c] = "unpermitting"
  /\ free' = free + 1
  /\ Goto(c, "ended")
  /\ UNCHANGED <<stop, loop, now, crashed, stats, report, late>>

\* refuse(): bounded by its two timeouts of 100 ms.
Refused(c) ==
  /\ task[c] = "refusing"
  /\ Goto(c, "ended")
  /\ UNCHANGED <<stop, loop, now, crashed, free, stats, report, late>>

\* An aborted task is dropped at its next await.  One that was never polled
\* has no ActiveGuard yet, only its captured permit; a refusal has neither.
Aborted(c) ==
  /\ loop = "aborting"
  /\ \/ task[c] = "spawned" /\ Goto(c, "unpermitting")
     \/ task[c] \in {"listening", "writing", "closing"} /\ Goto(c, "leaving")
     \/ task[c] = "refusing" /\ Goto(c, "ended")
  /\ UNCHANGED <<stop, loop, now, crashed, free, stats, report, late>>

\* Steps between two awaits: the runtime runs them without anyone's help.
Running(c) ==
  \/ Enter(c) \/ EnterPeak(c) \/ CheckStop(c) \/ DropActive(c) \/ DropPermit(c)

\* Steps that depend on the client, the network or a timer.
Serving(c) ==
  \/ TakeRequest(c) \/ Written(c) \/ Leave(c) \/ CountClosed(c) \/ Panic(c)
  \/ Refused(c)

LoopStep == PollStop \/ PollJoin \/ PollAccept \/ BackoffOver \/ DrainOne \/ DrainedAll
            \/ Deadline \/ AbortAll \/ AbortedAll

Next ==
  \/ Cancel
  \/ LoopStep
  \/ \E c \in Conns : \/ Connect(c) \/ Running(c) \/ WokenByStop(c)
                      \/ Serving(c) \/ Aborted(c)

\* The runtime polls what is ready and its timers fire.  Nothing is assumed
\* of the clients: a connection may listen, write or close for ever.
Fairness ==
  /\ WF_servervars(LoopStep)
  /\ \A c \in Conns : WF_servervars(Running(c)) /\ WF_servervars(Aborted(c))

Spec == Init /\ [][Next]_servervars /\ Fairness
-----------------------------------------------------------------------------
TaskStates == {"away", "backlog", "reset", "spawned", "entering", "stop?",
               "listening", "writing", "closing", "leaving", "unpermitting",
               "refusing", "ended", "reaped"}

\* Every variable has its type: no counter of the server, nor the number of
\* permits, is ever taken below zero.
TypeOK ==
  /\ stop \in BOOLEAN
  /\ loop \in {"stop?", "join?", "accept?", "backoff", "draining", "expired",
               "aborting", "done"}
  /\ task \in [Conns -> TaskStates]
  /\ now \in [Conns -> Nat] /\ crashed \subseteq Conns
  /\ free \in Nat
  /\ accepted \in Nat /\ refused \in Nat /\ closed \in Nat /\ panicked \in Nat
  /\ active \in Nat /\ peak \in Nat /\ maxActive \in Nat
  /\ report \in [drained : BOOLEAN, aborted : Nat \union {-1}]
  /\ late \in [Conns -> Nat]

\* The connection limit holds of what the counters show, not only of the
\* permits: a connection is counted out before its permit is released, so
\* active never exceeds max_connections, however tasks end.
ConnectionLimit == active <= MaxConnections

\* The peak is exact as soon as no task is inside ActiveGuard::new.
PeakExact ==
  (\A c \in Conns : task[c] # "entering") => peak = maxActive

\* When run() returns, no task outlives it, all permits are back, and the
\* report and the counters account for every connection ever accepted: all of
\* them after a complete drain, all but at most `aborted` of them otherwise.
ReportAccounts ==
  loop = "done" =>
    /\ Members = {} /\ active = 0 /\ free = MaxConnections
    /\ report.drained => report.aborted = 0 /\ accepted = closed + panicked
    /\ accepted - closed - panicked \in 0..report.aborted

\* Shutdown stops a connection at its next request boundary: at most one more
\* request is taken, the one whose poll raced with the cancellation.
AtMostOneLateRequest == \A c \in Conns : late[c] <= 1

\* Shutdown is bounded by the drain deadline whatever the clients do.
ShutdownReturns == stop ~> loop = "done"
=============================================================================
