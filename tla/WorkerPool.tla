----------------------------- MODULE WorkerPool -----------------------------
(***************************************************************************)
(* The worker pool of minihttp and of ferrite v1: a Mutex<Queue> and a     *)
(* Condvar item_ready shared by the threads that call try_submit, by the   *)
(* workers, and by the owner that shuts the pool down.                     *)
(*                                                                         *)
(* A step is one critical section or one call outside it.  The interleaved *)
(* gaps are those of the code: between try_submit's unlock and its         *)
(* notify_one, between close's unlock and its notify_all, between a wake   *)
(* from the condition variable and the re-acquired lock.                   *)
(***************************************************************************)
EXTENDS Integers, Sequences, FiniteSets

CONSTANTS Items,       \* what clients submit; each item is submitted once
          NumWorkers, Capacity,
          None         \* what a worker holds when it runs no handler

ASSUME PoolAssumption ==
  /\ NumWorkers \in Nat \ {0} /\ Capacity \in Nat \ {0}
  /\ None \notin Items

VARIABLES
  queue, closed,                   \* Queue { items, closed }, under the lock
  completed, panicked, rejected,   \* Stats
  call,      \* call[i]: how far the try_submit of item i has got
  worker,    \* worker[w]: where worker thread w is in worker_loop
  holding,   \* holding[w]: the item whose handler w runs
  owner,     \* how far the owner's shutdown or drop has got
  reports,   \* whether the owner called shutdown(), which reports, or drop()
  joined,    \* how many JoinHandles close_and_join has joined
  report     \* what shutdown() returned

poolvars == <<queue, closed, completed, panicked, rejected, call, worker,
              holding, owner, reports, joined, report>>

Workers == 1..NumWorkers

NoReport == <<>>

\* WorkerPool::new: every worker is about to lock the queue.
Init ==
  /\ queue = <<>> /\ closed = FALSE
  /\ completed = 0 /\ panicked = 0 /\ rejected = 0
  /\ call = [i \in Items |-> "new"]
  /\ worker = [w \in Workers |-> "ready"]
  /\ holding = [w \in Workers |-> None]
  /\ owner = "open" /\ reports = FALSE /\ joined = 0 /\ report = NoReport

Full == closed \/ Len(queue) >= Capacity

Enqueue(i, next) ==
  /\ queue' = Append(queue, i)
  /\ call' = [call EXCEPT ![i] = next]
  /\ UNCHANGED rejected

HandBack(i) ==
  /\ rejected' = rejected + 1
  /\ call' = [call EXCEPT ![i] = "refused"]
  /\ UNCHANGED queue

SubmitUnchanged == UNCHANGED <<closed, completed, panicked, worker, holding,
                               owner, reports, joined, report>>

CanSubmit(i) == owner = "open" /\ call[i] = "new"

\* Seeded fault: nobody is notified.
TrySubmitSilent(i) ==
  /\ CanSubmit(i)
  /\ IF Full THEN HandBack(i) ELSE Enqueue(i, "done")
  /\ SubmitUnchanged

\* The critical section of try_submit.  It borrows the pool, so it cannot
\* overlap shutdown(self) or drop, which need it exclusively.
TrySubmit(i) ==
  /\ CanSubmit(i)
  /\ IF Full THEN HandBack(i) ELSE Enqueue(i, "notify")
  /\ SubmitUnchanged

Waiting == {w \in Workers : worker[w] = "waiting"}
Ready == {w \in Workers : worker[w] = "ready"}
Busy == {w \in Workers : worker[w] = "busy"}
Pending == {i \in Items : call[i] = "notify"}

\* notify_one, after the unlock: wakes one waiter, or does nothing if there
\* is none.
NotifyOne(i) ==
  /\ call[i] = "notify"
  /\ call' = [call EXCEPT ![i] = "done"]
  /\ \/ Waiting = {} /\ UNCHANGED worker
     \/ \E w \in Waiting : worker' = [worker EXCEPT ![w] = "ready"]
  /\ UNCHANGED <<queue, closed, completed, panicked, rejected, holding,
                 owner, reports, joined, report>>

\* A condition variable may wake a waiter for no reason.
SpuriousWake(w) ==
  /\ worker[w] = "waiting"
  /\ worker' = [worker EXCEPT ![w] = "ready"]
  /\ UNCHANGED <<queue, closed, completed, panicked, rejected, call, holding,
                 owner, reports, joined, report>>

\* wait_while: the lock is released and the thread enters the wait set in
\* one step.
Park(w) ==
  /\ worker[w] = "ready" /\ queue = <<>> /\ ~closed
  /\ worker' = [worker EXCEPT ![w] = "waiting"]
  /\ UNCHANGED <<queue, closed, completed, panicked, rejected, call, holding,
                 owner, reports, joined, report>>

\* Seeded fault of the pop: the newest item is taken.
TakeNewest(w) ==
  /\ worker[w] = "ready" /\ queue # <<>>
  /\ holding' = [holding EXCEPT ![w] = queue[Len(queue)]]
  /\ queue' = SubSeq(queue, 1, Len(queue) - 1)
  /\ worker' = [worker EXCEPT ![w] = "busy"]
  /\ UNCHANGED <<closed, completed, panicked, rejected, call,
                 owner, reports, joined, report>>

\* pop_front; the lock is released before the handler runs.
Take(w) ==
  /\ worker[w] = "ready" /\ queue # <<>>
  /\ holding' = [holding EXCEPT ![w] = Head(queue)]
  /\ queue' = Tail(queue)
  /\ worker' = [worker EXCEPT ![w] = "busy"]
  /\ UNCHANGED <<closed, completed, panicked, rejected, call,
                 owner, reports, joined, report>>

\* Closed and drained: the worker returns.
Exit(w) ==
  /\ worker[w] = "ready" /\ queue = <<>> /\ closed
  /\ worker' = [worker EXCEPT ![w] = "exited"]
  /\ UNCHANGED <<queue, closed, completed, panicked, rejected, call, holding,
                 owner, reports, joined, report>>

\* The handler returns, or panics inside catch_unwind; either way the worker
\* goes back to the queue.
Finish(w) ==
  /\ worker[w] = "busy"
  /\ \/ completed' = completed + 1 /\ UNCHANGED panicked
     \/ panicked' = panicked + 1 /\ UNCHANGED completed
  /\ worker' = [worker EXCEPT ![w] = "ready"]
  /\ holding' = [holding EXCEPT ![w] = None]
  /\ UNCHANGED <<queue, closed, rejected, call, owner, reports, joined, report>>

\* close_and_join, first statement: the flag is set under the lock, which is
\* released again before notify_all.  withReport tells shutdown() from drop().
Close(withReport) ==
  /\ owner = "open" /\ Pending = {}
  /\ owner' = "closing" /\ closed' = TRUE /\ reports' = withReport
  /\ UNCHANGED <<queue, completed, panicked, rejected, call, worker, holding,
                 joined, report>>

\* Seeded fault of close_and_join: one waiter is woken, not all.
NotifyAllOnlyOne ==
  /\ owner = "closing" /\ owner' = "joining"
  /\ \/ Waiting = {} /\ UNCHANGED worker
     \/ \E w \in Waiting : worker' = [worker EXCEPT ![w] = "ready"]
  /\ UNCHANGED <<queue, closed, completed, panicked, rejected, call, holding,
                 reports, joined, report>>

NotifyAll ==
  /\ owner = "closing" /\ owner' = "joining"
  /\ worker' = [w \in Workers |-> IF worker[w] = "waiting" THEN "ready" ELSE worker[w]]
  /\ UNCHANGED <<queue, closed, completed, panicked, rejected, call, holding,
                 reports, joined, report>>

\* Seeded fault of the join loop: a handle is dropped instead of joined.
JoinDetaching ==
  /\ owner = "joining" /\ joined < NumWorkers
  /\ joined' = joined + 1
  /\ UNCHANGED <<queue, closed, completed, panicked, rejected, call, worker,
                 holding, owner, reports, report>>

\* w.join(), in the order the workers were spawned.
Join ==
  /\ owner = "joining" /\ joined < NumWorkers
  /\ worker[joined + 1] = "exited"
  /\ joined' = joined + 1
  /\ UNCHANGED <<queue, closed, completed, panicked, rejected, call, worker,
                 holding, owner, reports, report>>

\* Every worker is joined: shutdown() reads the counters, then drops the pool.
Report ==
  /\ owner = "joining" /\ joined = NumWorkers /\ reports
  /\ report' = <<completed, panicked, rejected>>
  /\ owner' = "dropping"
  /\ UNCHANGED <<queue, closed, completed, panicked, rejected, call, worker,
                 holding, reports, joined>>

\* Drop without shutdown() ends here; after shutdown() it runs
\* close_and_join again, which finds no handle to join.
Drop ==
  /\ \/ owner = "joining" /\ joined = NumWorkers /\ ~reports
     \/ owner = "dropping"
  /\ owner' = "gone" /\ closed' = TRUE
  /\ UNCHANGED <<queue, completed, panicked, rejected, call, worker, holding,
                 reports, joined, report>>

\* The last state of a pool: every thread has returned.
Gone == owner = "gone" /\ UNCHANGED poolvars

WorkerStep(w) == Park(w) \/ Take(w) \/ Exit(w)
OwnerStep == NotifyAll \/ Join \/ Report \/ Drop

Next ==
  \/ \E i \in Items : TrySubmit(i) \/ NotifyOne(i)
  \/ \E w \in Workers : SpuriousWake(w) \/ WorkerStep(w) \/ Finish(w)
  \/ \E r \in BOOLEAN : Close(r)
  \/ OwnerStep
  \/ Gone

SafeSpec == Init /\ [][Next]_poolvars

\* A runnable thread runs, a ready worker gets the lock in the end, and
\* handlers return or panic.  Nobody has to submit or to shut down.
Fairness ==
  /\ \A w \in Workers : WF_poolvars(WorkerStep(w)) /\ WF_poolvars(Finish(w))
  /\ \A i \in Items : WF_poolvars(NotifyOne(i))
  /\ WF_poolvars(OwnerStep)

Spec == SafeSpec /\ Fairness
-----------------------------------------------------------------------------
\* Every variable has its type, and the queue keeps to its capacity
\* (try_submit's bound on q.items.len()).
TypeOK ==
  /\ queue \in Seq(Items) /\ Len(queue) <= Capacity
  /\ closed \in BOOLEAN /\ reports \in BOOLEAN
  /\ completed \in Nat /\ panicked \in Nat /\ rejected \in Nat
  /\ call \in [Items -> {"new", "notify", "done", "refused"}]
  /\ worker \in [Workers -> {"ready", "waiting", "busy", "exited"}]
  /\ holding \in [Workers -> Items \union {None}]
  /\ owner \in {"open", "closing", "joining", "dropping", "gone"}
  /\ joined \in 0..NumWorkers
  /\ report \in {NoReport} \union (Nat \X Nat \X Nat)

\* No lost wakeup: while a worker sleeps on item_ready, every queued item is
\* matched by a worker on its way to the queue or by a notify_one still to
\* come; and once the owner has called notify_all, nobody sleeps at all.
\* This is what lets try_submit notify after it has unlocked.
NoLostWakeup ==
  /\ Waiting # {} => Len(queue) <= Cardinality(Pending) + Cardinality(Ready)
  /\ closed /\ owner # "closing" => Waiting = {}

Offered == {i \in Items : call[i] # "new"}

\* Every item offered is in one place: waiting, running, or in one tally.
Accounted ==
  completed + panicked + rejected + Len(queue) + Cardinality(Busy)
    = Cardinality(Offered)

\* The triple shutdown() returns is final: no item is queued or running any
\* more, no worker is left, and its three counts add up to what was offered.
ReportIsFinal ==
  report # NoReport =>
    /\ queue = <<>>
    /\ \A w \in Workers : worker[w] = "exited" /\ holding[w] = None
    /\ report = <<completed, panicked, rejected>>
    /\ completed + panicked + rejected = Cardinality(Offered)

\* shutdown() and drop return, whatever was queued when they were called.
ShutdownReturns == owner = "closing" ~> owner = "gone"

Service == INSTANCE JobService WITH
  waiting <- queue, slot <- holding, offered <- Offered, open <- ~closed,
  NumSlots <- NumWorkers, Idle <- None

\* The pool implements the service: capacity, first in first out, a refusal
\* only when the queue is full, nothing lost at shutdown, and under fairness
\* no accepted item waits while a worker could run it.
ImplementsService == Service!Spec
=============================================================================
