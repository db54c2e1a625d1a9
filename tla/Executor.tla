------------------------------ MODULE Executor ------------------------------
(***************************************************************************)
(* A single-threaded executor of futures: a run queue of tasks, wakers     *)
(* that put their task back, a timer thread, and handles to await another  *)
(* task's result. Source: listings/part-12/ch05-03-executor.rs.            *)
(*                                                                         *)
(* A task's future is a script: a sequence of <<"spawn", t>> and           *)
(* <<"all", S>>, which awaits every member of S, <<"join", t>> or          *)
(* <<"sleep", n>>, polling the unfinished ones each time (ch05-06's        *)
(* JoinAll; with one member it is a plain await). A task is not polled in  *)
(* one step: the timer thread may run between any two accesses to shared   *)
(* state. Both threads are sequentially consistent here. Deadlines are not *)
(* numbers: the timer may find any entry due, in any order.                *)
(***************************************************************************)
EXTENDS Integers, Sequences, FiniteSets, SequencesExt

CONSTANTS Tasks, Root, Nobody,
          Scripts            \* [Tasks -> Seq(step)], several of them

\* Where a script spawns u, and where it awaits u's handle.
Spawns(s, t, i, u) == i \in DOMAIN s[t] /\ s[t][i][1] = "spawn" /\ s[t][i][2] = u
Joins(s, t, i, u)  == i \in DOMAIN s[t] /\ s[t][i][1] = "all" /\ <<"join", u>> \in s[t][i][2]
Awaitable == ({"join"} \X Tasks) \cup ({"sleep"} \X (1 .. 2))

\* A future is spawned at one place, by value, and the only handle to it is consumed
\* by one await, of the task that spawned it.
ASSUME ScriptsAssumption ==
  /\ Root \in Tasks /\ Nobody \notin Tasks
  /\ \A s \in Scripts :
       /\ s \in [Tasks -> Seq(({"spawn"} \X Tasks) \cup ({"all"} \X SUBSET Awaitable))]
       /\ \A t, u \in Tasks : \A i \in DOMAIN s[t] :
            /\ Spawns(s, t, i, u) =>
                 u /= Root /\ \A v \in Tasks : \A j \in DOMAIN s[v] : Spawns(s, v, j, u) => v = t /\ j = i
            /\ Joins(s, t, i, u) =>
                 /\ \E j \in DOMAIN s[t] : j < i /\ Spawns(s, t, j, u)
                 /\ \A j \in DOMAIN s[t] : Joins(s, t, j, u) => j = i

VARIABLES script,
          runq,              \* the channel of tasks to poll
          queued,            \* the flag of each task
          spawned, finished, \* tasks whose future exists, has completed
          at,                \* the step each future is at
          over,              \* what the step has awaited already
          heap, fired,       \* sleeps the timer holds, sleeps that are over, as <<task, n>>
          sleepWaker,        \* sleeps that hold a waker
          joinWaker,         \* the task whose waker the handle of t holds
          result,            \* tasks whose result is there to be taken
          exec, clock        \* the two threads: position, and the task each is about

execVars == <<script, runq, queued, spawned, finished, at, over, heap, fired, sleepWaker, joinWaker, result, exec, clock>>
future   == <<spawned, finished, at, over, result>>
waits    == <<heap, fired, sleepWaker, joinWaker>>
NoSleep  == <<Nobody, 0>>
\* on: the sleep a thread is about; left: what the poll has yet to look at
Thread(pc, t, on) == [pc |-> pc, task |-> t, on |-> on, left |-> {}]
Idle     == Thread("idle", Nobody, NoSleep)
t0       == exec.task
Step     == script[t0][at[t0]]

ExecInit ==
  /\ script \in Scripts
  /\ runq = <<Root>>
  /\ queued = [t \in Tasks |-> t = Root]
  /\ spawned = {Root}
  /\ finished = {}
  /\ at = [t \in Tasks |-> 1]
  /\ over = [t \in Tasks |-> {}]
  /\ heap = {} /\ fired = {} /\ sleepWaker = {} /\ result = {}
  /\ joinWaker = [t \in Tasks |-> Nobody]
  /\ exec = Idle
  /\ clock = Idle

(***************************************************************************)
(* Waking: the flag is set, and only if it was not, the task is sent.      *)
(***************************************************************************)
Swapped(t) == /\ queued' = [queued EXCEPT ![t] = TRUE]
              /\ runq' = runq
Sent(t)    == /\ runq' = Append(runq, t)
              /\ queued' = queued
AfterSwap(th) == IF queued[th.task] THEN Idle ELSE [th EXCEPT !.pc = "send"]

(***************************************************************************)
(* The executor's thread.                                                  *)
(***************************************************************************)
Alive == ToSet(runq) \cup {p[1] : p \in sleepWaker} \cup {joinWaker[t] : t \in Tasks} \cup {clock.task}

Recv ==
  /\ exec.pc = "idle"
  /\ runq /= <<>>
  /\ exec' = Thread("clear", Head(runq), NoSleep)
  /\ runq' = Tail(runq)
  /\ UNCHANGED <<script, queued, future, waits, clock>>

\* recv fails when no task, hence no sender, is left.
Leave ==
  /\ exec.pc = "idle"
  /\ Alive = {Nobody}
  /\ exec' = Thread("returned", Nobody, NoSleep)
  /\ UNCHANGED <<script, runq, queued, future, waits, clock>>

\* Seeded fault: the flag is never cleared, so only the first wake counts.
ClearNever ==
  /\ exec.pc = "clear"
  /\ exec' = IF t0 \in finished THEN Idle ELSE Thread("poll", t0, NoSleep)
  /\ UNCHANGED <<script, runq, queued, future, waits, clock>>

Clear ==
  /\ exec.pc = "clear"
  /\ queued' = [queued EXCEPT ![t0] = FALSE]
  /\ exec' = IF t0 \in finished THEN Idle ELSE Thread("poll", t0, NoSleep)
  /\ UNCHANGED <<script, runq, future, waits, clock>>

Polling(kind) == exec.pc = "poll" /\ at[t0] <= Len(script[t0]) /\ Step[1] = kind
NextStep      == at' = [at EXCEPT ![t0] = @ + 1] /\ over' = [over EXCEPT ![t0] = {}]

Spawn ==
  /\ Polling("spawn")
  /\ spawned' = spawned \cup {Step[2]}
  /\ queued' = [queued EXCEPT ![Step[2]] = TRUE]
  /\ runq' = Append(runq, Step[2])
  /\ NextStep
  /\ UNCHANGED <<script, finished, result, waits, exec, clock>>

\* One poll looks at every wait that is not over, then ends or goes on.
BeginAll ==
  /\ Polling("all")
  /\ exec' = [exec EXCEPT !.pc = "all", !.left = Step[2] \ over[t0]]
  /\ UNCHANGED <<script, runq, queued, future, waits, clock>>

EndAll ==
  /\ exec.pc = "all"
  /\ exec.left = {}
  /\ IF over[t0] = Step[2] THEN NextStep /\ exec' = Thread("poll", t0, NoSleep)
                           ELSE exec' = Idle /\ UNCHANGED <<at, over>>
  /\ UNCHANGED <<script, runq, queued, spawned, finished, result, waits, clock>>

Looking(w) == exec.pc = "all" /\ w \in exec.left
Pending(w) == exec' = [exec EXCEPT !.left = @ \ {w}] /\ UNCHANGED over
Ready(w)   == exec' = [exec EXCEPT !.left = @ \ {w}] /\ over' = [over EXCEPT ![t0] = @ \cup {w}]

PollJoin(t) ==
  /\ Looking(<<"join", t>>)
  /\ IF t \in result
     THEN Ready(<<"join", t>>) /\ result' = result \ {t} /\ UNCHANGED joinWaker
     ELSE Pending(<<"join", t>>) /\ joinWaker' = [joinWaker EXCEPT ![t] = t0] /\ UNCHANGED result
  /\ UNCHANGED <<script, runq, queued, spawned, finished, at, heap, fired, sleepWaker, clock>>

\* The timer thread holds a sleep's lock until it has woken the task.
PollSleep(n) ==
  /\ Looking(<<"sleep", n>>)
  /\ clock.on /= <<t0, n>>
  /\ IF <<t0, n>> \in fired
     THEN Ready(<<"sleep", n>>) /\ UNCHANGED sleepWaker
     ELSE /\ sleepWaker' = sleepWaker \cup {<<t0, n>>}
          /\ exec' = [exec EXCEPT !.left = @ \ {<<"sleep", n>>}, !.on = <<t0, n>>,
                                  !.pc = IF <<t0, n>> \in heap THEN "all" ELSE "register"]
          /\ UNCHANGED over
  /\ UNCHANGED <<script, runq, queued, spawned, finished, at, result, heap, fired, joinWaker, clock>>

\* It also holds the heap.
Register ==
  /\ exec.pc = "register"
  /\ clock = Idle
  /\ heap' = heap \cup {exec.on}
  /\ exec' = [exec EXCEPT !.pc = "all"]
  /\ UNCHANGED <<script, runq, queued, future, fired, sleepWaker, joinWaker, clock>>

\* Seeded fault: the result is stored and the waker taken, but not woken.
CompleteSilently ==
  /\ exec.pc = "poll"
  /\ at[t0] > Len(script[t0])
  /\ result' = result \cup {t0}
  /\ finished' = finished \cup {t0}
  /\ joinWaker' = [joinWaker EXCEPT ![t0] = Nobody]
  /\ exec' = Idle
  /\ UNCHANGED <<script, runq, queued, spawned, at, over, heap, fired, sleepWaker, clock>>

\* The end of the wrapped future: store the result, take the waker, wake.
Complete ==
  /\ exec.pc = "poll"
  /\ at[t0] > Len(script[t0])
  /\ result' = result \cup {t0}
  /\ finished' = finished \cup {t0}
  /\ joinWaker' = [joinWaker EXCEPT ![t0] = Nobody]
  /\ exec' = IF joinWaker[t0] = Nobody THEN Idle ELSE Thread("swap", joinWaker[t0], NoSleep)
  /\ UNCHANGED <<script, runq, queued, spawned, at, over, heap, fired, sleepWaker, clock>>

WakeJoiner ==
  /\ \/ exec.pc = "swap" /\ Swapped(t0) /\ exec' = AfterSwap(exec)
     \/ exec.pc = "send" /\ Sent(t0) /\ exec' = Idle
  /\ UNCHANGED <<script, future, waits, clock>>

ExecutorStep == \/ Recv \/ Leave \/ Clear \/ Spawn \/ BeginAll \/ EndAll \/ Register \/ Complete \/ WakeJoiner
                \/ \E t \in Tasks : PollJoin(t)
                \/ \E n \in 1 .. 2 : PollSleep(n)

(***************************************************************************)
(* The timer's thread.                                                     *)
(***************************************************************************)
Fire ==
  /\ clock = Idle
  /\ \E s \in heap :
       /\ heap' = heap \ {s}
       /\ fired' = fired \cup {s}
       /\ sleepWaker' = sleepWaker \ {s}
       /\ clock' = IF s \in sleepWaker THEN Thread("swap", s[1], s) ELSE Idle
  /\ UNCHANGED <<script, runq, queued, future, joinWaker, exec>>

WakeSleeper ==
  /\ \/ clock.pc = "swap" /\ Swapped(clock.task) /\ clock' = AfterSwap(clock)
     \/ clock.pc = "send" /\ Sent(clock.task) /\ clock' = Idle
  /\ UNCHANGED <<script, future, waits, exec>>

TimerStep == Fire \/ WakeSleeper

ExecNext     == ExecutorStep \/ TimerStep
ExecFairness == WF_execVars(ExecutorStep) /\ WF_execVars(TimerStep)
ExecSpec     == ExecInit /\ [][ExecNext]_execVars /\ ExecFairness

-----------------------------------------------------------------------------
\* Threads between the swap that claimed t's queue entry and its send, or before the swap.
Waking(t)   == \E th \in {exec, clock} : th.pc \in {"swap", "send"} /\ th.task = t
Sending(t)  == \E th \in {exec, clock} : th.pc = "send" /\ th.task = t
Polled(t)   == exec.task = t /\ exec.pc \in {"clear", "poll"}
\* Some wait whose waker is this task's and which is still to end.
Awaits(t)   == \/ \E n \in 1 .. 2 : <<t, n>> \in heap \cap sleepWaker
               \/ \E u \in spawned \ finished : joinWaker[u] = t
\* In the middle of a poll, what was looked at has a waker, and the rest will be looked at.
Looked(t)   == exec.task = t /\ exec.pc \in {"all", "register"}

\* No wakeup is lost between the clearing of the flag, the poll and a wake from
\* either thread: an unfinished task is in the queue, being polled or woken, or
\* its waker is with something that is still to happen. And it is queued once,
\* however often it is woken.
NoWakeLost ==
  /\ \A t \in spawned \ finished : t \in ToSet(runq) \/ Polled(t) \/ Looked(t) \/ Waking(t) \/ Awaits(t)
  /\ \A i, j \in DOMAIN runq : runq[i] = runq[j] => i = j
  /\ \A t \in Tasks : queued[t] => t \in ToSet(runq) \/ Sending(t) \/ (exec.pc = "clear" /\ exec.task = t)

\* run() returns, when every task that was spawned has finished, and not before.
ExecutorReturns == <>(exec.pc = "returned") /\ [](exec.pc = "returned" => finished = spawned)
=============================================================================
