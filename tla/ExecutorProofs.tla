--------------------------- MODULE ExecutorProofs ---------------------------
(***************************************************************************)
(* No wakeup is lost, for any tasks and any scripts. NoWakeLost is not     *)
(* inductive alone: the flag must say where the task's one queue entry is, *)
(* a handle's waker must be its only joiner's, and in the middle of a poll *)
(* each wait that was looked at must still be going to wake the task.      *)
(***************************************************************************)
EXTENDS Executor, TLAPS

Position(pcs) == [pc : pcs, task : Tasks \cup {Nobody}, on : (Tasks \cup {Nobody}) \X (0 .. 2), left : SUBSET Awaitable]

ExecutorPcs == {"idle", "clear", "poll", "all", "register", "swap", "send", "returned"}
TimerPcs    == {"idle", "swap", "send"}

Typed ==
  /\ script \in Scripts
  /\ runq \in Seq(Tasks)
  /\ queued \in [Tasks -> BOOLEAN]
  /\ spawned \subseteq Tasks
  /\ at \in [Tasks -> Nat \ {0}]
  /\ over \in [Tasks -> SUBSET Awaitable]
  /\ heap \subseteq Tasks \X (1 .. 2)
  /\ joinWaker \in [Tasks -> Tasks \cup {Nobody}]
  /\ exec \in Position(ExecutorPcs)
  /\ clock \in Position(TimerPcs)

\* What is spawned, and nothing else, was spawned by a step that is over.
Origin ==
  /\ \A u \in spawned : u = Root \/ \E t \in Tasks : \E i \in DOMAIN script[t] : Spawns(script, t, i, u) /\ i < at[t]
  /\ \A t, u \in Tasks : \A i \in DOMAIN script[t] : Spawns(script, t, i, u) /\ i < at[t] => u \in spawned

\* Only spawned tasks are queued, waited for or run.
Known ==
  /\ \A t \in Tasks : queued[t] => t \in spawned
  /\ \A s \in heap : s[1] \in spawned
  /\ \A u \in Tasks : joinWaker[u] /= Nobody => joinWaker[u] \in spawned
  /\ exec.pc \notin {"idle", "returned"} => exec.task \in spawned
  /\ clock.pc /= "idle" => clock.task \in spawned

\* The flag of a task is set exactly while there is an entry for it, or a thread is
\* about to send or has just received it; there is never a second one.
Flag ==
  /\ \A i, j \in DOMAIN runq : runq[i] = runq[j] => i = j
  /\ \A t \in Tasks : queued[t] => t \in ToSet(runq) \/ Sending(t) \/ (exec.pc = "clear" /\ exec.task = t)
  /\ \A t \in Tasks : t \in ToSet(runq) \/ Sending(t) => queued[t]
  /\ \A t \in Tasks : ~(t \in ToSet(runq) /\ Sending(t))
  /\ exec.pc = "clear" => queued[exec.task] /\ exec.task \notin ToSet(runq) /\ ~Sending(exec.task)
  /\ exec.pc = "send" /\ clock.pc = "send" => exec.task /= clock.task

\* A handle holds its joiner's waker, and a result that is gone was awaited by it.
Handles ==
  /\ \A u \in Tasks : joinWaker[u] /= Nobody =>
       \E i \in DOMAIN script[joinWaker[u]] : Joins(script, joinWaker[u], i, u)
  /\ \A u \in finished \ result : \E t \in Tasks : \E i \in DOMAIN script[t] :
       Joins(script, t, i, u) /\ (i < at[t] \/ (i = at[t] /\ <<"join", u>> \in over[t]))

\* What a poll has yet to look at is of its step, and not over.
Poll ==
  /\ exec.pc \in {"poll", "all", "register"} => exec.task \notin finished
  /\ exec.pc \in {"all", "register"} =>
       /\ at[exec.task] \in DOMAIN script[exec.task] /\ Step[1] = "all"
       /\ exec.left \subseteq Step[2] \ over[exec.task]
  /\ exec.pc = "register" => exec.on \in sleepWaker \ heap /\ \E n \in 1 .. 2 : exec.on = <<exec.task, n>>
  /\ \A t \in Tasks : over[t] /= {} =>
       at[t] \in DOMAIN script[t] /\ script[t][at[t]][1] = "all" /\ over[t] \subseteq script[t][at[t]][2]

\* The wait w of the task that is polled has its waker and is still to end.
Holds(w) ==
  \/ \E n \in 1 .. 2 : /\ w = <<"sleep", n>>
                       /\ \/ <<exec.task, n>> \in heap \cap sleepWaker
                          \/ exec.pc = "register" /\ exec.on = <<exec.task, n>>
  \/ \E u \in spawned \ finished : w = <<"join", u>> /\ joinWaker[u] = exec.task

MidPoll ==
  exec.pc \in {"all", "register"} =>
    \A w \in Step[2] \ (over[exec.task] \cup exec.left) :
      Holds(w) \/ exec.task \in ToSet(runq) \/ Waking(exec.task)

Wakes == \A t \in spawned \ finished : t \in ToSet(runq) \/ Polled(t) \/ Looked(t) \/ Waking(t) \/ Awaits(t)

ExecInv == Typed /\ Origin /\ Known /\ Flag /\ Handles /\ Poll /\ MidPoll /\ Wakes

-----------------------------------------------------------------------------
(***************************************************************************)
(* The run queue as a set.                                                 *)
(***************************************************************************)
Once(q) == \A i, j \in DOMAIN q : q[i] = q[j] => i = j

LEMMA Sends ==
  ASSUME NEW q \in Seq(Tasks), NEW t \in Tasks
  PROVE  /\ Append(q, t) \in Seq(Tasks)
         /\ ToSet(Append(q, t)) = ToSet(q) \cup {t}
         /\ Once(q) /\ t \notin ToSet(q) => Once(Append(q, t))
<1>1. /\ DOMAIN Append(q, t) = 1 .. (Len(q) + 1)
      /\ DOMAIN q = 1 .. Len(q)
      /\ \A i \in 1 .. Len(q) : Append(q, t)[i] = q[i]
      /\ Append(q, t)[Len(q) + 1] = t
      /\ Len(q) \in Nat
  OBVIOUS
<1>2. Append(q, t) \in Seq(Tasks)
  OBVIOUS
<1>3. ToSet(Append(q, t)) = ToSet(q) \cup {t}
  BY <1>1 DEF ToSet
<1>4. Once(q) /\ t \notin ToSet(q) => Once(Append(q, t))
  BY <1>1 DEF ToSet, Once
<1> QED
  BY <1>2, <1>3, <1>4

LEMMA Receives ==
  ASSUME NEW q \in Seq(Tasks), q /= <<>>
  PROVE  /\ Head(q) \in Tasks
         /\ Tail(q) \in Seq(Tasks)
         /\ ToSet(q) = ToSet(Tail(q)) \cup {Head(q)}
         /\ Once(q) => Once(Tail(q)) /\ Head(q) \notin ToSet(Tail(q))
<1>1. /\ DOMAIN q = 1 .. Len(q)
      /\ Len(q) \in Nat \ {0}
      /\ Head(q) = q[1]
      /\ DOMAIN Tail(q) = 1 .. (Len(q) - 1)
      /\ \A i \in 1 .. (Len(q) - 1) : Tail(q)[i] = q[i + 1]
  OBVIOUS
<1>2. Head(q) \in Tasks /\ Tail(q) \in Seq(Tasks)
  OBVIOUS
<1>3. \A i \in 1 .. Len(q) : q[i] \in ToSet(Tail(q)) \cup {Head(q)}
  <2> TAKE i \in 1 .. Len(q)
  <2>1. CASE i = 1
    BY <1>1, <2>1
  <2>2. CASE i /= 1
    <3>1. i - 1 \in 1 .. (Len(q) - 1) /\ Tail(q)[i - 1] = q[i]
      BY <1>1, <2>2
    <3> QED
      BY <1>1, <3>1 DEF ToSet
  <2> QED
    BY <2>1, <2>2
<1>4. ToSet(Tail(q)) \cup {Head(q)} \subseteq ToSet(q)
  BY <1>1 DEF ToSet
<1>5. Once(q) => Once(Tail(q)) /\ Head(q) \notin ToSet(Tail(q))
  BY <1>1 DEF ToSet, Once
<1>6. ToSet(q) = ToSet(Tail(q)) \cup {Head(q)}
  BY <1>1, <1>3, <1>4 DEF ToSet
<1> QED
  BY <1>2, <1>5, <1>6

(***************************************************************************)
(* What the assumption on scripts says of one place.                       *)
(***************************************************************************)
LEMMA ScriptTypes ==
  ASSUME NEW s \in Scripts, NEW t \in Tasks
  PROVE  /\ DOMAIN s[t] = 1 .. Len(s[t]) /\ Len(s[t]) \in Nat
         /\ \A i \in DOMAIN s[t] : \/ s[t][i][1] = "spawn" /\ s[t][i][2] \in Tasks
                                   \/ s[t][i][1] = "all" /\ s[t][i][2] \in SUBSET Awaitable
<1>1. s[t] \in Seq(({"spawn"} \X Tasks) \cup ({"all"} \X SUBSET Awaitable))
  BY ScriptsAssumption
<1> DEFINE Steps == ({"spawn"} \X Tasks) \cup ({"all"} \X SUBSET Awaitable)
<1>2. \A x \in Steps : \/ x[1] = "spawn" /\ x[2] \in Tasks
                       \/ x[1] = "all" /\ x[2] \in SUBSET Awaitable
  OBVIOUS
<1>3. s[t] \in Seq(Steps)
  BY <1>1
<1> HIDE DEF Steps
<1>4. \A i \in DOMAIN s[t] : s[t][i] \in Steps
  BY <1>3
<1> QED
  BY <1>2, <1>3, <1>4

LEMMA OneSpawn ==
  ASSUME NEW s \in Scripts, NEW t \in Tasks, NEW u \in Tasks, NEW i \in DOMAIN s[t], Spawns(s, t, i, u)
  PROVE  /\ u /= Root
         /\ \A v \in Tasks : \A j \in DOMAIN s[v] : Spawns(s, v, j, u) => v = t /\ j = i
BY ScriptsAssumption

LEMMA OneJoin ==
  ASSUME NEW s \in Scripts, NEW t \in Tasks, NEW u \in Tasks, NEW i \in DOMAIN s[t], Joins(s, t, i, u)
  PROVE  /\ \E j \in DOMAIN s[t] : j < i /\ Spawns(s, t, j, u)
         /\ \A v \in Tasks : \A j \in DOMAIN s[v] : Joins(s, v, j, u) => v = t /\ j = i
<1>1. /\ \E j \in DOMAIN s[t] : j < i /\ Spawns(s, t, j, u)
      /\ \A j \in DOMAIN s[t] : Joins(s, t, j, u) => j = i
  BY ScriptsAssumption
<1>2. ASSUME NEW v \in Tasks, NEW j \in DOMAIN s[v], Joins(s, v, j, u)
      PROVE  v = t
  <2>1. PICK a \in DOMAIN s[v] : Spawns(s, v, a, u)
    BY <1>2, ScriptsAssumption
  <2>2. PICK b \in DOMAIN s[t] : Spawns(s, t, b, u)
    BY <1>1
  <2> QED
    BY <2>1, <2>2, OneSpawn
<1> QED
  BY <1>1, <1>2

(***************************************************************************)
(* The two threads.                                                        *)
(***************************************************************************)
LEMMA Threads ==
  ASSUME ExecInv
  PROVE  /\ exec.pc \in {"idle", "clear", "poll", "all", "register", "swap", "send", "returned"}
         /\ clock.pc \in {"idle", "swap", "send"}
         /\ exec.task \in Tasks \cup {Nobody} /\ clock.task \in Tasks \cup {Nobody}
         /\ exec.left \in SUBSET Awaitable
         /\ exec.pc \notin {"idle", "returned"} => exec.task \in Tasks
         /\ clock.pc /= "idle" => clock.task \in Tasks
         /\ Root \in Tasks /\ Nobody \notin Tasks
BY ScriptsAssumption DEF ExecInv, Typed, Known, Position, ExecutorPcs, TimerPcs

LEMMA ExecutorAt ==
  ASSUME NEW pc \in ExecutorPcs, NEW t \in Tasks \cup {Nobody}, NEW on \in (Tasks \cup {Nobody}) \X (0 .. 2)
  PROVE  /\ Thread(pc, t, on) \in Position(ExecutorPcs)
         /\ Thread(pc, t, on).pc = pc /\ Thread(pc, t, on).task = t
         /\ Thread(pc, t, on).on = on /\ Thread(pc, t, on).left = {}
BY DEF Thread, Position

LEMMA TimerAt ==
  ASSUME NEW pc \in TimerPcs, NEW t \in Tasks \cup {Nobody}, NEW on \in (Tasks \cup {Nobody}) \X (0 .. 2)
  PROVE  /\ Thread(pc, t, on) \in Position(TimerPcs)
         /\ Thread(pc, t, on).pc = pc /\ Thread(pc, t, on).task = t
         /\ Thread(pc, t, on).on = on /\ Thread(pc, t, on).left = {}
BY DEF Thread, Position

LEMMA IdleAt ==
  /\ Idle \in Position(ExecutorPcs) /\ Idle \in Position(TimerPcs)
  /\ Idle.pc = "idle" /\ Idle.task = Nobody /\ Idle.left = {}
BY DEF Idle, Thread, NoSleep, Position, ExecutorPcs, TimerPcs

LEMMA NoSleepOn == NoSleep \in (Tasks \cup {Nobody}) \X (0 .. 2)
BY DEF NoSleep


(***************************************************************************)
(* The executor's thread.                                                  *)
(***************************************************************************)
LEMMA RecvKeeps ==
  ASSUME ExecInv, Recv
  PROVE  ExecInv'
<1> DEFINE h == Head(runq)
<1> USE DEF ExecInv
<1>1. /\ exec.pc = "idle" /\ exec'.pc = "clear" /\ exec'.task = h
      /\ exec' \in Position(ExecutorPcs)
  BY Receives, ExecutorAt, NoSleepOn DEF ExecutorPcs, Recv, Typed
<1>2. /\ runq' \in Seq(Tasks) /\ h \in Tasks /\ Once(runq')
      /\ ToSet(runq) = ToSet(runq') \cup {h} /\ h \notin ToSet(runq')
  BY Receives DEF Recv, Typed, Flag, Once
<1>3. queued[h] /\ ~Sending(h) /\ h \in spawned
  BY <1>2 DEF Flag, Known
<1>4. \A t : Sending(t)' <=> Sending(t)
  BY <1>1 DEF Recv, Sending
<1>5. Typed'
  BY <1>1, <1>2 DEF Recv, future, waits, Typed
<1>6. Origin'
  BY DEF Recv, future, Origin, Spawns
<1>7. Known'
  BY <1>1, <1>3 DEF Recv, future, waits, Known
<1>8. Flag'
  BY <1>1, <1>2, <1>3, <1>4 DEF Recv, Flag, Once
<1>9. Handles'
  BY DEF Recv, future, waits, Handles, Joins
<1>10. Poll' /\ MidPoll'
  BY <1>1 DEF Recv, future, waits, Poll, MidPoll
<1>11. Wakes'
  <2> SUFFICES ASSUME NEW t \in spawned \ finished, t /= h
               PROVE  (t \in ToSet(runq) \/ Polled(t) \/ Looked(t) \/ Waking(t) \/ Awaits(t))'
    BY <1>1 DEF Recv, future, Wakes, Polled
  <2>1. t \in ToSet(runq) \/ Waking(t) \/ Awaits(t)
    BY <1>1 DEF Wakes, Polled, Looked
  <2>2. Awaits(t) => Awaits(t)'
    BY DEF Recv, future, waits, Awaits
  <2>3. Waking(t) => Waking(t)'
    BY <1>1 DEF Recv, Waking
  <2> QED
    BY <1>2, <2>1, <2>2, <2>3
<1> QED
  BY <1>5, <1>6, <1>7, <1>8, <1>9, <1>10, <1>11

LEMMA LeaveKeeps ==
  ASSUME ExecInv, Leave
  PROVE  ExecInv'
<1> USE DEF ExecInv
<1>1. /\ exec.pc = "idle" /\ exec'.pc = "returned"
      /\ exec' \in Position(ExecutorPcs)
  <2>1. "returned" \in ExecutorPcs /\ Nobody \in Tasks \cup {Nobody}
    BY DEF ExecutorPcs
  <2> QED
    BY <2>1, ExecutorAt, NoSleepOn DEF Leave
<1>2. \A t : (Sending(t)' <=> Sending(t)) /\ (Waking(t)' <=> Waking(t))
  BY <1>1 DEF Leave, Sending, Waking
<1>3. Typed' /\ Origin' /\ Known' /\ Handles'
  <2>1. Typed' /\ Known'
    BY <1>1 DEF Leave, future, waits, Typed, Known
  <2>2. Origin' /\ Handles'
    BY DEF Leave, future, waits, Origin, Spawns, Handles, Joins
  <2> QED
    BY <2>1, <2>2
<1>4. Flag'
  BY <1>1, <1>2 DEF Leave, Flag
<1>5. Poll' /\ MidPoll'
  BY <1>1 DEF Leave, future, waits, Poll, MidPoll
<1>6. Wakes'
  BY <1>1, <1>2 DEF Leave, future, waits, Wakes, Polled, Looked, Awaits
<1> QED
  BY <1>3, <1>4, <1>5, <1>6

LEMMA ClearKeeps ==
  ASSUME ExecInv, Clear
  PROVE  ExecInv'
<1> DEFINE t1 == exec.task
<1> USE DEF ExecInv
<1>1. /\ exec.pc = "clear" /\ t1 \in Tasks /\ t1 \in spawned
      /\ IF t1 \in finished THEN exec'.pc = "idle" ELSE exec'.pc = "poll" /\ exec'.task = t1
      /\ exec' \in Position(ExecutorPcs)
  BY Threads, ExecutorAt, NoSleepOn DEF ExecutorPcs, Clear, Known, Idle, t0
<1>2. queued' = [queued EXCEPT ![t1] = FALSE] /\ queued[t1] /\ t1 \notin ToSet(runq) /\ ~Sending(t1)
  BY <1>1 DEF Clear, t0, Flag
<1>3. /\ queued' \in [Tasks -> BOOLEAN] /\ ~queued'[t1]
      /\ \A t \in Tasks : t /= t1 => queued'[t] = queued[t]
  BY <1>1, <1>2 DEF Typed
<1>4. \A t : (Sending(t)' <=> Sending(t)) /\ (Waking(t)' <=> Waking(t))
  BY <1>1 DEF Clear, Sending, Waking
<1>5. Typed'
  BY <1>1, <1>3 DEF Clear, future, waits, Typed
<1>6. Origin'
  BY DEF Clear, future, Origin, Spawns
<1>7. Known'
  BY <1>1, <1>3 DEF Clear, future, waits, Known
<1>8. Flag'
  BY <1>1, <1>2, <1>3, <1>4 DEF Clear, Flag
<1>9. Handles'
  BY DEF Clear, future, waits, Handles, Joins
<1>10. Poll' /\ MidPoll'
  BY <1>1 DEF Clear, future, waits, Poll, MidPoll
<1>11. Wakes'
  <2> SUFFICES ASSUME NEW t \in spawned \ finished, t /= t1
               PROVE  (t \in ToSet(runq) \/ Polled(t) \/ Looked(t) \/ Waking(t) \/ Awaits(t))'
    BY <1>1 DEF Clear, future, Wakes, Polled
  <2>1. t \in ToSet(runq) \/ Waking(t) \/ Awaits(t)
    BY DEF Wakes, Polled, Looked
  <2> QED
    BY <1>4, <2>1 DEF Clear, future, waits, Awaits
<1> QED
  BY <1>5, <1>6, <1>7, <1>8, <1>9, <1>10, <1>11

LEMMA SpawnKeeps ==
  ASSUME ExecInv, Spawn
  PROVE  ExecInv'
<1> DEFINE t1 == exec.task
           i  == at[t1]
           u  == script[t1][i][2]
<1> USE DEF ExecInv
<1>1. /\ exec.pc = "poll" /\ t1 \in Tasks /\ script \in Scripts
      /\ i \in DOMAIN script[t1] /\ i \in Nat /\ script[t1][i][1] = "spawn"
  BY Threads, ScriptTypes DEF Spawn, Polling, Step, t0, Typed
<1>2. u \in Tasks /\ Spawns(script, t1, i, u)
  BY <1>1, ScriptTypes DEF Spawns
<1>3. u \notin spawned
  <2> SUFFICES ASSUME u \in spawned PROVE FALSE
    OBVIOUS
  <2>1. u /= Root /\ \A v \in Tasks : \A j \in DOMAIN script[v] : Spawns(script, v, j, u) => v = t1 /\ j = i
    BY <1>1, <1>2, OneSpawn
  <2>2. PICK v \in Tasks : \E j \in DOMAIN script[v] : Spawns(script, v, j, u) /\ j < at[v]
    BY <2>1 DEF Origin
  <2>3. at[t1] < at[t1]
    BY <2>1, <2>2
  <2> QED
    BY <1>1, <2>3
<1>4. ~queued[u] /\ u \notin ToSet(runq) /\ ~Sending(u)
  BY <1>2, <1>3 DEF Known, Flag
<1>5. /\ spawned' = spawned \cup {u} /\ queued' = [queued EXCEPT ![u] = TRUE] /\ runq' = Append(runq, u)
      /\ at' = [at EXCEPT ![t1] = i + 1] /\ over' = [over EXCEPT ![t1] = {}]
  BY DEF Spawn, NextStep, Step, t0
<1>6. /\ runq' \in Seq(Tasks) /\ Once(runq') /\ ToSet(runq') = ToSet(runq) \cup {u}
  BY <1>2, <1>4, <1>5, Sends DEF Typed, Flag, Once
<1>7. /\ at' \in [Tasks -> Nat \ {0}] /\ at'[t1] = i + 1
      /\ \A t \in Tasks : at[t] \in Nat /\ (t /= t1 => at'[t] = at[t] /\ over'[t] = over[t])
      /\ over' \in [Tasks -> SUBSET Awaitable] /\ over'[t1] = {}
  BY <1>1, <1>5 DEF Typed
<1>8. /\ queued' \in [Tasks -> BOOLEAN] /\ queued'[u]
      /\ \A t \in Tasks : t /= u => queued'[t] = queued[t]
  BY <1>2, <1>5 DEF Typed
<1>9. /\ UNCHANGED <<script, exec, clock, finished, result, heap, sleepWaker, joinWaker>>
      /\ \A t : (Sending(t)' <=> Sending(t)) /\ (Waking(t)' <=> Waking(t))
  BY DEF Spawn, waits, Sending, Waking
<1>10. Typed'
  BY <1>2, <1>5, <1>6, <1>7, <1>8, <1>9 DEF Typed
<1>11. Origin'
  <2>1. \A t, v \in Tasks : \A j \in DOMAIN script[t] : Spawns(script, t, j, v)' <=> Spawns(script, t, j, v)
    BY <1>9 DEF Spawns
  <2>2. \A t \in Tasks : \A j \in DOMAIN script[t] : j \in Nat /\ (j < at[t] => j < at'[t])
    BY <1>1, <1>7, ScriptTypes
  <2>3. ASSUME NEW v \in spawned'
        PROVE  v = Root \/ \E t \in Tasks : \E j \in DOMAIN script[t] : Spawns(script, t, j, v) /\ j < at'[t]
    <3>1. CASE v = u
      BY <1>1, <1>2, <1>7, <3>1
    <3>2. CASE v \in spawned
      BY <2>2, <3>2 DEF Origin
    <3> QED
      BY <1>5, <3>1, <3>2
  <2>4. ASSUME NEW t \in Tasks, NEW v \in Tasks, NEW j \in DOMAIN script[t], Spawns(script, t, j, v), j < at'[t]
        PROVE  v \in spawned'
    <3>1. CASE t = t1 /\ j = i
      BY <1>2, <1>5, <2>4, <3>1 DEF Spawns
    <3>2. CASE ~(t = t1 /\ j = i)
      <4>1. j < at[t]
        BY <1>1, <1>7, <2>2, <2>4, <3>2
      <4> QED
        BY <1>5, <2>4, <4>1 DEF Origin
    <3> QED
      BY <3>1, <3>2
  <2> QED
    BY <1>5, <1>9, <2>1, <2>3, <2>4 DEF Origin, Typed
<1>12. Known'
  BY <1>5, <1>8, <1>9 DEF Known
<1>13. Flag'
  <2> SUFFICES ASSUME NEW t \in Tasks
               PROVE  /\ queued'[t] => t \in ToSet(runq') \/ Sending(t)
                      /\ t \in ToSet(runq') \/ Sending(t) => queued'[t]
                      /\ ~(t \in ToSet(runq') /\ Sending(t))
    BY <1>1, <1>6, <1>9 DEF Flag, Once
  <2>1. CASE t = u
    BY <1>4, <1>6, <1>8, <2>1
  <2>2. CASE t /= u
    BY <1>1, <1>6, <1>8, <2>2 DEF Flag
  <2> QED
    BY <2>1, <2>2
<1>14. Handles'
  <2>1. ASSUME NEW v \in finished \ result
        PROVE  \E t \in Tasks : \E j \in DOMAIN script[t] :
                 Joins(script, t, j, v) /\ (j < at'[t] \/ (j = at'[t] /\ <<"join", v>> \in over'[t]))
    <3>0. PICK t \in Tasks : \E j \in DOMAIN script[t] :
            Joins(script, t, j, v) /\ (j < at[t] \/ (j = at[t] /\ <<"join", v>> \in over[t]))
      BY DEF Handles
    <3>1. PICK j \in DOMAIN script[t] :
            Joins(script, t, j, v) /\ (j < at[t] \/ (j = at[t] /\ <<"join", v>> \in over[t]))
      BY <3>0
    <3>2. j \in Nat
      BY <1>1, ScriptTypes
    <3>3. t = t1 => j < at[t]
      BY <1>1, <3>1 DEF Joins
    <3>4. j < at'[t] \/ (j = at'[t] /\ <<"join", v>> \in over'[t])
      BY <1>1, <1>7, <3>1, <3>2, <3>3
    <3> QED
      BY <3>1, <3>4
  <2> QED
    BY <1>9, <2>1 DEF Handles, Joins
<1>15. Poll' /\ MidPoll'
  BY <1>1, <1>7, <1>9 DEF Poll, MidPoll
<1>16. Wakes'
  <2> SUFFICES ASSUME NEW t \in spawned \ finished
               PROVE  (t \in ToSet(runq) \/ Polled(t) \/ Looked(t) \/ Waking(t) \/ Awaits(t))'
    BY <1>5, <1>6, <1>9 DEF Wakes
  <2>1. Awaits(t) => Awaits(t)'
    BY <1>5, <1>9 DEF Awaits
  <2> QED
    BY <1>6, <1>9, <2>1 DEF Wakes, Polled, Looked
<1> QED
  BY <1>10, <1>11, <1>12, <1>13, <1>14, <1>15, <1>16

LEMMA BeginAllKeeps ==
  ASSUME ExecInv, BeginAll
  PROVE  ExecInv'
<1> DEFINE t1 == exec.task
           S  == script[t1][at[t1]][2]
<1> USE DEF ExecInv
<1>1. /\ exec.pc = "poll" /\ t1 \in Tasks /\ script \in Scripts
      /\ at[t1] \in DOMAIN script[t1] /\ script[t1][at[t1]][1] = "all"
  BY Threads, ScriptTypes DEF BeginAll, Polling, Step, t0, Typed
<1>2. S \in SUBSET Awaitable
  BY <1>1, ScriptTypes
<1>3. /\ exec'.pc = "all" /\ exec'.task = t1 /\ exec'.left = S \ over[t1]
      /\ exec' \in Position(ExecutorPcs)
  BY <1>2 DEF BeginAll, Step, t0, Typed, Position, ExecutorPcs
<1>4. /\ UNCHANGED <<script, runq, queued, spawned, finished, at, over, result, heap, sleepWaker, joinWaker, clock>>
      /\ \A t : (Sending(t)' <=> Sending(t)) /\ (Waking(t)' <=> Waking(t))
  BY <1>1, <1>3 DEF BeginAll, future, waits, Sending, Waking
<1>5. Typed' /\ Origin' /\ Known' /\ Handles'
  <2>1. Typed' /\ Known'
    BY <1>1, <1>3, <1>4 DEF Typed, Known
  <2>2. Origin' /\ Handles'
    BY <1>4 DEF Origin, Spawns, Handles, Joins
  <2> QED
    BY <2>1, <2>2
<1>6. Flag'
  BY <1>1, <1>3, <1>4 DEF Flag
<1>7. Poll'
  BY <1>1, <1>3, <1>4 DEF Poll, Step, t0
<1>8. MidPoll'
  BY <1>3, <1>4 DEF MidPoll, Step, t0
<1>9. Wakes'
  BY <1>1, <1>3, <1>4 DEF Wakes, Polled, Looked, Awaits
<1> QED
  BY <1>5, <1>6, <1>7, <1>8, <1>9

LEMMA EndAllKeeps ==
  ASSUME ExecInv, EndAll
  PROVE  ExecInv'
<1> DEFINE t1 == exec.task
           i  == at[t1]
           S  == script[t1][i][2]
<1> USE DEF ExecInv
<1>1. /\ exec.pc = "all" /\ exec.left = {} /\ t1 \in Tasks /\ script \in Scripts
      /\ i \in DOMAIN script[t1] /\ i \in Nat /\ script[t1][i][1] = "all"
      /\ t1 \notin finished /\ over[t1] \subseteq S
  BY Threads, ScriptTypes DEF EndAll, Poll, Step, t0, Typed
<1>2. /\ UNCHANGED <<script, runq, queued, spawned, finished, result, heap, sleepWaker, joinWaker, clock>>
      /\ DOMAIN script[t1] \subseteq Nat
  BY <1>1, ScriptTypes DEF EndAll, waits
<1>3. CASE over[t1] = S
  <2>1. exec'.pc = "poll" /\ exec'.task = t1 /\ exec' \in Position(ExecutorPcs)
    BY <1>1, <1>3, ExecutorAt, NoSleepOn DEF EndAll, Step, t0, ExecutorPcs
  <2>2. at' = [at EXCEPT ![t1] = i + 1] /\ over' = [over EXCEPT ![t1] = {}]
    BY <1>3 DEF EndAll, NextStep, Step, t0
  <2>3. /\ at' \in [Tasks -> Nat \ {0}] /\ at'[t1] = i + 1
        /\ \A t \in Tasks : at[t] \in Nat /\ (t /= t1 => at'[t] = at[t] /\ over'[t] = over[t])
        /\ over' \in [Tasks -> SUBSET Awaitable] /\ over'[t1] = {}
    BY <1>1, <2>2 DEF Typed
  <2>4. \A t : (Sending(t)' <=> Sending(t)) /\ (Waking(t)' <=> Waking(t))
    BY <1>1, <1>2, <2>1 DEF Sending, Waking
  <2>5. Typed' /\ Known'
    BY <1>1, <1>2, <2>1, <2>3 DEF Typed, Known
  <2>6. Origin'
    <3>1. \A t \in Tasks : \A j \in DOMAIN script[t] : j \in Nat
      BY <1>1, ScriptTypes
    <3>2. ASSUME NEW t \in Tasks, NEW v \in Tasks, NEW j \in DOMAIN script[t], Spawns(script, t, j, v)
          PROVE  j < at'[t] <=> j < at[t]
      <4>1. ~(t = t1 /\ j = i)
        BY <1>1, <3>2 DEF Spawns
      <4> QED
        BY <1>1, <2>3, <3>1, <4>1
    <3>3. \A t, v \in Tasks : \A j \in DOMAIN script[t] : Spawns(script, t, j, v)' <=> Spawns(script, t, j, v)
      BY <1>2 DEF Spawns
    <3> QED
      BY <1>2, <3>2, <3>3 DEF Origin, Typed
  <2>7. Flag'
    BY <1>1, <1>2, <2>1, <2>4 DEF Flag
  <2>8. Handles'
    <3>1. ASSUME NEW v \in finished \ result
          PROVE  \E t \in Tasks : \E j \in DOMAIN script[t] :
                   Joins(script, t, j, v) /\ (j < at'[t] \/ (j = at'[t] /\ <<"join", v>> \in over'[t]))
      <4>1. PICK t \in Tasks : \E j \in DOMAIN script[t] :
              Joins(script, t, j, v) /\ (j < at[t] \/ (j = at[t] /\ <<"join", v>> \in over[t]))
        BY DEF Handles
      <4>2. PICK j \in DOMAIN script[t] :
              Joins(script, t, j, v) /\ (j < at[t] \/ (j = at[t] /\ <<"join", v>> \in over[t]))
        BY <4>1
      <4>3. j \in Nat
        BY <1>1, ScriptTypes
      <4>4. j < at'[t] \/ (j = at'[t] /\ <<"join", v>> \in over'[t])
        BY <1>1, <2>3, <4>2, <4>3
      <4> QED
        BY <4>2, <4>4
    <3> QED
      BY <1>2, <3>1 DEF Handles, Joins
  <2>9. Poll' /\ MidPoll'
    BY <1>1, <1>2, <2>1, <2>3 DEF Poll, MidPoll
  <2>10. Wakes'
    BY <1>1, <1>2, <2>1, <2>4 DEF Wakes, Polled, Looked, Awaits
  <2> QED
    BY <2>5, <2>6, <2>7, <2>8, <2>9, <2>10
<1>4. CASE over[t1] /= S
  <2>1. exec' = Idle /\ exec'.pc = "idle" /\ UNCHANGED <<at, over>>
    BY <1>4, IdleAt DEF EndAll, Step, t0
  <2>2. \A t : (Sending(t)' <=> Sending(t)) /\ (Waking(t)' <=> Waking(t))
    BY <1>1, <1>2, <2>1 DEF Sending, Waking
  <2>3. Typed' /\ Origin' /\ Known' /\ Handles'
    <3>1. Typed' /\ Known'
      BY <1>2, <2>1, IdleAt DEF Typed, Known
    <3>2. Origin' /\ Handles'
      BY <1>2, <2>1 DEF Origin, Spawns, Handles, Joins
    <3> QED
      BY <3>1, <3>2
  <2>4. Flag'
    BY <1>1, <1>2, <2>1, <2>2 DEF Flag
  <2>5. Poll' /\ MidPoll'
    BY <1>2, <2>1 DEF Poll, MidPoll
  <2>6. t1 \in ToSet(runq) \/ Waking(t1) \/ Awaits(t1)
    <3>1. PICK w \in S : w \notin over[t1]
      BY <1>1, <1>4
    <3>2. Holds(w) \/ t1 \in ToSet(runq) \/ Waking(t1)
      BY <1>1, <3>1 DEF MidPoll, Step, t0
    <3> QED
      BY <1>1, <3>2 DEF Holds, Awaits
  <2>7. Wakes'
    BY <1>1, <1>2, <2>1, <2>2, <2>6 DEF Wakes, Polled, Looked, Awaits
  <2> QED
    BY <2>3, <2>4, <2>5, <2>7
<1> QED
  BY <1>3, <1>4

LEMMA PollJoinKeeps ==
  ASSUME ExecInv, NEW u \in Tasks, PollJoin(u)
  PROVE  ExecInv'
<1> DEFINE t1 == exec.task
           i  == at[t1]
           S  == script[t1][i][2]
           w  == <<"join", u>>
<1> USE DEF ExecInv
<1>1. /\ exec.pc = "all" /\ t1 \in Tasks /\ t1 \in spawned /\ t1 \notin finished /\ script \in Scripts
      /\ i \in DOMAIN script[t1] /\ script[t1][i][1] = "all"
      /\ w \in exec.left /\ exec.left \subseteq S \ over[t1] /\ over[t1] \subseteq S
      /\ exec.left \in SUBSET Awaitable
  BY Threads DEF PollJoin, Looking, Poll, Step, t0, Typed, Known
<1>2. Joins(script, t1, i, u)
  BY <1>1 DEF Joins
<1>3. \A v \in Tasks : \A j \in DOMAIN script[v] : Joins(script, v, j, u) => v = t1 /\ j = i
  BY <1>1, <1>2, OneJoin
<1>4. exec' = [exec EXCEPT !.left = @ \ {w}]
  BY DEF PollJoin, Ready, Pending
<1>5. /\ exec'.pc = "all" /\ exec'.task = t1 /\ exec'.on = exec.on /\ exec'.left = exec.left \ {w}
      /\ exec' \in Position(ExecutorPcs)
  BY <1>1, <1>4 DEF Typed, Position
<1>6. UNCHANGED <<script, runq, queued, spawned, finished, at, heap, sleepWaker, clock>>
  BY DEF PollJoin
<1>7. \A t : (Sending(t)' <=> Sending(t)) /\ (Waking(t)' <=> Waking(t))
  BY <1>1, <1>5, <1>6 DEF Sending, Waking
<1>8. Origin'
  BY <1>6 DEF Origin, Spawns
<1>9. Flag'
  BY <1>1, <1>5, <1>6, <1>7 DEF Flag
<1>10. CASE u \in result
  <2>1. over' = [over EXCEPT ![t1] = @ \cup {w}] /\ result' = result \ {u} /\ joinWaker' = joinWaker
    BY <1>10 DEF PollJoin, Ready, t0
  <2>2. /\ over' \in [Tasks -> SUBSET Awaitable] /\ over'[t1] = over[t1] \cup {w}
        /\ \A t \in Tasks : t /= t1 => over'[t] = over[t]
    BY <1>1, <2>1 DEF Typed
  <2>3. Typed' /\ Known'
    BY <1>1, <1>5, <1>6, <2>1, <2>2 DEF Typed, Known
  <2>4. Handles'
    <3>1. \A t \in Tasks : over[t] \subseteq over'[t]
      BY <2>2
    <3>2. ASSUME NEW v \in finished \ result'
          PROVE  \E t \in Tasks : \E j \in DOMAIN script[t] :
                   Joins(script, t, j, v) /\ (j < at[t] \/ (j = at[t] /\ <<"join", v>> \in over'[t]))
      <4>1. CASE v = u
        BY <1>1, <1>2, <2>2, <4>1
      <4>2. CASE v \in finished \ result
        BY <3>1, <4>2 DEF Handles
      <4> QED
        BY <2>1, <4>1, <4>2
    <3> QED
      BY <1>6, <2>1, <3>2 DEF Handles, Joins
  <2>5. Poll'
    BY <1>1, <1>5, <1>6, <2>2 DEF Poll, Step, t0
  <2>6. MidPoll'
    <3>1. S \ (over'[t1] \cup exec'.left) = S \ (over[t1] \cup exec.left)
      BY <1>1, <1>5, <2>2
    <3>2. \A x : Holds(x)' <=> Holds(x)
      BY <1>1, <1>5, <1>6, <2>1 DEF Holds
    <3> QED
      BY <1>1, <1>5, <1>6, <1>7, <3>1, <3>2 DEF MidPoll, Step, t0
  <2>7. Wakes'
    BY <1>1, <1>5, <1>6, <1>7, <2>1 DEF Wakes, Polled, Looked, Awaits
  <2> QED
    BY <1>8, <1>9, <2>3, <2>4, <2>5, <2>6, <2>7
<1>11. CASE u \notin result
  <2>1. joinWaker' = [joinWaker EXCEPT ![u] = t1] /\ UNCHANGED <<over, result>>
    BY <1>11 DEF PollJoin, Pending, t0
  <2>2. /\ joinWaker' \in [Tasks -> Tasks \cup {Nobody}] /\ joinWaker'[u] = t1
        /\ \A v \in Tasks : v /= u => joinWaker'[v] = joinWaker[v]
    BY <1>1, <2>1 DEF Typed
  <2>3. u \in spawned
    <3>1. PICK j \in DOMAIN script[t1] : j < i /\ Spawns(script, t1, j, u)
      BY <1>1, <1>2, OneJoin
    <3> QED
      BY <1>1, <3>1 DEF Origin
  <2>4. u \notin finished
    <3> SUFFICES ASSUME u \in finished PROVE FALSE
      OBVIOUS
    <3>1. PICK t \in Tasks : \E j \in DOMAIN script[t] :
            Joins(script, t, j, u) /\ (j < at[t] \/ (j = at[t] /\ w \in over[t]))
      BY <1>11 DEF Handles
    <3>2. at[t1] < at[t1] \/ w \in over[t1]
      BY <1>3, <3>1
    <3> QED
      BY <1>1, <3>2 DEF Typed
  <2>5. \A t \in Tasks : joinWaker[u] = t => t = t1
    BY <1>3, Threads DEF Handles
  <2>6. Typed' /\ Known'
    BY <1>1, <1>5, <1>6, <2>1, <2>2 DEF Typed, Known
  <2>7. Handles'
    BY <1>1, <1>2, <1>6, <2>1, <2>2 DEF Handles, Joins
  <2>8. Poll'
    BY <1>1, <1>5, <1>6, <2>1 DEF Poll, Step, t0
  <2>9. MidPoll'
    <3>1. \A x : Holds(x) => Holds(x)'
      BY <1>1, <1>5, <1>6, <2>2 DEF Holds, Typed
    <3>2. Holds(w)'
      BY <1>5, <1>6, <2>2, <2>3, <2>4 DEF Holds
    <3>3. S \ (over[t1] \cup exec'.left) \subseteq (S \ (over[t1] \cup exec.left)) \cup {w}
      BY <1>5
    <3> QED
      BY <1>1, <1>5, <1>6, <1>7, <2>1, <3>1, <3>2, <3>3 DEF MidPoll, Step, t0
  <2>10. Wakes'
    <3>1. ASSUME NEW t \in spawned, t /= t1, Awaits(t)
          PROVE  Awaits(t)'
      BY <1>6, <2>2, <2>5, <3>1 DEF Awaits, Typed
    <3> QED
      BY <1>1, <1>5, <1>6, <1>7, <3>1 DEF Wakes, Polled, Looked
  <2> QED
    BY <1>8, <1>9, <2>6, <2>7, <2>8, <2>9, <2>10
<1> QED
  BY <1>10, <1>11

LEMMA PollSleepKeeps ==
  ASSUME ExecInv, NEW n \in 1 .. 2, PollSleep(n)
  PROVE  ExecInv'
<1> DEFINE t1 == exec.task
           i  == at[t1]
           S  == script[t1][i][2]
           w  == <<"sleep", n>>
           s  == <<t1, n>>
<1> USE DEF ExecInv
<1>1. /\ exec.pc = "all" /\ t1 \in Tasks /\ t1 \in spawned /\ t1 \notin finished
      /\ i \in DOMAIN script[t1] /\ script[t1][i][1] = "all"
      /\ w \in exec.left /\ exec.left \subseteq S \ over[t1] /\ over[t1] \subseteq S
      /\ exec.left \in SUBSET Awaitable
  BY Threads DEF PollSleep, Looking, Poll, Step, t0, Typed, Known
<1>2. UNCHANGED <<script, runq, queued, spawned, finished, at, result, heap, joinWaker, clock>>
  BY DEF PollSleep
<1>3. /\ exec' \in Position(ExecutorPcs) /\ exec'.task = t1 /\ exec'.left = exec.left \ {w}
      /\ exec'.pc \in {"all", "register"}
      /\ IF s \in fired \/ s \in heap THEN exec'.pc = "all" ELSE exec'.pc = "register" /\ exec'.on = s
  <2>1. CASE s \in fired
    <3>1. exec' = [exec EXCEPT !.left = @ \ {w}]
      BY <2>1 DEF PollSleep, Ready, t0
    <3> QED
      BY <1>1, <2>1, <3>1 DEF Typed, Position
  <2>2. CASE s \notin fired
    <3>1. exec' = [exec EXCEPT !.left = @ \ {w}, !.on = s, !.pc = IF s \in heap THEN "all" ELSE "register"]
      BY <2>2 DEF PollSleep, t0
    <3>2. s \in (Tasks \cup {Nobody}) \X (0 .. 2)
      BY <1>1
    <3> QED
      BY <1>1, <2>2, <3>1, <3>2 DEF Typed, Position, ExecutorPcs
  <2> QED
    BY <2>1, <2>2
<1>4. \A t : (Sending(t)' <=> Sending(t)) /\ (Waking(t)' <=> Waking(t))
  BY <1>1, <1>2, <1>3 DEF Sending, Waking
<1>5. Origin' /\ Known'
  BY <1>1, <1>2, <1>3 DEF Origin, Spawns, Known
<1>6. Flag'
  BY <1>1, <1>2, <1>3, <1>4 DEF Flag
<1>7. CASE s \in fired
  <2>1. over' = [over EXCEPT ![t1] = @ \cup {w}] /\ sleepWaker' = sleepWaker /\ exec'.pc = "all"
    BY <1>3, <1>7 DEF PollSleep, Ready, t0
  <2>2. /\ over' \in [Tasks -> SUBSET Awaitable] /\ over'[t1] = over[t1] \cup {w}
        /\ \A t \in Tasks : t /= t1 => over'[t] = over[t]
    BY <1>1, <2>1 DEF Typed
  <2>3. Typed'
    BY <1>2, <1>3, <2>2 DEF Typed
  <2>4. Handles'
    <3>1. \A t \in Tasks : over[t] \subseteq over'[t]
      BY <2>2
    <3> QED
      BY <1>2, <3>1 DEF Handles, Joins
  <2>5. Poll'
    BY <1>1, <1>2, <1>3, <2>1, <2>2 DEF Poll, Step, t0
  <2>6. MidPoll'
    <3>1. S \ (over'[t1] \cup exec'.left) = S \ (over[t1] \cup exec.left)
      BY <1>1, <1>3, <2>2
    <3>2. \A x : Holds(x)' <=> Holds(x)
      BY <1>1, <1>2, <1>3, <2>1 DEF Holds
    <3> QED
      BY <1>1, <1>2, <1>3, <1>4, <3>1, <3>2 DEF MidPoll, Step, t0
  <2>7. Wakes'
    BY <1>1, <1>2, <1>3, <1>4, <2>1 DEF Wakes, Polled, Looked, Awaits
  <2> QED
    BY <1>5, <1>6, <2>3, <2>4, <2>5, <2>6, <2>7
<1>8. CASE s \notin fired
  <2>1. sleepWaker' = sleepWaker \cup {s} /\ over' = over
    BY <1>8 DEF PollSleep, t0
  <2>2. Typed' /\ Handles'
    BY <1>2, <1>3, <2>1 DEF Typed, Handles, Joins
  <2>3. Poll'
    BY <1>1, <1>2, <1>3, <1>8, <2>1 DEF Poll, Step, t0
  <2>4. MidPoll'
    <3>1. \A x : Holds(x) => Holds(x)'
      BY <1>1, <1>2, <1>3, <2>1 DEF Holds
    <3>2. Holds(w)'
      BY <1>2, <1>3, <1>8, <2>1 DEF Holds
    <3>3. S \ (over[t1] \cup exec'.left) \subseteq (S \ (over[t1] \cup exec.left)) \cup {w}
      BY <1>3
    <3> QED
      BY <1>1, <1>2, <1>3, <1>4, <2>1, <3>1, <3>2, <3>3 DEF MidPoll, Step, t0
  <2>5. Wakes'
    <3>1. \A t : Awaits(t) => Awaits(t)'
      BY <1>2, <2>1 DEF Awaits
    <3> QED
      BY <1>1, <1>2, <1>3, <1>4, <3>1 DEF Wakes, Polled, Looked
  <2> QED
    BY <1>5, <1>6, <2>2, <2>3, <2>4, <2>5
<1> QED
  BY <1>7, <1>8

LEMMA RegisterKeeps ==
  ASSUME ExecInv, Register
  PROVE  ExecInv'
<1> DEFINE t1 == exec.task
<1> USE DEF ExecInv
<1>1. /\ exec.pc = "register" /\ t1 \in Tasks /\ t1 \in spawned /\ heap' = heap \cup {exec.on}
  BY Threads DEF Register, Known
<1>2. PICK n \in 1 .. 2 : exec.on = <<t1, n>> /\ exec.on \in sleepWaker
  BY <1>1 DEF Poll
<1>3. /\ exec'.pc = "all" /\ exec'.task = t1 /\ exec'.left = exec.left /\ exec' \in Position(ExecutorPcs)
  BY DEF Register, Typed, Position, ExecutorPcs
<1>4. /\ UNCHANGED <<script, runq, queued, spawned, finished, at, over, result, sleepWaker, joinWaker, clock>>
      /\ \A t : (Sending(t)' <=> Sending(t)) /\ (Waking(t)' <=> Waking(t))
  BY <1>1, <1>3 DEF Register, future, Sending, Waking
<1>5. Typed' /\ Origin' /\ Known' /\ Handles'
  <2>1. heap' \subseteq Tasks \X (1 .. 2) /\ \A s \in heap' : s[1] \in spawned
    BY <1>1, <1>2 DEF Typed, Known
  <2>2. Typed'
    BY <1>3, <1>4, <2>1 DEF Typed
  <2>3. Origin' /\ Handles'
    BY <1>4 DEF Origin, Spawns, Handles, Joins
  <2>4. Known'
    BY <1>1, <1>3, <1>4, <2>1 DEF Known
  <2> QED
    BY <2>2, <2>3, <2>4
<1>6. Flag'
  BY <1>1, <1>3, <1>4 DEF Flag
<1>7. Poll'
  BY <1>1, <1>3, <1>4 DEF Poll, Step, t0
<1>8. MidPoll'
  <2>1. \A w : Holds(w) => Holds(w)'
    BY <1>1, <1>2, <1>3, <1>4 DEF Holds
  <2> QED
    BY <1>1, <1>3, <1>4, <2>1 DEF MidPoll, Step, t0
<1>9. Wakes'
  BY <1>1, <1>3, <1>4 DEF Wakes, Polled, Looked, Awaits
<1> QED
  BY <1>5, <1>6, <1>7, <1>8, <1>9

LEMMA CompleteKeeps ==
  ASSUME ExecInv, Complete
  PROVE  ExecInv'
<1> DEFINE t1 == exec.task
           j  == joinWaker[t1]
<1> USE DEF ExecInv
<1>1. /\ exec.pc = "poll" /\ t1 \in Tasks /\ j \in Tasks \cup {Nobody} /\ (j /= Nobody => j \in spawned)
      /\ finished' = finished \cup {t1} /\ result' = result \cup {t1}
      /\ joinWaker' = [joinWaker EXCEPT ![t1] = Nobody]
  BY Threads DEF Complete, t0, Typed, Known
<1>2. /\ exec' \in Position(ExecutorPcs)
      /\ IF j = Nobody THEN exec'.pc = "idle" ELSE exec'.pc = "swap" /\ exec'.task = j
  <2>1. exec' = IF j = Nobody THEN Idle ELSE Thread("swap", j, NoSleep)
    BY DEF Complete, t0
  <2>2. "swap" \in ExecutorPcs
    BY DEF ExecutorPcs
  <2> QED
    BY <1>1, <2>1, <2>2, IdleAt, ExecutorAt, NoSleepOn
<1>3. /\ joinWaker' \in [Tasks -> Tasks \cup {Nobody}] /\ joinWaker'[t1] = Nobody
      /\ \A u \in Tasks : u /= t1 => joinWaker'[u] = joinWaker[u]
  BY <1>1 DEF Typed
<1>4. /\ UNCHANGED <<script, runq, queued, spawned, at, over, heap, sleepWaker, clock>>
      /\ \A t : (Sending(t)' <=> Sending(t)) /\ (Waking(t) => Waking(t)')
  BY <1>1, <1>2 DEF Complete, Sending, Waking
<1>5. Typed' /\ Origin' /\ Known'
  BY <1>1, <1>2, <1>3, <1>4 DEF Typed, Origin, Spawns, Known
<1>6. Flag'
  BY <1>1, <1>2, <1>4 DEF Flag
<1>7. Handles'
  <2>1. finished' \ result' \subseteq finished \ result
    BY <1>1
  <2> QED
    BY <1>3, <1>4, <2>1 DEF Handles, Joins
<1>8. Poll' /\ MidPoll'
  BY <1>2, <1>4 DEF Poll, MidPoll
<1>9. Wakes'
  <2> SUFFICES ASSUME NEW t \in spawned \ finished, t /= t1
               PROVE  (t \in ToSet(runq) \/ Polled(t) \/ Looked(t) \/ Waking(t) \/ Awaits(t))'
    BY <1>1, <1>4 DEF Wakes
  <2>1. t \in ToSet(runq) \/ Waking(t) \/ Awaits(t)
    BY DEF Wakes, Polled, Looked
  <2>2. Awaits(t) => Awaits(t)' \/ Waking(t)'
    <3>1. t \in Tasks /\ t /= Nobody
      BY Threads DEF Typed
    <3>2. j = t => Waking(t)'
      BY <1>2, <3>1 DEF Waking
    <3>3. Awaits(t) /\ j /= t => Awaits(t)'
      BY <1>1, <1>3, <1>4 DEF Awaits, Typed
    <3> QED
      BY <3>2, <3>3
  <2> QED
    BY <1>4, <2>1, <2>2
<1> QED
  BY <1>5, <1>6, <1>7, <1>8, <1>9

LEMMA WakeJoinerKeeps ==
  ASSUME ExecInv, WakeJoiner
  PROVE  ExecInv'
<1> USE DEF ExecInv
<1>0. PICK t1 \in Tasks : t1 = exec.task
  BY Threads DEF WakeJoiner
<1>1. /\ t1 = exec.task /\ t1 \in Tasks /\ t1 \in spawned /\ exec.pc \in {"swap", "send"}
      /\ UNCHANGED <<script, spawned, finished, at, over, result, heap, sleepWaker, joinWaker, clock>>
  BY <1>0 DEF WakeJoiner, Known, future, waits
<1>2. Origin' /\ Handles'
  BY <1>1 DEF Origin, Spawns, Handles, Joins
<1>3. CASE exec.pc = "swap"
  <2>1. /\ queued' = [queued EXCEPT ![t1] = TRUE] /\ runq' = runq
        /\ exec' = IF queued[t1] THEN Idle ELSE [exec EXCEPT !.pc = "send"]
    BY <1>1, <1>3 DEF WakeJoiner, Swapped, AfterSwap, t0
  <2>2. /\ queued' \in [Tasks -> BOOLEAN] /\ queued'[t1]
        /\ \A t \in Tasks : t /= t1 => queued'[t] = queued[t]
    BY <1>1, <2>1 DEF Typed
  <2>3. /\ exec' \in Position(ExecutorPcs)
        /\ IF queued[t1] THEN exec'.pc = "idle" ELSE exec'.pc = "send" /\ exec'.task = t1
    BY <1>1, <2>1, IdleAt DEF Typed, Position, ExecutorPcs
  <2>4. Typed' /\ Known'
    BY <1>1, <2>1, <2>2, <2>3 DEF Typed, Known
  <2>5. Flag'
    <3>1. CASE queued[t1]
      <4>1. \A t : Sending(t)' <=> Sending(t)
        BY <1>1, <1>3, <2>3, <3>1 DEF Sending
      <4> QED
        BY <1>1, <1>3, <2>1, <2>2, <2>3, <3>1, <4>1 DEF Flag
    <3>2. CASE ~queued[t1]
      <4>1. \A t : Sending(t)' <=> Sending(t) \/ t = t1
        BY <1>1, <1>3, <2>3, <3>2 DEF Sending
      <4>2. t1 \notin ToSet(runq) /\ ~Sending(t1)
        BY <1>1, <3>2 DEF Flag
      <4>3. clock.pc = "send" => clock.task /= t1
        BY <1>1, <4>2 DEF Sending
      <4> QED
        BY <1>1, <1>3, <2>1, <2>2, <2>3, <3>2, <4>1, <4>2, <4>3 DEF Flag
    <3> QED
      BY <3>1, <3>2
  <2>6. Poll' /\ MidPoll'
    BY <1>1, <2>3 DEF Poll, MidPoll
  <2>7. Wakes'
    <3>1. \A t : Waking(t) => Waking(t)' \/ (t = t1 /\ queued[t1])
      BY <1>1, <1>3, <2>3 DEF Waking
    <3>2. queued[t1] => t1 \in ToSet(runq) \/ Waking(t1)'
      <4>1. queued[t1] => t1 \in ToSet(runq) \/ Sending(t1)
        BY <1>1, <1>3 DEF Flag
      <4>2. Sending(t1) => clock.pc = "send" /\ clock.task = t1
        BY <1>1, <1>3 DEF Sending
      <4>3. clock.pc = "send" /\ clock.task = t1 => Waking(t1)'
        BY <1>1 DEF Waking
      <4> QED
        BY <4>1, <4>2, <4>3
    <3> SUFFICES ASSUME NEW t \in spawned \ finished
                 PROVE  (t \in ToSet(runq) \/ Polled(t) \/ Looked(t) \/ Waking(t) \/ Awaits(t))'
      BY <1>1 DEF Wakes
    <3>3. t \in ToSet(runq) \/ Waking(t) \/ Awaits(t)
      BY <1>3 DEF Wakes, Polled, Looked
    <3>4. Awaits(t) => Awaits(t)'
      BY <1>1 DEF Awaits
    <3> QED
      BY <2>1, <3>1, <3>2, <3>3, <3>4
  <2> QED
    BY <1>2, <2>4, <2>5, <2>6, <2>7
<1>4. CASE exec.pc = "send"
  <2>1. runq' = Append(runq, t1) /\ queued' = queued /\ exec' = Idle
    BY <1>1, <1>4 DEF WakeJoiner, Sent, t0
  <2>2. Sending(t1) /\ queued[t1] /\ t1 \notin ToSet(runq) /\ (clock.pc = "send" => clock.task /= t1)
    BY <1>1, <1>4 DEF Flag, Sending
  <2>3. /\ runq' \in Seq(Tasks) /\ Once(runq') /\ ToSet(runq') = ToSet(runq) \cup {t1}
        /\ exec'.pc = "idle" /\ exec' \in Position(ExecutorPcs)
    <3>1. runq \in Seq(Tasks) /\ Once(runq)
      BY DEF Typed, Flag, Once
    <3> QED
      BY <1>1, <2>1, <2>2, <3>1, Sends, IdleAt
  <2>4. \A t : /\ Sending(t)' <=> Sending(t) /\ t /= t1
               /\ Waking(t) => Waking(t)' \/ t = t1
    BY <1>1, <1>4, <2>2, <2>3 DEF Sending, Waking
  <2>5. Typed' /\ Known'
    BY <1>1, <2>1, <2>3 DEF Typed, Known
  <2>6. Flag'
    BY <1>1, <1>4, <2>1, <2>2, <2>3, <2>4 DEF Flag, Once
  <2>7. Poll' /\ MidPoll'
    BY <1>1, <2>3 DEF Poll, MidPoll
  <2>8. Wakes'
    BY <1>1, <1>4, <2>3, <2>4 DEF Wakes, Polled, Looked, Awaits
  <2> QED
    BY <1>2, <2>5, <2>6, <2>7, <2>8
<1> QED
  BY <1>1, <1>3, <1>4

(***************************************************************************)
(* The timer's thread.                                                     *)
(***************************************************************************)
LEMMA FireKeeps ==
  ASSUME ExecInv, Fire
  PROVE  ExecInv'
<1> USE DEF ExecInv
<1>1. PICK s \in heap : /\ heap' = heap \ {s}
                        /\ sleepWaker' = sleepWaker \ {s}
                        /\ clock' = IF s \in sleepWaker THEN Thread("swap", s[1], s) ELSE Idle
  BY DEF Fire
<1>2. /\ clock = Idle
      /\ UNCHANGED <<script, runq, queued, spawned, finished, at, over, result, joinWaker, exec>>
  BY DEF Fire, future
<1>3. s[1] \in Tasks /\ s[1] \in spawned /\ s \in (Tasks \cup {Nobody}) \X (0 .. 2)
  BY DEF Typed, Known
<1>4. /\ clock' \in Position(TimerPcs)
      /\ IF s \in sleepWaker THEN clock'.pc = "swap" /\ clock'.task = s[1] ELSE clock'.pc = "idle"
  <2>1. "swap" \in TimerPcs
    BY DEF TimerPcs
  <2> QED
    BY <1>1, <1>3, <2>1, IdleAt, TimerAt
<1>5. \A t : (Sending(t)' <=> Sending(t)) /\ (Waking(t) => Waking(t)')
  BY <1>2, <1>4, IdleAt DEF Sending, Waking
<1>6. s \in sleepWaker => Waking(s[1])'
  BY <1>4 DEF Waking
<1>7. Typed' /\ Origin' /\ Known' /\ Handles'
  <2>1. Typed' /\ Known'
    BY <1>1, <1>2, <1>3, <1>4 DEF Typed, Known
  <2>2. Origin' /\ Handles'
    BY <1>2 DEF Origin, Spawns, Handles, Joins
  <2> QED
    BY <2>1, <2>2
<1>8. Flag'
  BY <1>2, <1>4, <1>5 DEF Flag
<1>9. Poll'
  BY <1>1, <1>2 DEF Poll, Step, t0
<1>10. MidPoll'
  <2>1. ASSUME NEW w, Holds(w)
        PROVE  Holds(w)' \/ Waking(exec.task)'
    <3>1. CASE \E n \in 1 .. 2 : w = <<"sleep", n>> /\ <<exec.task, n>> = s
      BY <1>1, <1>2, <1>6, <2>1, <3>1 DEF Holds, Poll
    <3>2. CASE \A n \in 1 .. 2 : w = <<"sleep", n>> => <<exec.task, n>> /= s
      BY <1>1, <1>2, <2>1, <3>2 DEF Holds
    <3> QED
      BY <3>1, <3>2
  <2> QED
    BY <1>2, <1>5, <2>1 DEF MidPoll, Step, t0
<1>11. Wakes'
  <2>1. ASSUME NEW t, Awaits(t)
        PROVE  Awaits(t)' \/ Waking(t)'
    <3>1. CASE \E n \in 1 .. 2 : <<t, n>> = s
      BY <1>1, <1>2, <1>6, <2>1, <3>1 DEF Awaits
    <3>2. CASE \A n \in 1 .. 2 : <<t, n>> /= s
      BY <1>1, <1>2, <2>1, <3>2 DEF Awaits
    <3> QED
      BY <3>1, <3>2
  <2> QED
    BY <1>2, <1>5, <2>1 DEF Wakes, Polled, Looked
<1> QED
  BY <1>7, <1>8, <1>9, <1>10, <1>11

LEMMA WakeSleeperKeeps ==
  ASSUME ExecInv, WakeSleeper
  PROVE  ExecInv'
<1> USE DEF ExecInv
<1>0. PICK t1 \in Tasks : t1 = clock.task
  BY Threads DEF WakeSleeper
<1>1. /\ t1 = clock.task /\ t1 \in Tasks /\ t1 \in spawned /\ clock.pc \in {"swap", "send"}
      /\ UNCHANGED <<script, spawned, finished, at, over, result, heap, sleepWaker, joinWaker, exec>>
  BY <1>0 DEF WakeSleeper, Known, future, waits
<1>2. Origin' /\ Handles' /\ Poll'
  BY <1>1 DEF Origin, Spawns, Handles, Joins, Poll, Step, t0
<1>3. \A w : Holds(w)' <=> Holds(w)
  BY <1>1 DEF Holds
<1>4. CASE clock.pc = "swap"
  <2>1. /\ queued' = [queued EXCEPT ![t1] = TRUE] /\ runq' = runq
        /\ clock' = IF queued[t1] THEN Idle ELSE [clock EXCEPT !.pc = "send"]
    BY <1>1, <1>4 DEF WakeSleeper, Swapped, AfterSwap
  <2>2. /\ queued' \in [Tasks -> BOOLEAN] /\ queued'[t1]
        /\ \A t \in Tasks : t /= t1 => queued'[t] = queued[t]
    BY <1>1, <2>1 DEF Typed
  <2>3. /\ clock' \in Position(TimerPcs)
        /\ IF queued[t1] THEN clock'.pc = "idle" ELSE clock'.pc = "send" /\ clock'.task = t1
    BY <1>1, <2>1, IdleAt DEF Typed, Position, TimerPcs
  <2>4. Typed' /\ Known'
    BY <1>1, <2>1, <2>2, <2>3 DEF Typed, Known
  <2>5. Flag'
    <3>1. CASE queued[t1]
      <4>1. \A t : Sending(t)' <=> Sending(t)
        BY <1>1, <1>4, <2>3, <3>1 DEF Sending
      <4> QED
        BY <1>1, <1>4, <2>1, <2>2, <2>3, <3>1, <4>1 DEF Flag
    <3>2. CASE ~queued[t1]
      <4>1. \A t : Sending(t)' <=> Sending(t) \/ t = t1
        BY <1>1, <1>4, <2>3, <3>2 DEF Sending
      <4>2. t1 \notin ToSet(runq) /\ ~Sending(t1) /\ ~(exec.pc = "clear" /\ exec.task = t1)
        BY <1>1, <3>2 DEF Flag
      <4>3. exec.pc = "send" => exec.task /= t1
        BY <1>1, <4>2 DEF Sending
      <4> QED
        BY <1>1, <1>4, <2>1, <2>2, <2>3, <3>2, <4>1, <4>2, <4>3 DEF Flag
    <3> QED
      BY <3>1, <3>2
  <2>6. /\ \A t : Waking(t) => Waking(t)' \/ (t = t1 /\ queued[t1])
        /\ queued[t1] => t1 \in ToSet(runq) \/ Waking(t1)' \/ (exec.pc = "clear" /\ exec.task = t1)
    <3>1. \A t : Waking(t) => Waking(t)' \/ (t = t1 /\ queued[t1])
      BY <1>1, <1>4, <2>3 DEF Waking
    <3>2. Sending(t1) => exec.pc = "send" /\ exec.task = t1
      BY <1>1, <1>4 DEF Sending
    <3>3. exec.pc = "send" /\ exec.task = t1 => Waking(t1)'
      BY <1>1 DEF Waking
    <3> QED
      BY <1>1, <3>1, <3>2, <3>3 DEF Flag
  <2>7. MidPoll'
    <3> SUFFICES ASSUME exec.pc \in {"all", "register"},
                        NEW w \in Step[2] \ (over[exec.task] \cup exec.left)
                 PROVE  Holds(w) \/ exec.task \in ToSet(runq) \/ Waking(exec.task)'
      BY <1>1, <1>3, <2>1 DEF MidPoll, Step, t0
    <3>1. Holds(w) \/ exec.task \in ToSet(runq) \/ Waking(exec.task)
      BY DEF MidPoll
    <3>2. PICK t \in Tasks : t = exec.task
      BY Threads
    <3>3. Waking(t) => Waking(t)' \/ t \in ToSet(runq)
      BY <2>6, <3>2
    <3>4. Waking(t)' => Waking(exec.task)'
      BY <1>1, <3>2 DEF Waking
    <3> QED
      BY <3>1, <3>2, <3>3, <3>4
  <2>8. Wakes'
    <3> SUFFICES ASSUME NEW t \in spawned \ finished
                 PROVE  (t \in ToSet(runq) \/ Polled(t) \/ Looked(t) \/ Waking(t) \/ Awaits(t))'
      BY <1>1 DEF Wakes
    <3>1. t \in ToSet(runq) \/ Polled(t) \/ Looked(t) \/ Waking(t) \/ Awaits(t)
      BY DEF Wakes
    <3>2. Awaits(t) => Awaits(t)'
      BY <1>1 DEF Awaits
    <3> QED
      BY <1>1, <2>1, <2>6, <3>1, <3>2 DEF Polled, Looked
  <2> QED
    BY <1>2, <2>4, <2>5, <2>7, <2>8
<1>5. CASE clock.pc = "send"
  <2>1. runq' = Append(runq, t1) /\ queued' = queued /\ clock' = Idle
    BY <1>1, <1>5 DEF WakeSleeper, Sent
  <2>2. /\ Sending(t1) /\ queued[t1] /\ t1 \notin ToSet(runq)
        /\ exec.pc = "send" => exec.task /= t1
        /\ exec.pc = "clear" => exec.task /= t1
    BY <1>1, <1>5 DEF Flag, Sending
  <2>3. /\ runq' \in Seq(Tasks) /\ Once(runq') /\ ToSet(runq') = ToSet(runq) \cup {t1}
        /\ clock'.pc = "idle" /\ clock' \in Position(TimerPcs)
    <3>1. runq \in Seq(Tasks) /\ Once(runq)
      BY DEF Typed, Flag, Once
    <3> QED
      BY <1>1, <2>1, <2>2, <3>1, Sends, IdleAt
  <2>4. \A t : /\ Sending(t)' <=> Sending(t) /\ t /= t1
               /\ Waking(t) => Waking(t)' \/ t = t1
    BY <1>1, <1>5, <2>2, <2>3 DEF Sending, Waking
  <2>5. Typed' /\ Known'
    BY <1>1, <2>1, <2>3 DEF Typed, Known
  <2>6. Flag'
    BY <1>1, <1>5, <2>1, <2>2, <2>3, <2>4 DEF Flag, Once
  <2>7. MidPoll'
    BY <1>1, <1>3, <2>3, <2>4 DEF MidPoll, Step, t0
  <2>8. Wakes'
    BY <1>1, <2>3, <2>4 DEF Wakes, Polled, Looked, Awaits
  <2> QED
    BY <1>2, <2>5, <2>6, <2>7, <2>8
<1> QED
  BY <1>1, <1>4, <1>5

(***************************************************************************)
(* The theorem.                                                            *)
(***************************************************************************)
LEMMA AtTheStart == ExecInit => ExecInv
<1> SUFFICES ASSUME ExecInit PROVE ExecInv
  OBVIOUS
<1>1. Root \in Tasks /\ Nobody \notin Tasks
  BY ScriptsAssumption
<1>2. /\ exec.pc = "idle" /\ clock.pc = "idle"
      /\ exec \in Position(ExecutorPcs) /\ clock \in Position(TimerPcs)
  BY IdleAt DEF ExecInit
<1>3. runq \in Seq(Tasks) /\ DOMAIN runq = {1} /\ ToSet(runq) = {Root}
  BY <1>1 DEF ExecInit, ToSet
<1>4. \A t : ~Sending(t)
  BY <1>2 DEF Sending
<1>5. Typed
  BY <1>1, <1>2, <1>3 DEF ExecInit, Typed
<1>6. Origin
  <2>1. \A t \in Tasks : at[t] = 1 /\ \A i \in DOMAIN script[t] : i \in Nat /\ i >= 1
    BY ScriptTypes DEF ExecInit
  <2> QED
    BY <2>1 DEF ExecInit, Origin
<1>7. Known /\ Handles /\ Poll /\ MidPoll
  BY <1>1, <1>2 DEF ExecInit, Known, Handles, Poll, MidPoll
<1>8. Flag
  BY <1>1, <1>2, <1>3, <1>4 DEF ExecInit, Flag
<1>9. Wakes
  BY <1>3 DEF ExecInit, Wakes
<1> QED
  BY <1>5, <1>6, <1>7, <1>8, <1>9 DEF ExecInv

LEMMA StepKeeps == ExecInv /\ [ExecNext]_execVars => ExecInv'
<1> SUFFICES ASSUME ExecInv, [ExecNext]_execVars PROVE ExecInv'
  OBVIOUS
<1>1. CASE ExecutorStep
  BY <1>1, RecvKeeps, LeaveKeeps, ClearKeeps, SpawnKeeps, BeginAllKeeps, EndAllKeeps, PollJoinKeeps,
     PollSleepKeeps, RegisterKeeps, CompleteKeeps, WakeJoinerKeeps DEF ExecutorStep
<1>2. CASE TimerStep
  BY <1>2, FireKeeps, WakeSleeperKeeps DEF TimerStep
<1>3. CASE UNCHANGED execVars
  <2> USE <1>3 DEF execVars, future, waits, ExecInv
  <2>1. \A t : (Sending(t)' <=> Sending(t)) /\ (Waking(t)' <=> Waking(t))
    BY DEF Sending, Waking
  <2>2. Typed' /\ Origin' /\ Known'
    BY DEF Typed, Origin, Spawns, Known
  <2>3. Flag' /\ Handles'
    BY <2>1 DEF Flag, Handles, Joins
  <2>4. Poll' /\ MidPoll'
    BY <2>1 DEF Poll, Step, t0, MidPoll, Holds
  <2>5. Wakes'
    BY <2>1 DEF Wakes, Polled, Looked, Awaits
  <2> QED
    BY <2>2, <2>3, <2>4, <2>5
<1> QED
  BY <1>1, <1>2, <1>3 DEF ExecNext

\* What holds in every state of the executor, for every set of scripts: the flags,
\* the queue, the handles and the wakers of the two threads agree.
THEOREM ExecutorInvariant == ExecSpec => []ExecInv
BY AtTheStart, StepKeeps, PTL DEF ExecSpec

\* An unfinished task is queued, being polled or woken, or some waker of it is still
\* to be called, whatever the timer's thread does between the accesses of a poll; and
\* a task is in the queue once, however often it is woken.
THEOREM NoWakeIsLost == ExecSpec => []NoWakeLost
<1>1. ExecInv => NoWakeLost
  BY DEF ExecInv, Flag, Wakes, NoWakeLost
<1> QED
  BY <1>1, ExecutorInvariant, PTL

AllFinished == exec.pc = "returned" => finished = spawned

LEMMA LeaveFinished ==
  ASSUME ExecInv, Leave
  PROVE  spawned \subseteq finished
<1> SUFFICES ASSUME NEW t \in spawned \ finished PROVE FALSE
  OBVIOUS
<1> USE DEF ExecInv
<1>1. exec.pc = "idle" /\ Alive = {Nobody} /\ t \in Tasks /\ t /= Nobody
  BY Threads DEF Leave, Typed
<1>2. t \in ToSet(runq) \/ Waking(t) \/ Awaits(t)
  BY <1>1 DEF Wakes, Polled, Looked
<1>3. t \notin ToSet(runq) /\ clock.task /= t
  BY <1>1 DEF Alive
<1>4. ~Waking(t)
  BY <1>1, <1>3 DEF Waking
<1>5. \A n \in 1 .. 2 : <<t, n>> \notin sleepWaker
  <2>1. \A n \in 1 .. 2 : <<t, n>> \in sleepWaker => t \in {p[1] : p \in sleepWaker}
    OBVIOUS
  <2> QED
    BY <1>1, <2>1 DEF Alive
<1>6. \A u \in Tasks : joinWaker[u] /= t
  BY <1>1 DEF Alive
<1>7. ~Awaits(t)
  BY <1>5, <1>6 DEF Awaits, Typed
<1> QED
  BY <1>2, <1>3, <1>4, <1>7

\* run() returns only when every task that was spawned has finished: while one has
\* not, something holds a sender.
THEOREM ReturnsWhenAllFinished == ExecSpec => []AllFinished
<1> DEFINE Over == finished \subseteq spawned /\ (exec.pc = "returned" => spawned \subseteq finished)
<1>1. ExecInit => Over
  BY IdleAt DEF ExecInit
<1>2. ExecInv /\ Over /\ [ExecNext]_execVars => Over'
  <2> SUFFICES ASSUME ExecInv, Over, [ExecNext]_execVars PROVE Over'
    OBVIOUS
  <2>1. CASE Leave
    BY <2>1, LeaveFinished DEF Leave, future
  <2>2. CASE Recv \/ Clear \/ BeginAll \/ EndAll \/ Register \/ WakeJoiner
    <3>1. UNCHANGED <<spawned, finished>> /\ exec.pc /= "returned"
      BY <2>2 DEF Recv, Clear, BeginAll, Polling, EndAll, Register, WakeJoiner, future
    <3>2. CASE Recv \/ Clear \/ EndAll
      <4>1. exec' = Idle \/ exec'.pc \in {"clear", "poll"}
        BY <3>2 DEF Recv, Clear, EndAll, Thread
      <4> QED
        BY <3>1, <4>1, IdleAt
    <3>3. CASE BeginAll \/ Register
      <4>1. exec'.pc = "all"
        BY <3>3 DEF BeginAll, Register, ExecInv, Typed, Position
      <4> QED
        BY <3>1, <4>1
    <3>4. CASE WakeJoiner
      <4>1. exec' = Idle \/ exec'.pc = "send"
        BY <3>4 DEF WakeJoiner, AfterSwap, ExecInv, Typed, Position
      <4> QED
        BY <3>1, <4>1, IdleAt
    <3> QED
      BY <2>2, <3>2, <3>3, <3>4
  <2>3. CASE Spawn
    <3>1. exec.pc = "poll" /\ exec' = exec /\ finished' = finished /\ spawned \subseteq spawned'
      BY <2>3 DEF Spawn, Polling
    <3> QED
      BY <3>1
  <2>4. ASSUME NEW u \in Tasks, PollJoin(u) PROVE Over'
    <3>1. UNCHANGED <<spawned, finished>> /\ exec'.pc = exec.pc /\ exec.pc = "all"
      BY <2>4 DEF PollJoin, Looking, Ready, Pending, ExecInv, Typed, Position
    <3> QED
      BY <3>1
  <2>5. ASSUME NEW n \in 1 .. 2, PollSleep(n) PROVE Over'
    <3>1. UNCHANGED <<spawned, finished>> /\ exec'.pc \in {"all", "register"}
      BY <2>5 DEF PollSleep, Looking, Ready, ExecInv, Typed, Position
    <3> QED
      BY <3>1
  <2>6. CASE Complete
    <3>1. /\ spawned' = spawned /\ finished' = finished \cup {exec.task} /\ exec.task \in spawned
          /\ exec'.pc \in {"idle", "swap"}
      BY <2>6, IdleAt DEF Complete, t0, Thread, ExecInv, Known
    <3> QED
      BY <3>1
  <2>7. CASE TimerStep
    BY <2>7 DEF TimerStep, Fire, WakeSleeper, future
  <2>8. CASE UNCHANGED execVars
    BY <2>8 DEF execVars, future
  <2> QED
    BY <2>1, <2>2, <2>3, <2>4, <2>5, <2>6, <2>7, <2>8 DEF ExecNext, ExecutorStep
<1>3. Over => AllFinished
  BY DEF AllFinished
<1> QED
  BY <1>1, <1>2, <1>3, ExecutorInvariant, PTL DEF ExecSpec
=============================================================================
