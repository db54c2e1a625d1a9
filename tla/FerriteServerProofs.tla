------------------------- MODULE FerriteServerProofs -------------------------
(***************************************************************************)
(* Proofs about the server of ferrite v2, for every finite set of          *)
(* connections and every connection limit.                                 *)
(***************************************************************************)
EXTENDS FerriteServer, FiniteSetTheorems, TLAPS

\* The tasks that hold a permit, those that active counts, and those that are
\* accepted but not yet in closed or panicked and still will be if nothing
\* aborts them.
Admitted == {c \in Conns : task[c] \in {"spawned", "entering", "stop?", "listening",
                                        "writing", "closing", "leaving", "unpermitting"}}
Counted == {c \in Conns : task[c] \in {"entering", "stop?", "listening", "writing",
                                       "closing", "leaving"}}
Owing == {c \in Conns :
            \/ task[c] \in {"spawned", "entering", "stop?", "listening", "writing",
                            "closing"}
            \/ c \in crashed /\ task[c] \in {"leaving", "unpermitting", "ended"}}

\* Permits and active agree with the tasks.
Balanced ==
  /\ free + Cardinality(Admitted) = MaxConnections
  /\ active = Cardinality(Counted)

\* A task that has panicked only unwinds.
Unwinding == \A c \in crashed : task[c] \in {"leaving", "unpermitting", "ended", "reaped"}

Owed == accepted - closed - panicked

\* Nothing is lost before the deadline, and then no more than was aborted.
Accounted ==
  /\ Cardinality(Owing) <= Owed
  /\ loop \notin {"aborting", "done"} => Owed = Cardinality(Owing)
  /\ loop \in {"aborting", "done"} => Owed <= report.aborted
  /\ loop = "aborting" => ~report.drained
  /\ loop = "done" => Members = {} /\ (report.drained => report.aborted = 0)

\* What a task has been told in ActiveGuard::new is on its way to peak.
PeakOnItsWay ==
  /\ peak <= maxActive
  /\ \A c \in Conns : task[c] = "entering" => now[c] <= maxActive
  /\ peak < maxActive => \E c \in Conns : task[c] = "entering" /\ now[c] = maxActive

\* A task that took a request after the cancellation does not listen again.
LateOnce ==
  \A c \in Conns : late[c] # 0 => late[c] = 1 /\ stop /\ task[c] # "listening"

ServerInv == TypeOK /\ Balanced /\ Unwinding /\ Accounted

-----------------------------------------------------------------------------
\* Sets of connections are finite, and their sizes are numbers.
LEMMA FiniteConns ==
  ASSUME NEW S \in SUBSET Conns
  PROVE  IsFiniteSet(S) /\ Cardinality(S) \in Nat
BY ServerAssumption, FS_Subset, FS_CardinalityType

\* How many elements a set has after one connection went in, out or neither.
LEMMA OneMoves ==
  ASSUME NEW S \in SUBSET Conns, NEW T \in SUBSET Conns, NEW c \in Conns,
         S \ {c} = T \ {c}
  PROVE  Cardinality(T) = Cardinality(S) + (IF c \in T THEN 1 ELSE 0)
                                         - (IF c \in S THEN 1 ELSE 0)
<1>. DEFINE R == S \ {c}
<1>1. IsFiniteSet(R) /\ Cardinality(R) \in Nat
  BY FiniteConns
<1>2. ASSUME NEW U \in SUBSET Conns, U \ {c} = R
      PROVE  Cardinality(U) = Cardinality(R) + (IF c \in U THEN 1 ELSE 0)
  <2>1. CASE c \in U
    <3>1. U = R \union {c} /\ c \notin R
      BY <1>2, <2>1
    <3>2. Cardinality(U) = Cardinality(R) + 1
      BY <3>1, <1>1, FS_AddElement
    <3>. QED
      BY <3>2, <2>1
  <2>2. CASE c \notin U
    <3>1. U = R
      BY <1>2, <2>2
    <3>. QED
      BY <3>1, <2>2, <1>1
  <2>. QED
    BY <2>1, <2>2
<1>3. Cardinality(S) = Cardinality(R) + (IF c \in S THEN 1 ELSE 0)
  BY <1>2
<1>4. Cardinality(T) = Cardinality(R) + (IF c \in T THEN 1 ELSE 0)
  BY <1>2
<1>. QED
  BY <1>1, <1>3, <1>4

\* Smaller sets are no larger.
LEMMA SubsetSize ==
  ASSUME NEW S \in SUBSET Conns, NEW T \in SUBSET S
  PROVE  Cardinality(T) <= Cardinality(S)
BY FiniteConns, FS_Subset

\* The sets the invariant counts, and their sizes, in both states of a step.
LEMMA Sizes ==
  /\ Admitted \in SUBSET Conns /\ Counted \in SUBSET Conns /\ Owing \in SUBSET Conns
  /\ Cardinality(Admitted) \in Nat /\ Cardinality(Counted) \in Nat
  /\ Cardinality(Owing) \in Nat
<1>1. Admitted \in SUBSET Conns /\ Counted \in SUBSET Conns /\ Owing \in SUBSET Conns
  BY DEF Admitted, Counted, Owing
<1>. QED
  BY <1>1, FiniteConns
-----------------------------------------------------------------------------
\* The server's own steps that leave every task alone.
LoopAlone ==
  /\ task' = task /\ now' = now /\ crashed' = crashed /\ free' = free
  /\ UNCHANGED stats /\ late' = late

\* What a step of Server::run is, seen from the tasks.
LEMMA LoopCases ==
  ASSUME LoopStep
  PROVE  /\ UNCHANGED <<stop, now, crashed, late>>
         /\ \/ loop = "stop?" /\ stop /\ loop' = "draining" /\ report' = report
               /\ task' = [c \in Conns |-> IF task[c] = "backlog" THEN "reset" ELSE task[c]]
               /\ UNCHANGED <<free, stats>>
            \/ \E c \in Conns : Reap(c) /\ report' = report
                                /\ \/ loop = "join?" /\ loop' = "stop?"
                                   \/ loop = "draining" /\ loop' = "draining"
            \/ \E c \in Conns : Admit(c) /\ report' = report
                                /\ loop = "accept?" /\ loop' = "stop?"
            \/ LoopAlone /\ report' = report
               /\ loop \notin {"expired", "aborting", "done"}
               /\ loop' \in {"stop?", "join?", "accept?", "backoff", "expired"}
            \/ LoopAlone /\ DrainedAll
            \/ LoopAlone /\ AbortAll
            \/ AbortedAll
<1>1. CASE PollStop
  BY <1>1 DEF PollStop, LoopAlone, stats
<1>2. CASE PollJoin
  BY <1>2 DEF PollJoin, LoopAlone, stats, Reap
<1>3. CASE PollAccept
  BY <1>3 DEF PollAccept, LoopAlone, stats, Admit
<1>4. CASE BackoffOver
  BY <1>4 DEF BackoffOver, LoopAlone, stats
<1>5. CASE DrainOne
  BY <1>5 DEF DrainOne, Reap
<1>6. CASE DrainedAll
  BY <1>6 DEF DrainedAll, LoopAlone
<1>7. CASE Deadline
  BY <1>7 DEF Deadline, LoopAlone
<1>8. CASE AbortAll
  BY <1>8 DEF AbortAll, LoopAlone
<1>9. CASE AbortedAll
  BY <1>9 DEF AbortedAll
<1>. QED
  BY <1>1, <1>2, <1>3, <1>4, <1>5, <1>6, <1>7, <1>8, <1>9 DEF LoopStep

-----------------------------------------------------------------------------
\* A task that active counts makes active positive.
LEMMA ActivePositive ==
  ASSUME TypeOK, Balanced, NEW c \in Conns, c \in Counted
  PROVE  active - 1 \in Nat
<1>1. Cardinality({c}) = 1 /\ {c} \in SUBSET Counted
  BY FS_Singleton
<1>2. 1 <= Cardinality(Counted)
  BY <1>1, SubsetSize, Sizes
<1>. QED
  BY <1>2, Sizes DEF Balanced, TypeOK

\* The initial state is well typed.
LEMMA TypeInit ==
  ASSUME Init
  PROVE  TypeOK
BY ServerAssumption DEF Init, TypeOK, TaskStates, NoReport

\* All the variables keep their types.
LEMMA TypeStep ==
  ASSUME TypeOK, Balanced, [Next]_servervars
  PROVE  TypeOK'
<1>. USE ServerAssumption DEF TypeOK, TaskStates, Goto, stats
<1>1. CASE LoopStep
  <2>1. CASE loop = "stop?" /\ stop /\ loop' = "draining" /\ report' = report
             /\ task' = [c \in Conns |-> IF task[c] = "backlog" THEN "reset" ELSE task[c]]
             /\ UNCHANGED <<free, stats>>
    BY <1>1, <2>1, LoopCases
  <2>2. ASSUME NEW c \in Conns, Reap(c), report' = report, loop' \in {"stop?", "draining"}
        PROVE  TypeOK'
    BY <1>1, <2>2, LoopCases DEF Reap
  <2>3. ASSUME NEW c \in Conns, Admit(c), report' = report, loop' = "stop?"
        PROVE  TypeOK'
    BY <1>1, <2>3, LoopCases DEF Admit
  <2>4. CASE LoopAlone /\ report' = report
             /\ loop' \in {"stop?", "join?", "accept?", "backoff", "expired"}
    BY <1>1, <2>4, LoopCases DEF LoopAlone
  <2>5. CASE LoopAlone /\ DrainedAll
    BY <2>5 DEF LoopAlone, DrainedAll
  <2>6. CASE LoopAlone /\ AbortAll
    <3>1. Cardinality(Members) \in Nat
      BY FiniteConns DEF Members
    <3>. QED
      BY <2>6, <3>1 DEF LoopAlone, AbortAll
  <2>7. CASE AbortedAll
    BY <2>7 DEF AbortedAll
  <2>. QED
    BY <1>1, <2>1, <2>2, <2>3, <2>4, <2>5, <2>6, <2>7, LoopCases
<1>2. CASE Cancel \/ UNCHANGED servervars
  BY <1>2 DEF Cancel, servervars
<1>3. ASSUME NEW c \in Conns, Connect(c) PROVE TypeOK'
  BY <1>3 DEF Connect
<1>4. ASSUME NEW c \in Conns, Running(c) PROVE TypeOK'
  <2>1. CASE Enter(c)
    BY <2>1 DEF Enter, Larger
  <2>2. CASE EnterPeak(c)
    BY <2>2 DEF EnterPeak, Larger
  <2>3. CASE CheckStop(c)
    BY <2>3 DEF CheckStop
  <2>4. CASE DropActive(c)
    <3>1. c \in Counted
      BY <2>4 DEF DropActive, Counted
    <3>2. active - 1 \in Nat
      BY <3>1, ActivePositive
    <3>. QED
      BY <2>4, <3>2 DEF DropActive
  <2>5. CASE DropPermit(c)
    BY <2>5 DEF DropPermit
  <2>. QED
    BY <1>4, <2>1, <2>2, <2>3, <2>4, <2>5 DEF Running
<1>5. ASSUME NEW c \in Conns, Serving(c) PROVE TypeOK'
  <2>1. CASE TakeRequest(c)
    BY <2>1 DEF TakeRequest
  <2>2. CASE Written(c) \/ Leave(c)
    BY <2>2 DEF Written, Leave
  <2>3. CASE CountClosed(c)
    BY <2>3 DEF CountClosed
  <2>4. CASE Panic(c)
    BY <2>4 DEF Panic
  <2>5. CASE Refused(c)
    BY <2>5 DEF Refused
  <2>. QED
    BY <1>5, <2>1, <2>2, <2>3, <2>4, <2>5 DEF Serving
<1>6. ASSUME NEW c \in Conns, WokenByStop(c) \/ Aborted(c) PROVE TypeOK'
  BY <1>6 DEF WokenByStop, Aborted
<1>. HIDE DEF TypeOK
<1>. QED
  BY <1>1, <1>2, <1>3, <1>4, <1>5, <1>6 DEF Next

-----------------------------------------------------------------------------
One(p) == IF p THEN 1 ELSE 0

\* When only connection c moves, the sizes change by c alone.
LEMMA SizesMove ==
  ASSUME NEW c \in Conns,
         \A d \in Conns \ {c} : task'[d] = task[d] /\ (d \in crashed' <=> d \in crashed)
  PROVE  /\ Cardinality(Admitted') = Cardinality(Admitted) + One(c \in Admitted')
                                                           - One(c \in Admitted)
         /\ Cardinality(Counted') = Cardinality(Counted) + One(c \in Counted')
                                                         - One(c \in Counted)
         /\ Cardinality(Owing') = Cardinality(Owing) + One(c \in Owing') - One(c \in Owing)
<1>1. Admitted' \in SUBSET Conns /\ Counted' \in SUBSET Conns /\ Owing' \in SUBSET Conns
  BY DEF Admitted, Counted, Owing
<1>2. Admitted \ {c} = Admitted' \ {c}
  BY DEF Admitted
<1>3. Counted \ {c} = Counted' \ {c}
  BY DEF Counted
<1>4. Owing \ {c} = Owing' \ {c}
  BY DEF Owing
<1>5. Cardinality(Admitted') = Cardinality(Admitted) + One(c \in Admitted')
                                                     - One(c \in Admitted)
  BY <1>1, <1>2, Sizes, OneMoves DEF One
<1>6. Cardinality(Counted') = Cardinality(Counted) + One(c \in Counted')
                                                   - One(c \in Counted)
  BY <1>1, <1>3, Sizes, OneMoves DEF One
<1>7. Cardinality(Owing') = Cardinality(Owing) + One(c \in Owing') - One(c \in Owing)
  BY <1>1, <1>4, Sizes, OneMoves DEF One
<1>. QED
  BY <1>5, <1>6, <1>7

\* A step in which a task that neither holds a permit nor is counted ends up
\* likewise leaves the sets alone.
LEMMA SetsStay ==
  ASSUME \A d \in Conns : \/ task'[d] = task[d]
                          \/ /\ task[d] \in {"away", "backlog", "reset", "refusing", "ended",
                                             "reaped"}
                             /\ task'[d] \in {"away", "backlog", "reset", "refusing", "ended",
                                              "reaped"}
  PROVE  Admitted' = Admitted /\ Counted' = Counted
BY DEF Admitted, Counted

\* No task holds a permit or is counted at first.
LEMMA BalancedInit ==
  ASSUME Init
  PROVE  Balanced
<1>1. Admitted = {} /\ Counted = {}
  BY DEF Init, Admitted, Counted
<1>. QED
  BY <1>1, FS_EmptySet, ServerAssumption DEF Init, Balanced

\* Permits and active follow the tasks.
LEMMA BalancedStep ==
  ASSUME TypeOK, Balanced, [Next]_servervars
  PROVE  Balanced'
<1>. USE DEF Goto, stats
<1>1. ASSUME UNCHANGED <<free, active>>, Admitted' = Admitted, Counted' = Counted
      PROVE  Balanced'
  BY <1>1 DEF Balanced
<1>2. ASSUME NEW c \in Conns, NEW s, Goto(c, s), crashed' = crashed,
             free' = free + One(c \in Admitted) - One(c \in Admitted'),
             active' = active + One(c \in Counted') - One(c \in Counted)
      PROVE  Balanced'
  <2>1. \A d \in Conns \ {c} : task'[d] = task[d] /\ (d \in crashed' <=> d \in crashed)
    BY <1>2 DEF TypeOK
  <2>. QED
    BY <1>2, <2>1, SizesMove, Sizes, ServerAssumption DEF Balanced, One, TypeOK
<1>3. CASE LoopStep
  <2>1. CASE task' = [c \in Conns |-> IF task[c] = "backlog" THEN "reset" ELSE task[c]]
             /\ UNCHANGED <<free, stats>>
    BY <2>1, <1>1, SetsStay
  <2>2. ASSUME NEW c \in Conns, Reap(c) PROVE Balanced'
    BY <2>2, <1>1, SetsStay DEF Reap, Finished, TypeOK
  <2>3. ASSUME NEW c \in Conns, Admit(c) PROVE Balanced'
    <3>1. CASE free > 0
      <4>1. c \notin Admitted /\ c \in Admitted' /\ c \notin Counted /\ c \notin Counted'
        BY <2>3, <3>1 DEF Admit, Admitted, Counted, TypeOK
      <4>. QED
        BY <2>3, <3>1, <4>1, <1>2 DEF Admit, One, TypeOK
    <3>2. CASE ~(free > 0)
      BY <2>3, <3>2, <1>1, SetsStay DEF Admit, TypeOK
    <3>. QED
      BY <3>1, <3>2
  <2>4. CASE LoopAlone
    BY <2>4, <1>1, SetsStay DEF LoopAlone
  <2>5. CASE AbortedAll
    BY <2>5, <1>1, SetsStay DEF AbortedAll, Finished
  <2>. QED
    BY <1>3, <2>1, <2>2, <2>3, <2>4, <2>5, LoopCases
<1>4. CASE Cancel \/ UNCHANGED servervars
  BY <1>4, <1>1, SetsStay DEF Cancel, servervars
<1>5. ASSUME NEW c \in Conns, Connect(c) \/ Refused(c) PROVE Balanced'
  BY <1>5, <1>1, SetsStay DEF Connect, Refused, TypeOK
<1>6. ASSUME NEW c \in Conns, Enter(c) PROVE Balanced'
  <2>1. c \in Admitted /\ c \in Admitted' /\ c \notin Counted /\ c \in Counted'
    BY <1>6 DEF Enter, Admitted, Counted, TypeOK
  <2>2. /\ free' = free + One(c \in Admitted) - One(c \in Admitted')
        /\ active' = active + One(c \in Counted') - One(c \in Counted)
    BY <1>6, <2>1 DEF Enter, One, TypeOK
  <2>. QED
    BY <1>6, <2>2, <1>2 DEF Enter
<1>7. ASSUME NEW c \in Conns,
             EnterPeak(c) \/ CheckStop(c) \/ WokenByStop(c) \/ TakeRequest(c)
             \/ Written(c) \/ Leave(c) \/ CountClosed(c) \/ Panic(c)
      PROVE  Balanced'
  <2>1. Admitted' = Admitted /\ Counted' = Counted
    BY <1>7 DEF EnterPeak, CheckStop, WokenByStop, TakeRequest, Written, Leave,
                CountClosed, Panic, Admitted, Counted, TypeOK
  <2>. QED
    BY <1>7, <2>1, <1>1 DEF EnterPeak, CheckStop, WokenByStop, TakeRequest, Written, Leave,
                            CountClosed, Panic
<1>8. ASSUME NEW c \in Conns, DropActive(c) PROVE Balanced'
  <2>1. c \in Admitted /\ c \in Admitted' /\ c \in Counted /\ c \notin Counted'
    BY <1>8 DEF DropActive, Admitted, Counted, TypeOK
  <2>2. /\ free' = free + One(c \in Admitted) - One(c \in Admitted')
        /\ active' = active + One(c \in Counted') - One(c \in Counted)
    BY <1>8, <2>1 DEF DropActive, One, TypeOK
  <2>. QED
    BY <1>8, <2>2, <1>2 DEF DropActive
<1>9. ASSUME NEW c \in Conns, DropPermit(c) PROVE Balanced'
  <2>1. c \in Admitted /\ c \notin Admitted' /\ c \notin Counted /\ c \notin Counted'
    BY <1>9 DEF DropPermit, Admitted, Counted, TypeOK
  <2>2. /\ free' = free + One(c \in Admitted) - One(c \in Admitted')
        /\ active' = active + One(c \in Counted') - One(c \in Counted)
    BY <1>9, <2>1 DEF DropPermit, One, TypeOK
  <2>. QED
    BY <1>9, <2>2, <1>2 DEF DropPermit
<1>10. ASSUME NEW c \in Conns, Aborted(c) PROVE Balanced'
  <2>1. CASE task[c] = "refusing"
    BY <1>10, <2>1, <1>1, SetsStay DEF Aborted, TypeOK
  <2>2. CASE task[c] # "refusing"
    <3>1. Admitted' = Admitted /\ Counted' = Counted
      BY <1>10, <2>2 DEF Aborted, Admitted, Counted, TypeOK
    <3>. QED
      BY <1>10, <3>1, <1>1 DEF Aborted
  <2>. QED
    BY <2>1, <2>2
<1>. QED
  BY <1>3, <1>4, <1>5, <1>6, <1>7, <1>8, <1>9, <1>10 DEF Next, Running, Serving

-----------------------------------------------------------------------------
\* A task that has panicked goes only where unwinding takes it.
LEMMA UnwindingStep ==
  ASSUME TypeOK, Unwinding, [Next]_servervars
  PROVE  Unwinding'
<1>. USE DEF Goto, Unwinding, TypeOK
<1>1. CASE LoopStep
  <2>1. ASSUME NEW c \in Conns, Reap(c) PROVE Unwinding'
    BY <2>1 DEF Reap, Finished
  <2>2. ASSUME NEW c \in Conns, Admit(c) PROVE Unwinding'
    BY <2>2 DEF Admit
  <2>3. CASE LoopAlone
    BY <2>3 DEF LoopAlone
  <2>4. CASE AbortedAll
    BY <2>4 DEF AbortedAll, Finished
  <2>5. CASE task' = [c \in Conns |-> IF task[c] = "backlog" THEN "reset" ELSE task[c]]
    BY <1>1, <2>5, LoopCases
  <2>. QED
    BY <1>1, <2>1, <2>2, <2>3, <2>4, <2>5, LoopCases
<1>2. CASE Cancel \/ UNCHANGED servervars
  BY <1>2 DEF Cancel, servervars
<1>3. ASSUME NEW c \in Conns, Connect(c) PROVE Unwinding'
  BY <1>3 DEF Connect
<1>4. ASSUME NEW c \in Conns, Running(c) PROVE Unwinding'
  BY <1>4 DEF Running, Enter, EnterPeak, CheckStop, DropActive, DropPermit
<1>5. ASSUME NEW c \in Conns, Serving(c) PROVE Unwinding'
  BY <1>5 DEF Serving, TakeRequest, Written, Leave, CountClosed, Panic, Refused
<1>6. ASSUME NEW c \in Conns, WokenByStop(c) \/ Aborted(c) PROVE Unwinding'
  BY <1>6 DEF WokenByStop, Aborted
<1>. QED
  BY <1>1, <1>2, <1>3, <1>4, <1>5, <1>6 DEF Next

-----------------------------------------------------------------------------
\* Nothing is owed at first.
LEMMA AccountedInit ==
  ASSUME Init
  PROVE  Accounted
<1>1. Owing = {}
  BY DEF Init, Owing
<1>. QED
  BY <1>1, FS_EmptySet DEF Init, Accounted, Owed, Members, Joined

\* A step of a task takes it out of Owing exactly when it is counted, or when
\* it is aborted.
LEMMA TaskOwes ==
  ASSUME TypeOK, Unwinding, NEW c \in Conns,
         Running(c) \/ WokenByStop(c) \/ Serving(c) \/ Aborted(c)
  PROVE  /\ UNCHANGED <<loop, report>> /\ c \in Members
         /\ Owed' <= Owed /\ Owed \in Int /\ Owed' \in Int
         /\ \/ Owed' - Cardinality(Owing') = Owed - Cardinality(Owing)
            \/ loop = "aborting" /\ Owed' = Owed
               /\ Cardinality(Owing') <= Cardinality(Owing)
<1>. USE DEF Goto, stats
<1>1. ASSUME Owing' = Owing, UNCHANGED <<accepted, closed, panicked>>
      PROVE  /\ Owed' <= Owed /\ Owed \in Int /\ Owed' \in Int
             /\ Owed' - Cardinality(Owing') = Owed - Cardinality(Owing)
  BY <1>1, Sizes DEF Owed, TypeOK
<1>2. CASE Running(c) \/ WokenByStop(c)
  <2>1. /\ Owing' = Owing
        /\ UNCHANGED <<accepted, closed, panicked, loop, report>>
        /\ c \in Members
    BY <1>2 DEF Running, WokenByStop, Enter, EnterPeak, CheckStop, DropActive, DropPermit,
                Owing, Members, Joined, TypeOK, Unwinding
  <2>. QED
    BY <2>1, <1>1
<1>3. CASE TakeRequest(c) \/ Written(c) \/ Leave(c) \/ Panic(c) \/ Refused(c)
  <2>1. /\ Owing' = Owing
        /\ UNCHANGED <<accepted, closed, panicked, loop, report>>
        /\ c \in Members
    BY <1>3 DEF TakeRequest, Written, Leave, Panic, Refused,
                Owing, Members, Joined, TypeOK, Unwinding
  <2>. QED
    BY <2>1, <1>1
<1>4. ASSUME \A d \in Conns \ {c} : task'[d] = task[d] /\ (d \in crashed' <=> d \in crashed),
             c \in Owing, c \notin Owing'
      PROVE  /\ Cardinality(Owing') = Cardinality(Owing) - 1
             /\ Cardinality(Owing) \in Nat
  BY <1>4, SizesMove, Sizes DEF One
<1>5. CASE CountClosed(c)
  <2>1. /\ \A d \in Conns \ {c} : task'[d] = task[d] /\ (d \in crashed' <=> d \in crashed)
        /\ c \in Owing /\ c \notin Owing' /\ c \in Members
    BY <1>5 DEF CountClosed, Owing, Members, Joined, TypeOK, Unwinding
  <2>2. Cardinality(Owing') = Cardinality(Owing) - 1 /\ Cardinality(Owing) \in Nat
    BY <2>1, <1>4
  <2>3. Owed' = Owed - 1 /\ Owed \in Int
    BY <1>5 DEF CountClosed, Owed, TypeOK
  <2>. QED
    BY <1>5, <2>1, <2>2, <2>3 DEF CountClosed
<1>6. CASE Aborted(c)
  <2>1. /\ \A d \in Conns \ {c} : task'[d] = task[d] /\ (d \in crashed' <=> d \in crashed)
        /\ c \in Members /\ loop = "aborting"
        /\ UNCHANGED <<accepted, closed, panicked, loop, report>>
    BY <1>6 DEF Aborted, Members, Joined, TypeOK
  <2>2. CASE c \in Owing /\ c \notin Owing'
    BY <2>1, <2>2, <1>4 DEF Owed, TypeOK
  <2>3. CASE ~(c \in Owing /\ c \notin Owing')
    <3>1. Owing' = Owing
      BY <1>6, <2>3 DEF Aborted, Owing, TypeOK, Unwinding
    <3>. QED
      BY <3>1, <2>1, <1>1
  <2>. QED
    BY <2>2, <2>3
<1>. QED
  BY <1>2, <1>3, <1>5, <1>6 DEF Serving

\* What each step does to the account.
LEMMA AccountedStep ==
  ASSUME TypeOK, TypeOK', Unwinding, Accounted, [Next]_servervars
  PROVE  Accounted'
<1>. USE DEF Goto, stats
<1>1. /\ Owed \in Int /\ Cardinality(Owing) \in Nat
      /\ Owed' \in Int /\ Cardinality(Owing') \in Nat
  <2>1. Owing' \in SUBSET Conns
    BY DEF Owing
  <2>. QED
    BY <2>1, FiniteConns, Sizes DEF Owed, TypeOK
<1>2. ASSUME loop \notin {"aborting", "done"}, loop' \notin {"aborting", "done"},
             Owed' - Cardinality(Owing') = Owed - Cardinality(Owing)
      PROVE  Accounted'
  <2>1. Owed = Cardinality(Owing)
    BY <1>2 DEF Accounted
  <2>2. Owed' = Cardinality(Owing')
    BY <1>1, <1>2, <2>1
  <2>. QED
    BY <1>1, <1>2, <2>2 DEF Accounted
<1>3. ASSUME loop \notin {"aborting", "done"}, loop' \notin {"aborting", "done"},
             Owing' = Owing, UNCHANGED <<accepted, closed, panicked>>
      PROVE  Accounted'
  BY <1>1, <1>2, <1>3 DEF Owed
<1>4. CASE LoopStep
  <2>1. CASE /\ loop = "stop?" /\ loop' = "draining" /\ UNCHANGED <<crashed, stats>>
             /\ task' = [c \in Conns |-> IF task[c] = "backlog" THEN "reset" ELSE task[c]]
    <3>1. Owing' = Owing
      BY <2>1 DEF Owing
    <3>. QED
      BY <2>1, <3>1, <1>3
  <2>2. ASSUME NEW c \in Conns, Reap(c), loop \in {"join?", "draining"},
               loop' \in {"stop?", "draining"}
        PROVE  Accounted'
    <3>1. /\ \A d \in Conns \ {c} : task'[d] = task[d] /\ (d \in crashed' <=> d \in crashed)
          /\ c \in Owing <=> c \in crashed
          /\ c \notin Owing'
      BY <2>2 DEF Reap, Finished, Owing, TypeOK
    <3>2. Cardinality(Owing') = Cardinality(Owing) - One(c \in crashed)
      BY <3>1, <1>1, SizesMove DEF One
    <3>3. Owed' = Owed - One(c \in crashed)
      BY <2>2 DEF Reap, Owed, One, TypeOK
    <3>. QED
      BY <2>2, <3>2, <3>3, <1>1, <1>2 DEF One
  <2>3. ASSUME NEW c \in Conns, Admit(c), loop = "accept?", loop' = "stop?"
        PROVE  Accounted'
    <3>1. /\ \A d \in Conns \ {c} : task'[d] = task[d] /\ (d \in crashed' <=> d \in crashed)
          /\ c \notin Owing
      BY <2>3 DEF Admit, Owing, TypeOK, Unwinding
    <3>2. CASE free > 0
      <4>1. c \in Owing' /\ Owed' = Owed + 1
        BY <2>3, <3>2 DEF Admit, Owing, Owed, TypeOK
      <4>2. Cardinality(Owing') = Cardinality(Owing) + 1
        BY <3>1, <4>1, <1>1, SizesMove DEF One
      <4>. QED
        BY <2>3, <4>1, <4>2, <1>1, <1>2
    <3>3. CASE ~(free > 0)
      <4>1. Owing' = Owing
        BY <2>3, <3>3 DEF Admit, Owing, TypeOK, Unwinding
      <4>. QED
        BY <2>3, <3>3, <4>1, <1>3 DEF Admit
    <3>. QED
      BY <3>2, <3>3
  <2>4. CASE /\ LoopAlone /\ loop \notin {"expired", "aborting", "done"}
             /\ loop' \in {"stop?", "join?", "accept?", "backoff", "expired"}
    <3>1. Owing' = Owing
      BY <2>4 DEF LoopAlone, Owing
    <3>. QED
      BY <2>4, <3>1, <1>3 DEF LoopAlone
  <2>5. CASE LoopAlone /\ DrainedAll
    <3>1. Owing = {} /\ Owing' = {} /\ Members = {} /\ Members' = {}
      BY <2>5 DEF LoopAlone, DrainedAll, Owing, Members, Joined, TypeOK
    <3>2. Cardinality(Owing) = 0 /\ Cardinality(Owing') = 0
      BY <3>1, FS_EmptySet
    <3>3. Owed = 0 /\ Owed' = 0
      BY <2>5, <3>2 DEF LoopAlone, DrainedAll, Accounted, Owed
    <3>. QED
      BY <2>5, <3>1, <3>2, <3>3 DEF DrainedAll, Accounted
  <2>6. CASE LoopAlone /\ AbortAll
    <3>1. Owing' = Owing /\ Owed' = Owed /\ Owing \in SUBSET Members
      BY <2>6 DEF LoopAlone, AbortAll, Owing, Members, Joined, Owed
    <3>2. Cardinality(Owing) <= Cardinality(Members) /\ Owed = Cardinality(Owing)
      BY <2>6, <3>1, SubsetSize DEF Members, AbortAll, Accounted
    <3>. QED
      BY <2>6, <3>1, <3>2, <1>1 DEF AbortAll, Accounted
  <2>7. CASE AbortedAll
    <3>1. Owing' = {} /\ Members' = {} /\ Owed' = Owed
      BY <2>7 DEF AbortedAll, Owing, Members, Joined, Finished, Owed, TypeOK
    <3>2. Cardinality(Owing') = 0
      BY <3>1, FS_EmptySet
    <3>3. report' = report /\ loop = "aborting" /\ loop' = "done"
      BY <2>7 DEF AbortedAll
    <3>. QED
      BY <3>1, <3>2, <3>3, <1>1 DEF Accounted
  <2>. QED
    BY <1>4, <2>1, <2>2, <2>3, <2>4, <2>5, <2>6, <2>7, LoopCases
<1>5. CASE Cancel \/ UNCHANGED servervars
  <2>1. Owing' = Owing /\ Members' = Members /\ Owed' = Owed /\ UNCHANGED <<loop, report>>
    BY <1>5 DEF Cancel, servervars, Owing, Members, Joined, Owed
  <2>. QED
    BY <2>1 DEF Accounted
<1>6. ASSUME NEW c \in Conns, Connect(c) PROVE Accounted'
  <2>1. Owing' = Owing /\ loop' = loop /\ loop \notin {"aborting", "done"}
    BY <1>6 DEF Connect, Owing, TypeOK, Unwinding
  <2>. QED
    BY <1>6, <2>1, <1>3 DEF Connect
<1>7. ASSUME NEW c \in Conns, Running(c) \/ WokenByStop(c) \/ Serving(c) \/ Aborted(c)
      PROVE  Accounted'
  <2>1. loop' = loop /\ report' = report /\ loop # "done"
    BY <1>7, TaskOwes DEF Accounted
  <2>2. CASE loop = "aborting"
    <3>1. Owed' <= Owed /\ Cardinality(Owing') <= Owed'
      BY <1>7, <1>1, TaskOwes DEF Accounted
    <3>2. report.aborted \in Int /\ Owed <= report.aborted /\ ~report.drained
      BY <2>2 DEF Accounted, TypeOK
    <3>. QED
      BY <2>1, <2>2, <3>1, <3>2, <1>1 DEF Accounted
  <2>3. CASE loop # "aborting"
    BY <1>7, <2>1, <2>3, <1>2, TaskOwes
  <2>. QED
    BY <2>2, <2>3
<1>. QED
  BY <1>4, <1>5, <1>6, <1>7 DEF Next

-----------------------------------------------------------------------------
\* peak is behind maxActive only while a task carries the difference.
LEMMA PeakStep ==
  ASSUME TypeOK, PeakOnItsWay, [Next]_servervars
  PROVE  PeakOnItsWay'
<1>. USE DEF Goto, stats, TypeOK
<1>1. ASSUME UNCHANGED <<peak, maxActive, now>>,
             \A c \in Conns : task'[c] = "entering" <=> task[c] = "entering"
      PROVE  PeakOnItsWay'
  BY <1>1 DEF PeakOnItsWay
<1>2. CASE LoopStep
  <2>1. CASE /\ UNCHANGED <<now, stats>>
             /\ task' = [c \in Conns |-> IF task[c] = "backlog" THEN "reset" ELSE task[c]]
    BY <2>1, <1>1
  <2>2. ASSUME NEW c \in Conns, Reap(c) PROVE PeakOnItsWay'
    BY <2>2, <1>1 DEF Reap, Finished
  <2>3. ASSUME NEW c \in Conns, Admit(c) PROVE PeakOnItsWay'
    BY <2>3, <1>1 DEF Admit
  <2>4. CASE LoopAlone
    BY <2>4, <1>1 DEF LoopAlone
  <2>5. CASE AbortedAll
    BY <2>5, <1>1 DEF AbortedAll, Finished
  <2>. QED
    BY <1>2, <2>1, <2>2, <2>3, <2>4, <2>5, LoopCases
<1>3. CASE Cancel \/ UNCHANGED servervars
  BY <1>3, <1>1 DEF Cancel, servervars
<1>4. ASSUME NEW c \in Conns,
             \/ Connect(c) \/ CheckStop(c) \/ DropActive(c) \/ DropPermit(c) \/ Serving(c)
             \/ WokenByStop(c) \/ Aborted(c)
      PROVE  PeakOnItsWay'
  BY <1>4, <1>1 DEF Connect, CheckStop, DropActive, DropPermit, Serving, TakeRequest,
                    Written, Leave, CountClosed, Panic, Refused, WokenByStop, Aborted
<1>5. ASSUME NEW c \in Conns, Enter(c) PROVE PeakOnItsWay'
  <2>1. /\ task'[c] = "entering" /\ now'[c] = active + 1 /\ peak' = peak
        /\ \A d \in Conns \ {c} : task'[d] = task[d] /\ now'[d] = now[d]
        /\ task[c] # "entering"
    BY <1>5 DEF Enter
  <2>2. CASE active + 1 > maxActive
    <3>1. maxActive' = active + 1
      BY <1>5, <2>2 DEF Enter, Larger
    <3>. QED
      BY <2>1, <2>2, <3>1 DEF PeakOnItsWay
  <2>3. CASE ~(active + 1 > maxActive)
    <3>1. maxActive' = maxActive
      BY <1>5, <2>3 DEF Enter, Larger
    <3>. QED
      BY <2>1, <2>3, <3>1 DEF PeakOnItsWay
  <2>. QED
    BY <2>2, <2>3
<1>6. ASSUME NEW c \in Conns, EnterPeak(c) PROVE PeakOnItsWay'
  <2>1. /\ task[c] = "entering" /\ task'[c] # "entering" /\ maxActive' = maxActive
        /\ \A d \in Conns \ {c} : task'[d] = task[d] /\ now'[d] = now[d]
    BY <1>6 DEF EnterPeak
  <2>2. CASE peak < now[c]
    <3>1. peak' = now[c]
      BY <1>6, <2>2 DEF EnterPeak, Larger
    <3>. QED
      BY <2>1, <2>2, <3>1 DEF PeakOnItsWay
  <2>3. CASE ~(peak < now[c])
    <3>1. peak' = peak
      BY <1>6, <2>3 DEF EnterPeak, Larger
    <3>. QED
      BY <2>1, <2>3, <3>1 DEF PeakOnItsWay
  <2>. QED
    BY <2>2, <2>3
<1>. QED
  BY <1>2, <1>3, <1>4, <1>5, <1>6 DEF Next, Running

\* A task polls the token before it listens, and the token stays cancelled.
LEMMA LateStep ==
  ASSUME TypeOK, LateOnce, [Next]_servervars
  PROVE  LateOnce'
<1>. USE DEF Goto, TypeOK, LateOnce
<1>1. CASE LoopStep
  <2>1. CASE task' = [c \in Conns |-> IF task[c] = "backlog" THEN "reset" ELSE task[c]]
    BY <1>1, <2>1, LoopCases
  <2>2. ASSUME NEW c \in Conns, Reap(c) PROVE LateOnce'
    BY <1>1, <2>2, LoopCases DEF Reap
  <2>3. ASSUME NEW c \in Conns, Admit(c) PROVE LateOnce'
    BY <1>1, <2>3, LoopCases DEF Admit
  <2>4. CASE LoopAlone
    BY <1>1, <2>4, LoopCases DEF LoopAlone
  <2>5. CASE AbortedAll
    BY <1>1, <2>5, LoopCases DEF AbortedAll
  <2>. QED
    BY <1>1, <2>1, <2>2, <2>3, <2>4, <2>5, LoopCases
<1>2. CASE Cancel \/ UNCHANGED servervars
  BY <1>2 DEF Cancel, servervars
<1>3. ASSUME NEW c \in Conns, Connect(c) \/ WokenByStop(c) \/ Aborted(c) PROVE LateOnce'
  BY <1>3 DEF Connect, WokenByStop, Aborted
<1>4. ASSUME NEW c \in Conns, Running(c) PROVE LateOnce'
  BY <1>4 DEF Running, Enter, EnterPeak, CheckStop, DropActive, DropPermit
<1>5. ASSUME NEW c \in Conns, TakeRequest(c) PROVE LateOnce'
  <2>1. late[c] = 0
    BY <1>5 DEF TakeRequest
  <2>. QED
    BY <1>5, <2>1 DEF TakeRequest
<1>6. ASSUME NEW c \in Conns,
             Written(c) \/ Leave(c) \/ CountClosed(c) \/ Panic(c) \/ Refused(c)
      PROVE  LateOnce'
  BY <1>6 DEF Written, Leave, CountClosed, Panic, Refused
<1>. QED
  BY <1>1, <1>2, <1>3, <1>4, <1>5, <1>6 DEF Next, Serving

-----------------------------------------------------------------------------
\* The invariant of the server: permits, active and the counters of accepted,
\* closed and panicked connections follow the tasks in every reachable state.
THEOREM ServerInvariant == Spec => []ServerInv
<1>1. Init => ServerInv
  BY TypeInit, BalancedInit, AccountedInit DEF ServerInv, Unwinding, Init
<1>2. ServerInv /\ [Next]_servervars => ServerInv'
  BY TypeStep, BalancedStep, UnwindingStep, AccountedStep DEF ServerInv
<1>. QED
  BY <1>1, <1>2, PTL DEF Spec

\* The variables of the v2 server keep their types; no counter wraps.
THEOREM ServerTypes == Spec => []TypeOK
<1>1. ServerInv => TypeOK
  BY DEF ServerInv
<1>. QED
  BY <1>1, ServerInvariant, PTL

\* At most max_connections connections are ever active, however tasks end and
\* in whatever order their guards and permits are released.
THEOREM NeverOverLimit == Spec => []ConnectionLimit
<1>1. ServerInv => ConnectionLimit
  <2>1. ASSUME ServerInv PROVE active <= MaxConnections
    <3>1. Counted \in SUBSET Admitted
      BY DEF Counted, Admitted
    <3>2. Cardinality(Counted) <= Cardinality(Admitted)
      BY <3>1, Sizes, SubsetSize
    <3>. QED
      BY <2>1, <3>2, Sizes, ServerAssumption DEF ServerInv, Balanced, TypeOK
  <2>. QED
    BY <2>1 DEF ConnectionLimit
<1>. QED
  BY <1>1, ServerInvariant, PTL

\* When run() returns, no task is left, every permit is back, and the report
\* accounts for every connection that was accepted.
THEOREM EveryConnectionAccounted == Spec => []ReportAccounts
<1>1. ServerInv => ReportAccounts
  <2>1. SUFFICES ASSUME ServerInv, loop = "done"
        PROVE  /\ Members = {} /\ active = 0 /\ free = MaxConnections
               /\ report.drained => report.aborted = 0 /\ accepted = closed + panicked
               /\ accepted - closed - panicked \in 0..report.aborted
    BY DEF ReportAccounts
  <2>2. Members = {} /\ (report.drained => report.aborted = 0)
    BY <2>1 DEF ServerInv, Accounted
  <2>3. Admitted = {} /\ Counted = {} /\ Owing = {}
    BY <2>1, <2>2 DEF Members, Joined, Admitted, Counted, Owing
  <2>4. Cardinality(Admitted) = 0 /\ Cardinality(Counted) = 0 /\ Cardinality(Owing) = 0
    BY <2>3, FS_EmptySet
  <2>5. active = 0 /\ free = MaxConnections
    BY <2>1, <2>4, ServerAssumption DEF ServerInv, Balanced, TypeOK
  <2>6. 0 <= Owed /\ Owed <= report.aborted
    BY <2>1, <2>4 DEF ServerInv, Accounted
  <2>7. Owed \in Int /\ report.aborted \in Int
    BY <2>1 DEF ServerInv, TypeOK, Owed
  <2>. QED
    BY <2>1, <2>2, <2>5, <2>6, <2>7 DEF Owed, ServerInv, TypeOK
<1>. QED
  BY <1>1, ServerInvariant, PTL

\* The peak is exact whenever no task is inside ActiveGuard::new.
THEOREM PeakIsExact == Spec => []PeakExact
<1>1. Init => PeakOnItsWay
  BY DEF Init, PeakOnItsWay
<1>2. ServerInv /\ PeakOnItsWay /\ [Next]_servervars => PeakOnItsWay'
  BY PeakStep DEF ServerInv
<1>3. ServerInv /\ PeakOnItsWay => PeakExact
  BY DEF ServerInv, TypeOK, PeakOnItsWay, PeakExact
<1>. QED
  BY <1>1, <1>2, <1>3, ServerInvariant, PTL DEF Spec

\* After the cancellation a connection takes at most one more request.
THEOREM OneLateRequest == Spec => []AtMostOneLateRequest
<1>1. Init => LateOnce
  BY DEF Init, LateOnce
<1>2. ServerInv /\ LateOnce /\ [Next]_servervars => LateOnce'
  BY LateStep DEF ServerInv
<1>3. ServerInv /\ LateOnce => AtMostOneLateRequest
  BY DEF ServerInv, TypeOK, LateOnce, AtMostOneLateRequest
<1>. QED
  BY <1>1, <1>2, <1>3, ServerInvariant, PTL DEF Spec
=============================================================================
