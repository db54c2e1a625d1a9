--------------------------- MODULE FerriteV1Proofs ---------------------------
(***************************************************************************)
(* Proofs about the worker pool and about the server of ferrite v1 that is *)
(* built on it, for every set of items or clients, every number of workers *)
(* and every capacity.  The second part rests on the inductive invariant   *)
(* of the first.                                                           *)
(***************************************************************************)
EXTENDS FerriteV1, FiniteSetTheorems, TLAPS

-----------------------------------------------------------------------------
(***************************************************************************)
(* The inductive invariant.  Accounted alone is not inductive: it needs to *)
(* know which workers hold an item, and ReportIsFinal needs to know what   *)
(* the owner has done so far.                                              *)
(***************************************************************************)

\* The thread states agree with each other and with the queue.
Coherent ==
  /\ \A w \in Workers : holding[w] # None <=> worker[w] = "busy"
  /\ \A w \in Workers : worker[w] = "exited" => queue = <<>> /\ closed
  /\ closed <=> owner # "open"
  /\ owner # "open" => Pending = {}

\* What the owner has joined has exited, and it reports only after that.
OwnerCoherent ==
  /\ joined # 0 => owner \notin {"open", "closing"}
  /\ \A w \in Workers : w <= joined => worker[w] = "exited"
  /\ owner \in {"dropping", "gone"} => joined = NumWorkers
  /\ report # NoReport => /\ owner \in {"dropping", "gone"}
                          /\ report = <<completed, panicked, rejected>>

FiniteCalls == IsFiniteSet(Pending) /\ IsFiniteSet(Offered)

PoolInv ==
  /\ TypeOK
  /\ Coherent
  /\ OwnerCoherent
  /\ FiniteCalls
  /\ Accounted
  /\ NoLostWakeup

-----------------------------------------------------------------------------
\* The number of elements of a finite set after one is added or removed.
LEMMA CardinalityAdd ==
  ASSUME NEW S, IsFiniteSet(S), NEW x, x \notin S
  PROVE  /\ IsFiniteSet(S \union {x})
         /\ Cardinality(S) \in Nat
         /\ Cardinality(S \union {x}) = Cardinality(S) + 1
BY FS_AddElement, FS_CardinalityType

\* Taking an element out of a finite set makes it one smaller.
LEMMA CardinalityRemove ==
  ASSUME NEW S, IsFiniteSet(S), NEW x \in S
  PROVE  /\ IsFiniteSet(S \ {x})
         /\ Cardinality(S) \in Nat /\ Cardinality(S \ {x}) \in Nat
         /\ Cardinality(S \ {x}) = Cardinality(S) - 1
BY FS_RemoveElement, FS_CardinalityType

\* There are finitely many workers, so their sets have cardinalities.
LEMMA FiniteWorkers ==
  ASSUME NEW S \in SUBSET Workers
  PROVE  IsFiniteSet(S) /\ Cardinality(S) \in Nat
<1>1. IsFiniteSet(Workers)
  BY FS_Interval, PoolAssumption DEF Workers
<1>. QED
  BY <1>1, FS_Subset, FS_CardinalityType

\* All the variables keep their types; in particular the queue never grows
\* past its capacity.
LEMMA TypeStep ==
  ASSUME TypeOK, [Next]_poolvars
  PROVE  TypeOK'
<1>. USE PoolAssumption DEF TypeOK, Workers
<1>1. ASSUME NEW i \in Items, TrySubmit(i) PROVE TypeOK'
  <2>1. CASE Full
    BY <1>1, <2>1 DEF TrySubmit, HandBack, SubmitUnchanged
  <2>2. CASE ~Full
    <3>1. queue' = Append(queue, i) /\ Len(queue) < Capacity
      BY <1>1, <2>2 DEF TrySubmit, Enqueue, Full
    <3>2. queue' \in Seq(Items) /\ Len(queue') <= Capacity
      BY <3>1
    <3>. QED
      BY <1>1, <2>2, <3>2 DEF TrySubmit, Enqueue, SubmitUnchanged
  <2>. QED
    BY <2>1, <2>2
<1>2. ASSUME NEW i \in Items, NotifyOne(i) PROVE TypeOK'
  BY <1>2 DEF NotifyOne, Waiting
<1>3. ASSUME NEW w \in Workers, SpuriousWake(w) PROVE TypeOK'
  BY <1>3 DEF SpuriousWake
<1>4. ASSUME NEW w \in Workers, Park(w) PROVE TypeOK'
  BY <1>4 DEF Park
<1>5. ASSUME NEW w \in Workers, Take(w) PROVE TypeOK'
  BY <1>5 DEF Take
<1>6. ASSUME NEW w \in Workers, Exit(w) PROVE TypeOK'
  BY <1>6 DEF Exit
<1>7. ASSUME NEW w \in Workers, Finish(w) PROVE TypeOK'
  BY <1>7 DEF Finish
<1>8. ASSUME NEW r \in BOOLEAN, Close(r) PROVE TypeOK'
  BY <1>8 DEF Close
<1>9. CASE NotifyAll
  BY <1>9 DEF NotifyAll
<1>10. CASE Join
  BY <1>10 DEF Join
<1>11. CASE Report
  BY <1>11 DEF Report
<1>12. CASE Drop
  BY <1>12 DEF Drop
<1>13. CASE UNCHANGED poolvars
  BY <1>13 DEF poolvars
<1>. HIDE DEF TypeOK, Workers
<1>. QED
  BY <1>1, <1>2, <1>3, <1>4, <1>5, <1>6, <1>7, <1>8, <1>9, <1>10, <1>11,
     <1>12, <1>13 DEF Next, WorkerStep, OwnerStep, Gone

\* The types hold when the pool is created.
LEMMA TypeInit ==
  ASSUME Init
  PROVE  TypeOK
<1>1. queue \in Seq(Items) /\ Len(queue) <= Capacity
  BY PoolAssumption DEF Init
<1>2. call \in [Items -> {"new", "notify", "done", "refused"}]
  BY DEF Init
<1>3. /\ worker \in [Workers -> {"ready", "waiting", "busy", "exited"}]
      /\ holding \in [Workers -> Items \union {None}]
  BY DEF Init
<1>4. joined \in 0..NumWorkers
  BY PoolAssumption DEF Init
<1>5. report \in {NoReport} \union (Nat \X Nat \X Nat)
  BY DEF Init
<1>6. closed \in BOOLEAN /\ reports \in BOOLEAN
  BY DEF Init
<1>7. completed \in Nat /\ panicked \in Nat /\ rejected \in Nat
  BY DEF Init
<1>8. owner \in {"open", "closing", "joining", "dropping", "gone"}
  BY DEF Init
<1>. QED
  BY <1>1, <1>2, <1>3, <1>4, <1>5, <1>6, <1>7, <1>8 DEF TypeOK

\* Type correctness of the pool (worker_loop, try_submit, close_and_join).
THEOREM TypeCorrect == Spec => []TypeOK
<1>1. Init => TypeOK
  BY TypeInit
<1>. QED
  BY <1>1, TypeStep, PTL DEF Spec, SafeSpec

-----------------------------------------------------------------------------
\* The thread states stay coherent: who holds an item, who has exited, and
\* that no try_submit is left when the owner closes the pool.
LEMMA CoherentStep ==
  ASSUME TypeOK, Coherent, [Next]_poolvars
  PROVE  Coherent'
<1>. USE PoolAssumption DEF TypeOK, Coherent, Pending
<1>1. ASSUME NEW i \in Items, TrySubmit(i) PROVE Coherent'
  <2>1. owner = "open" /\ ~closed
    BY <1>1 DEF TrySubmit, CanSubmit
  <2>. QED
    BY <1>1, <2>1 DEF TrySubmit, SubmitUnchanged
<1>2. ASSUME NEW i \in Items, NotifyOne(i) PROVE Coherent'
  <2>1. owner = "open" /\ ~closed
    BY <1>2 DEF NotifyOne
  <2>. QED
    BY <1>2, <2>1 DEF NotifyOne, Waiting
<1>3. ASSUME NEW w \in Workers, SpuriousWake(w) PROVE Coherent'
  BY <1>3 DEF SpuriousWake
<1>4. ASSUME NEW w \in Workers, Park(w) PROVE Coherent'
  BY <1>4 DEF Park
<1>5. ASSUME NEW w \in Workers, Take(w) PROVE Coherent'
  <2>1. Head(queue) \in Items /\ Head(queue) # None
    BY <1>5 DEF Take
  <2>. QED
    BY <1>5, <2>1 DEF Take
<1>6. ASSUME NEW w \in Workers, Exit(w) PROVE Coherent'
  BY <1>6 DEF Exit
<1>7. ASSUME NEW w \in Workers, Finish(w) PROVE Coherent'
  BY <1>7 DEF Finish
<1>8. ASSUME NEW r \in BOOLEAN, Close(r) PROVE Coherent'
  BY <1>8 DEF Close
<1>9. CASE NotifyAll
  BY <1>9 DEF NotifyAll
<1>10. CASE Join
  BY <1>10 DEF Join
<1>11. CASE Report
  BY <1>11 DEF Report
<1>12. CASE Drop
  BY <1>12 DEF Drop
<1>13. CASE UNCHANGED poolvars
  BY <1>13 DEF poolvars
<1>. HIDE DEF TypeOK, Coherent, Pending
<1>. QED
  BY <1>1, <1>2, <1>3, <1>4, <1>5, <1>6, <1>7, <1>8, <1>9, <1>10, <1>11,
     <1>12, <1>13 DEF Next, WorkerStep, OwnerStep, Gone

\* The owner reports only what it has joined, and the counters do not move
\* after that: no worker is left to move them.
LEMMA OwnerCoherentStep ==
  ASSUME TypeOK, Coherent, OwnerCoherent, [Next]_poolvars
  PROVE  OwnerCoherent'
<1>. USE PoolAssumption DEF TypeOK, OwnerCoherent, Workers
<1>1. ASSUME NEW i \in Items, TrySubmit(i) PROVE OwnerCoherent'
  BY <1>1 DEF TrySubmit, CanSubmit, SubmitUnchanged
<1>2. ASSUME NEW i \in Items, NotifyOne(i) PROVE OwnerCoherent'
  BY <1>2 DEF NotifyOne, Waiting
<1>3. ASSUME NEW w \in Workers, SpuriousWake(w) PROVE OwnerCoherent'
  BY <1>3 DEF SpuriousWake
<1>4. ASSUME NEW w \in Workers, Park(w) PROVE OwnerCoherent'
  BY <1>4 DEF Park
<1>5. ASSUME NEW w \in Workers, Take(w) PROVE OwnerCoherent'
  BY <1>5 DEF Take
<1>6. ASSUME NEW w \in Workers, Exit(w) PROVE OwnerCoherent'
  BY <1>6 DEF Exit
<1>7. ASSUME NEW w \in Workers, Finish(w) PROVE OwnerCoherent'
  \* A busy worker has not exited, so nothing has been reported yet.
  <2>1. report = NoReport
    BY <1>7 DEF Finish
  <2>. QED
    BY <1>7, <2>1 DEF Finish
<1>8. ASSUME NEW r \in BOOLEAN, Close(r) PROVE OwnerCoherent'
  BY <1>8 DEF Close
<1>9. CASE NotifyAll
  BY <1>9 DEF NotifyAll
<1>10. CASE Join
  BY <1>10 DEF Join
<1>11. CASE Report
  BY <1>11 DEF Report
<1>12. CASE Drop
  BY <1>12 DEF Drop
<1>13. CASE UNCHANGED poolvars
  BY <1>13 DEF poolvars
<1>. HIDE DEF TypeOK, OwnerCoherent, Workers
<1>. QED
  BY <1>1, <1>2, <1>3, <1>4, <1>5, <1>6, <1>7, <1>8, <1>9, <1>10, <1>11,
     <1>12, <1>13 DEF Next, WorkerStep, OwnerStep, Gone

-----------------------------------------------------------------------------
\* Every item offered stays in exactly one place: the sum moves between its
\* terms and never changes without a submission.
LEMMA AccountedStep ==
  ASSUME TypeOK, Coherent, FiniteCalls, Accounted, [Next]_poolvars
  PROVE  FiniteCalls' /\ Accounted'
<1>. DEFINE Steady == /\ UNCHANGED <<completed, panicked, rejected, queue>>
                      /\ Busy' = Busy /\ Offered' = Offered
<1>0. /\ IsFiniteSet(Busy) /\ Cardinality(Busy) \in Nat
      /\ Cardinality(Offered) \in Nat
  BY FiniteWorkers, FS_CardinalityType DEF Busy, FiniteCalls
<1>a. ASSUME Steady, IsFiniteSet(Pending') PROVE FiniteCalls' /\ Accounted'
  BY <1>a DEF FiniteCalls, Accounted
<1>1. ASSUME NEW i \in Items, TrySubmit(i) PROVE FiniteCalls' /\ Accounted'
  <2>1. i \notin Offered /\ i \notin Pending /\ Busy' = Busy
    BY <1>1 DEF TrySubmit, CanSubmit, Offered, Pending, SubmitUnchanged, Busy
  <2>2. Offered' = Offered \union {i}
    BY <1>1 DEF TrySubmit, CanSubmit, HandBack, Enqueue, Offered, TypeOK
  <2>3. Pending' = Pending \/ Pending' = Pending \union {i}
    BY <1>1 DEF TrySubmit, CanSubmit, HandBack, Enqueue, Pending, TypeOK
  <2>4. FiniteCalls' /\ Cardinality(Offered') = Cardinality(Offered) + 1
    BY <2>1, <2>2, <2>3, CardinalityAdd DEF FiniteCalls
  <2>5. CASE Full
    BY <1>0, <1>1, <2>1, <2>4, <2>5
       DEF TrySubmit, HandBack, SubmitUnchanged, Accounted, TypeOK
  <2>6. CASE ~Full
    <3>1. Len(queue') = Len(queue) + 1
      BY <1>1, <2>6 DEF TrySubmit, Enqueue, TypeOK
    <3>. QED
      BY <1>0, <1>1, <2>1, <2>4, <2>6, <3>1
         DEF TrySubmit, Enqueue, SubmitUnchanged, Accounted, TypeOK
  <2>. QED
    BY <2>5, <2>6
<1>2. ASSUME NEW i \in Items, NotifyOne(i) PROVE FiniteCalls' /\ Accounted'
  <2>1. Pending' = Pending \ {i} /\ Offered' = Offered
    BY <1>2 DEF NotifyOne, Pending, Offered, TypeOK
  <2>2. Busy' = Busy
    BY <1>2 DEF NotifyOne, Waiting, Busy, TypeOK
  <2>3. IsFiniteSet(Pending')
    BY <2>1, FS_RemoveElement DEF FiniteCalls
  <2>. QED
    BY <1>a, <1>2, <2>1, <2>2, <2>3 DEF NotifyOne
<1>3. ASSUME NEW w \in Workers, SpuriousWake(w) PROVE FiniteCalls' /\ Accounted'
  <2>1. Busy' = Busy /\ Offered' = Offered /\ Pending' = Pending
    BY <1>3 DEF SpuriousWake, Busy, Offered, Pending, TypeOK
  <2>. QED
    BY <1>a, <1>3, <2>1 DEF SpuriousWake, FiniteCalls
<1>4. ASSUME NEW w \in Workers, Park(w) PROVE FiniteCalls' /\ Accounted'
  <2>1. Busy' = Busy /\ Offered' = Offered /\ Pending' = Pending
    BY <1>4 DEF Park, Busy, Offered, Pending, TypeOK
  <2>. QED
    BY <1>a, <1>4, <2>1 DEF Park, FiniteCalls
<1>5. ASSUME NEW w \in Workers, Take(w) PROVE FiniteCalls' /\ Accounted'
  <2>1. w \notin Busy /\ Busy' = Busy \union {w}
    BY <1>5 DEF Take, Busy, TypeOK
  <2>2. Offered' = Offered /\ Pending' = Pending
    BY <1>5 DEF Take, Offered, Pending
  <2>3. Len(queue') = Len(queue) - 1
    BY <1>5 DEF Take, TypeOK
  <2>4. Cardinality(Busy') = Cardinality(Busy) + 1
    BY <1>0, <2>1, CardinalityAdd
  <2>. QED
    BY <1>0, <1>5, <2>2, <2>3, <2>4 DEF Take, FiniteCalls, Accounted, TypeOK
<1>6. ASSUME NEW w \in Workers, Exit(w) PROVE FiniteCalls' /\ Accounted'
  <2>1. Busy' = Busy /\ Offered' = Offered /\ Pending' = Pending
    BY <1>6 DEF Exit, Busy, Offered, Pending, TypeOK
  <2>. QED
    BY <1>a, <1>6, <2>1 DEF Exit, FiniteCalls
<1>7. ASSUME NEW w \in Workers, Finish(w) PROVE FiniteCalls' /\ Accounted'
  <2>1. w \in Busy /\ Busy' = Busy \ {w}
    BY <1>7 DEF Finish, Busy, TypeOK
  <2>2. Offered' = Offered /\ Pending' = Pending
    BY <1>7 DEF Finish, Offered, Pending
  <2>3. /\ Cardinality(Busy') = Cardinality(Busy) - 1
        /\ Cardinality(Busy') \in Nat
    BY <1>0, <2>1, CardinalityRemove
  <2>. QED
    BY <1>0, <1>7, <2>2, <2>3 DEF Finish, FiniteCalls, Accounted, TypeOK
<1>8. ASSUME NEW r \in BOOLEAN, Close(r) PROVE FiniteCalls' /\ Accounted'
  <2>1. Busy' = Busy /\ Offered' = Offered /\ Pending' = Pending
    BY <1>8 DEF Close, Busy, Offered, Pending
  <2>. QED
    BY <1>a, <1>8, <2>1 DEF Close, FiniteCalls
<1>9. CASE NotifyAll
  <2>1. Busy' = Busy /\ Offered' = Offered /\ Pending' = Pending
    BY <1>9 DEF NotifyAll, Busy, Offered, Pending, TypeOK
  <2>. QED
    BY <1>a, <1>9, <2>1 DEF NotifyAll, FiniteCalls
<1>10. CASE UNCHANGED <<queue, completed, panicked, rejected, call, worker>>
  <2>1. Busy' = Busy /\ Offered' = Offered /\ Pending' = Pending
    BY <1>10 DEF Busy, Offered, Pending
  <2>. QED
    BY <1>a, <1>10, <2>1 DEF FiniteCalls
<1>11. CASE Join \/ Report \/ Drop
  BY <1>10, <1>11 DEF Join, Report, Drop
<1>12. CASE UNCHANGED poolvars
  BY <1>10, <1>12 DEF poolvars
<1>. QED
  BY <1>1, <1>2, <1>3, <1>4, <1>5, <1>6, <1>7, <1>8, <1>9, <1>11, <1>12
     DEF Next, WorkerStep, OwnerStep, Gone

-----------------------------------------------------------------------------
\* A step that adds to the queue adds a pending notify_one with it, a step
\* that spends a notify_one or a ready worker either takes an item or leaves
\* no sleeper: the counting argument behind notifying after the unlock.
LEMMA NoLostWakeupStep ==
  ASSUME TypeOK, Coherent, FiniteCalls, NoLostWakeup, [Next]_poolvars
  PROVE  NoLostWakeup'
<1>0. /\ IsFiniteSet(Pending) /\ Cardinality(Pending) \in Nat
      /\ IsFiniteSet(Ready) /\ Cardinality(Ready) \in Nat
      /\ Len(queue) \in Nat
  BY FiniteWorkers, FS_CardinalityType DEF Ready, FiniteCalls, TypeOK
<1>1. ASSUME NEW i \in Items, TrySubmit(i) PROVE NoLostWakeup'
  <2>1. Ready' = Ready /\ Waiting' = Waiting /\ ~closed'
    BY <1>1 DEF TrySubmit, CanSubmit, SubmitUnchanged, Ready, Waiting, Coherent
  <2>2. CASE Full
    <3>1. Pending' = Pending
      BY <1>1, <2>2 DEF TrySubmit, CanSubmit, HandBack, Pending, TypeOK
    <3>. QED
      BY <1>1, <2>1, <2>2, <3>1 DEF TrySubmit, HandBack, NoLostWakeup
  <2>3. CASE ~Full
    <3>1. i \notin Pending /\ Pending' = Pending \union {i}
      BY <1>1, <2>3 DEF TrySubmit, CanSubmit, Enqueue, Pending, TypeOK
    <3>2. Cardinality(Pending') = Cardinality(Pending) + 1
      BY <1>0, <3>1, CardinalityAdd
    <3>3. Len(queue') = Len(queue) + 1
      BY <1>1, <2>3 DEF TrySubmit, Enqueue, TypeOK
    <3>. QED
      BY <1>0, <2>1, <3>2, <3>3 DEF NoLostWakeup
  <2>. QED
    BY <2>2, <2>3
<1>2. ASSUME NEW i \in Items, NotifyOne(i) PROVE NoLostWakeup'
  <2>1. i \in Pending /\ Pending' = Pending \ {i}
    BY <1>2 DEF NotifyOne, Pending, TypeOK
  <2>2. /\ Cardinality(Pending') = Cardinality(Pending) - 1
        /\ Cardinality(Pending') \in Nat
    BY <1>0, <2>1, CardinalityRemove
  <2>3. ~closed' /\ queue' = queue
    BY <1>2, <2>1 DEF NotifyOne, Coherent
  <2>4. CASE Waiting = {} /\ UNCHANGED worker
    BY <2>3, <2>4 DEF NoLostWakeup, Waiting
  <2>5. ASSUME NEW w \in Waiting, worker' = [worker EXCEPT ![w] = "ready"]
        PROVE  NoLostWakeup'
    <3>1. w \notin Ready /\ Ready' = Ready \union {w}
      BY <2>5 DEF Waiting, Ready, TypeOK
    <3>2. Cardinality(Ready') = Cardinality(Ready) + 1
      BY <1>0, <3>1, CardinalityAdd
    <3>3. Waiting # {}
      BY <2>5
    <3>. QED
      BY <1>0, <2>2, <2>3, <3>2, <3>3 DEF NoLostWakeup
  <2>. QED
    BY <1>2, <2>4, <2>5 DEF NotifyOne
<1>3. ASSUME NEW w \in Workers, SpuriousWake(w) PROVE NoLostWakeup'
  <2>1. w \in Waiting /\ w \notin Ready /\ Ready' = Ready \union {w}
    BY <1>3 DEF SpuriousWake, Waiting, Ready, TypeOK
  <2>2. Cardinality(Ready') = Cardinality(Ready) + 1
    BY <1>0, <2>1, CardinalityAdd
  <2>3. Waiting' \subseteq Waiting /\ Pending' = Pending /\ queue' = queue
    BY <1>3 DEF SpuriousWake, Waiting, Pending, TypeOK
  <2>4. closed' = closed /\ owner' = owner
    BY <1>3 DEF SpuriousWake
  <2>. QED
    BY <1>0, <2>1, <2>2, <2>3, <2>4 DEF NoLostWakeup
\* A worker parks only on an empty queue of an open pool.
<1>4. ASSUME NEW w \in Workers, Park(w) PROVE NoLostWakeup'
  <2>1. /\ Len(queue') = 0 /\ ~closed'
        /\ Pending' = Pending
    BY <1>4 DEF Park, Pending
  <2>2. w \in Ready /\ Ready' = Ready \ {w}
    BY <1>4 DEF Park, Ready, TypeOK
  <2>3. Cardinality(Ready') \in Nat
    BY <1>0, <2>2, CardinalityRemove
  <2>. QED
    BY <1>0, <2>1, <2>3 DEF NoLostWakeup
<1>5. ASSUME NEW w \in Workers, Take(w) PROVE NoLostWakeup'
  <2>1. w \in Ready /\ Ready' = Ready \ {w}
    BY <1>5 DEF Take, Ready, TypeOK
  <2>2. Cardinality(Ready') = Cardinality(Ready) - 1
    BY <1>0, <2>1, CardinalityRemove
  <2>3. Waiting' = Waiting /\ Pending' = Pending
    BY <1>5 DEF Take, Waiting, Pending, TypeOK
  <2>4. Len(queue') = Len(queue) - 1
    BY <1>5 DEF Take, TypeOK
  <2>5. closed' = closed /\ owner' = owner
    BY <1>5 DEF Take
  <2>. QED
    BY <1>0, <2>2, <2>3, <2>4, <2>5 DEF NoLostWakeup
\* A worker that exits leaves an empty queue behind.
<1>6. ASSUME NEW w \in Workers, Exit(w) PROVE NoLostWakeup'
  <2>1. w \in Ready /\ Ready' = Ready \ {w}
    BY <1>6 DEF Exit, Ready, TypeOK
  <2>2. Cardinality(Ready') \in Nat
    BY <1>0, <2>1, CardinalityRemove
  <2>3. Waiting' = Waiting /\ Pending' = Pending /\ Len(queue') = 0
    BY <1>6 DEF Exit, Waiting, Pending, TypeOK
  <2>4. closed' = closed /\ owner' = owner
    BY <1>6 DEF Exit
  <2>. QED
    BY <1>0, <2>2, <2>3, <2>4 DEF NoLostWakeup
<1>7. ASSUME NEW w \in Workers, Finish(w) PROVE NoLostWakeup'
  <2>1. w \notin Ready /\ Ready' = Ready \union {w}
    BY <1>7 DEF Finish, Ready, TypeOK
  <2>2. Cardinality(Ready') = Cardinality(Ready) + 1
    BY <1>0, <2>1, CardinalityAdd
  <2>3. Waiting' = Waiting /\ Pending' = Pending /\ queue' = queue
    BY <1>7 DEF Finish, Waiting, Pending, TypeOK
  <2>4. closed' = closed /\ owner' = owner
    BY <1>7 DEF Finish
  <2>. QED
    BY <1>0, <2>2, <2>3, <2>4 DEF NoLostWakeup
<1>8. ASSUME NEW r \in BOOLEAN, Close(r) PROVE NoLostWakeup'
  <2>1. Ready' = Ready /\ Waiting' = Waiting /\ Pending' = Pending
    BY <1>8 DEF Close, Ready, Waiting, Pending
  <2>. QED
    BY <1>8, <2>1 DEF Close, NoLostWakeup
<1>9. CASE NotifyAll
  <2>1. Waiting' = {}
    BY <1>9 DEF NotifyAll, Waiting
  <2>. QED
    BY <2>1 DEF NoLostWakeup
<1>10. CASE UNCHANGED <<queue, call, worker>> /\ owner \notin {"open", "closing"}
  <2>1. Ready' = Ready /\ Waiting' = Waiting /\ Pending' = Pending
    BY <1>10 DEF Ready, Waiting, Pending
  <2>2. Waiting = {}
    BY <1>10 DEF NoLostWakeup, Coherent, TypeOK
  <2>. QED
    BY <2>1, <2>2 DEF NoLostWakeup
<1>11. CASE Join \/ Report \/ Drop
  BY <1>10, <1>11 DEF Join, Report, Drop
<1>12. CASE UNCHANGED poolvars
  BY <1>12 DEF poolvars, NoLostWakeup, Waiting, Ready, Pending
<1>. QED
  BY <1>1, <1>2, <1>3, <1>4, <1>5, <1>6, <1>7, <1>8, <1>9, <1>11, <1>12
     DEF Next, WorkerStep, OwnerStep, Gone

-----------------------------------------------------------------------------
\* The initial state satisfies the inductive invariant.
LEMMA PoolInvInit ==
  ASSUME Init
  PROVE  PoolInv
<1>1. TypeOK
  BY TypeInit
<1>2. Pending = {} /\ Offered = {} /\ Busy = {} /\ Waiting = {}
  BY DEF Init, Pending, Offered, Busy, Waiting
<1>3. Coherent
  BY <1>2 DEF Init, Coherent
<1>4. OwnerCoherent
  BY PoolAssumption DEF Init, OwnerCoherent, Workers
<1>5. FiniteCalls /\ Accounted
  BY <1>2, FS_EmptySet DEF FiniteCalls, Accounted, Init
<1>6. NoLostWakeup
  BY <1>2 DEF NoLostWakeup
<1>. QED
  BY <1>1, <1>3, <1>4, <1>5, <1>6 DEF PoolInv

\* Every step keeps the inductive invariant.
LEMMA PoolInvStep ==
  ASSUME PoolInv, [Next]_poolvars
  PROVE  PoolInv'
BY TypeStep, CoherentStep, OwnerCoherentStep, AccountedStep, NoLostWakeupStep DEF PoolInv

\* The inductive invariant holds throughout.
THEOREM PoolInvariant == Spec => []PoolInv
<1>1. Init => PoolInv
  BY PoolInvInit
<1>2. PoolInv /\ [Next]_poolvars => PoolInv'
  BY PoolInvStep
<1>. QED
  BY <1>1, <1>2, PTL DEF Spec, SafeSpec

\* No wakeup is lost between try_submit's unlock and its notify_one, nor
\* between close's unlock and its notify_all.
THEOREM NoWakeupLost == Spec => []NoLostWakeup
<1>1. PoolInv => NoLostWakeup
  BY DEF PoolInv
<1>. QED
  BY <1>1, PoolInvariant, PTL

\* Once the owner has a report, everything offered is in it.
LEMMA FinalReport ==
  ASSUME PoolInv
  PROVE  ReportIsFinal
<1>. SUFFICES ASSUME report # NoReport
              PROVE  /\ queue = <<>>
                     /\ \A w \in Workers : worker[w] = "exited" /\ holding[w] = None
                     /\ report = <<completed, panicked, rejected>>
                     /\ completed + panicked + rejected = Cardinality(Offered)
  BY DEF ReportIsFinal
<1>1. joined = NumWorkers /\ report = <<completed, panicked, rejected>>
  BY DEF PoolInv, OwnerCoherent
<1>2. \A w \in Workers : worker[w] = "exited"
  BY <1>1 DEF PoolInv, OwnerCoherent, Workers
<1>3. 1 \in Workers
  BY PoolAssumption DEF Workers
<1>4. queue = <<>>
  BY <1>2, <1>3 DEF PoolInv, Coherent
<1>5. \A w \in Workers : holding[w] = None
  BY <1>2 DEF PoolInv, Coherent
<1>6. Busy = {}
  BY <1>2 DEF Busy
<1>7. completed + panicked + rejected = Cardinality(Offered)
  BY <1>4, <1>6, FS_EmptySet DEF PoolInv, Accounted, TypeOK
<1>. QED
  BY <1>1, <1>2, <1>4, <1>5, <1>7

\* What shutdown() returns counts every item that was ever offered.
THEOREM ReportFinal == Spec => []ReportIsFinal
<1>1. PoolInv => ReportIsFinal
  BY FinalReport
<1>. QED
  BY <1>1, PoolInvariant, PTL

-----------------------------------------------------------------------------
\* Every step of the pool is a step of the abstract service or invisible to
\* its clients.
LEMMA ServiceStep ==
  ASSUME PoolInv, [Next]_poolvars
  PROVE  [Service!Next]_(Service!svars)
<1>. USE DEF Service!svars
<1>0. TypeOK /\ Coherent
  BY DEF PoolInv
<1>1. ASSUME NEW i \in Items, TrySubmit(i) PROVE Service!Next
  <2>1. ~closed /\ ~closed' /\ i \notin Offered
    BY <1>0, <1>1 DEF TrySubmit, CanSubmit, SubmitUnchanged, Coherent, Offered
  <2>2. Offered' = Offered \union {i}
    BY <1>0, <1>1 DEF TrySubmit, CanSubmit, HandBack, Enqueue, Offered, TypeOK
  <2>3. CASE Full
    <3>1. Len(queue) = Capacity
      BY <1>0, <2>1, <2>3, PoolAssumption DEF Full, TypeOK
    <3>2. Service!Refuse(i)
      BY <1>1, <2>1, <2>2, <2>3, <3>1
         DEF Service!Refuse, TrySubmit, HandBack, SubmitUnchanged
    <3>. QED
      BY <3>2 DEF Service!Next
  <2>4. CASE ~Full
    <3>1. Len(queue) < Capacity
      BY <1>0, <2>4, PoolAssumption DEF Full, TypeOK
    <3>2. Service!Accept(i)
      BY <1>1, <2>1, <2>2, <2>4, <3>1
         DEF Service!Accept, TrySubmit, Enqueue, SubmitUnchanged
    <3>. QED
      BY <3>2 DEF Service!Next
  <2>. QED
    BY <2>3, <2>4
<1>2. ASSUME NEW i \in Items, NotifyOne(i) PROVE UNCHANGED Service!svars
  <2>1. Offered' = Offered
    BY <1>0, <1>2 DEF NotifyOne, Offered, TypeOK
  <2>. QED
    BY <1>2, <2>1 DEF NotifyOne
<1>3. ASSUME NEW w \in Workers, SpuriousWake(w) \/ Park(w) \/ Exit(w)
      PROVE  UNCHANGED Service!svars
  BY <1>3 DEF SpuriousWake, Park, Exit, Offered
<1>4. ASSUME NEW w \in Workers, Take(w) PROVE Service!Next
  <2>1. holding[w] = None
    BY <1>0, <1>4 DEF Take, Coherent
  <2>2. Service!Start(w)
    BY <1>4, <2>1 DEF Service!Start, Take, Offered
  <2>. QED
    BY <2>2 DEF Service!Next, Service!StartSome, Service!Slots, Workers
<1>5. ASSUME NEW w \in Workers, Finish(w) PROVE Service!Next
  <2>1. holding[w] # None
    BY <1>0, <1>5 DEF Finish, Coherent
  <2>2. Service!Finish(w)
    BY <1>5, <2>1 DEF Service!Finish, Finish, Offered
  <2>. QED
    BY <2>2 DEF Service!Next, Service!Slots, Workers
<1>6. ASSUME NEW r \in BOOLEAN, Close(r) PROVE Service!Next
  <2>1. ~closed
    BY <1>0, <1>6 DEF Close, Coherent
  <2>2. Service!Stop
    BY <1>6, <2>1 DEF Service!Stop, Close, Offered
  <2>. QED
    BY <2>2 DEF Service!Next
<1>7. CASE NotifyAll \/ Join \/ Report
  BY <1>7 DEF NotifyAll, Join, Report, Offered
<1>8. CASE Drop
  <2>1. closed
    BY <1>0, <1>8 DEF Drop, Coherent
  <2>. QED
    BY <1>8, <2>1 DEF Drop, Offered
<1>9. CASE UNCHANGED poolvars
  BY <1>9 DEF poolvars, Offered
<1>. QED
  BY <1>1, <1>2, <1>3, <1>4, <1>5, <1>6, <1>7, <1>8, <1>9
     DEF Next, WorkerStep, OwnerStep, Gone

\* The pool implements the safety part of the service it promises.
THEOREM PoolImplementsService == Spec => Service!SafeSpec
<1>1. Init => Service!Init
  <2>1. Init => Offered = {}
    BY DEF Init, Offered
  <2>. QED
    BY <2>1 DEF Init, Service!Init, Service!Slots, Workers
<1>2. PoolInv /\ [Next]_poolvars => [Service!Next]_(Service!svars)
  BY ServiceStep
<1>. QED
  BY <1>1, <1>2, PoolInvariant, PTL DEF Spec, SafeSpec, Service!SafeSpec

-----------------------------------------------------------------------------
(***************************************************************************)
(* The server.  Its loop and its handlers are the only callers of the pool.*)
(***************************************************************************)

\* A connection that was accepted has been offered to the pool, is in the
\* loop's hand, or was dropped in the one step that leaves the loop; and the
\* owner of the pool is the loop, which always asks for a report.
LoopCoherent ==
  /\ \A c \in Items : net[c] \in {"away", "backlog", "dropped"} => call[c] = "new"
  /\ \A c \in Items :
       net[c] = "accepted" => call[c] # "new" \/ (loop \in {"check", "submit"} /\ hand = c)
  /\ loop \in {"check", "submit"} /\ hand \in Items
       => net[hand] = "accepted" /\ call[hand] = "new"
  /\ loop \in {"submit", "notify"} => hand \in Items
  /\ \A c, d \in Items : net[c] = "dropped" /\ net[d] = "dropped" => c = d
  /\ \A c \in Items : net[c] = "dropped" => loop \in {"closing", "done"}
  /\ loop \notin {"closing", "done"} => owner = "open"
  /\ owner # "open" => reports
  /\ owner \in {"dropping", "gone"} => report # NoReport
  /\ loop = "done" => owner = "gone"

\* The counters are behind what a worker has seen of them.
PeakBehind == active <= maxActive /\ PeakNeverOver

V1Inv == PoolInv /\ ServerTypeOK /\ LoopCoherent /\ ActiveOffByPanics

-----------------------------------------------------------------------------
\* The accept loop and the workers only do to the pool what the pool allows,
\* so the pool's invariant holds of the composition.
LEMMA PoolStep ==
  ASSUME LoopCoherent, [ServerNext]_v1vars
  PROVE  [Next]_poolvars
<1>1. CASE Submit
  BY <1>1 DEF Submit, LoopCoherent, Next
<1>2. CASE Notify
  BY <1>2 DEF Notify, LoopCoherent, Next
<1>3. CASE ShutDownPool
  BY <1>3 DEF ShutDownPool, Next
<1>4. CASE SetFlag \/ Dial \/ Accept \/ AcceptFails \/ CheckFlag \/ Stopped
  BY <1>4 DEF SetFlag, Dial, Accept, AcceptFails, CheckFlag, Stopped, v1vars
<1>5. ASSUME NEW c \in Items, Connect(c) PROVE UNCHANGED poolvars
  BY <1>5 DEF Connect
<1>6. ASSUME NEW w \in Workers, Seek(w) PROVE Next
  BY <1>6 DEF Seek, Next
<1>7. ASSUME NEW w \in Workers, Handle(w) PROVE [Next]_poolvars
  BY <1>7 DEF Handle, Enter, LoadActive, RaisePeak, Leave, Return, Handling, Next
<1>8. CASE UNCHANGED v1vars
  BY <1>8 DEF v1vars
<1>. QED
  BY <1>1, <1>2, <1>3, <1>4, <1>5, <1>6, <1>7, <1>8 DEF ServerNext, LoopStep

\* What each step leaves alone: the loop never touches a handler, nor makes a
\* worker busy or idle.
LEMMA LoopLeavesHandlers ==
  ASSUME TypeOK, LoopStep \/ SetFlag \/ Dial \/ AcceptFails \/ (\E c \in Items : Connect(c))
  PROVE  /\ UNCHANGED handler
         /\ UNCHANGED <<completed, panicked, holding>>
         /\ \A w \in Workers : worker[w] = "busy" <=> worker'[w] = "busy"
<1>1. CASE Submit
  BY <1>1 DEF Submit, TrySubmit, SubmitUnchanged
<1>2. CASE Notify
  BY <1>2 DEF Notify, NotifyOne, Waiting, TypeOK
<1>3. CASE ShutDownPool
  BY <1>3 DEF ShutDownPool, Close, OwnerStep, NotifyAll, Join, Report, Drop, TypeOK
<1>4. CASE SetFlag \/ Dial \/ Accept \/ AcceptFails \/ CheckFlag
  BY <1>4 DEF SetFlag, Dial, Accept, AcceptFails, CheckFlag, poolvars
<1>5. ASSUME NEW c \in Items, Connect(c) PROVE UNCHANGED <<poolvars, handler>>
  BY <1>5 DEF Connect
<1>. QED
  BY <1>1, <1>2, <1>3, <1>4, <1>5 DEF LoopStep, poolvars

\* A worker that waits for work, or leaves, was in no handler.
LEMMA SeekOutside ==
  ASSUME ServerTypeOK, NEW w \in Workers, Seek(w)
  PROVE  /\ step[w] = "out" /\ step' = [step EXCEPT ![w] = IF worker'[w] = "busy"
                                                            THEN "enter" ELSE "out"]
         /\ \A u \in Workers \ {w} : worker'[u] = worker[u]
         /\ worker'[w] \in {"ready", "waiting", "busy", "exited"}
         /\ UNCHANGED <<serverside, seen, active, peak, maxActive, panicked, completed>>
BY DEF Seek, WorkerStep, Park, Take, Exit, SpuriousWake, ServerTypeOK, TypeOK
-----------------------------------------------------------------------------
\* The handlers that ACTIVE counts are counted by a number.
LEMMA InsideSize ==
  /\ Inside \in SUBSET Workers /\ IsFiniteSet(Inside) /\ Cardinality(Inside) \in Nat
  /\ Inside' \in SUBSET Workers /\ IsFiniteSet(Inside') /\ Cardinality(Inside') \in Nat
<1>1. Inside \in SUBSET Workers /\ Inside' \in SUBSET Workers
  BY DEF Inside, Workers
<1>. QED
  BY <1>1, FiniteWorkers

\* How ACTIVE follows the workers inside the handler.
LEMMA ActiveStep ==
  ASSUME ServerTypeOK, ActiveOffByPanics, [ServerNext]_v1vars
  PROVE  ActiveOffByPanics'
<1>. USE DEF ServerTypeOK, TypeOK
<1>1. ASSUME Inside' = Inside, UNCHANGED <<active, panicked>>
      PROVE  ActiveOffByPanics'
  BY <1>1 DEF ActiveOffByPanics
<1>2. CASE LoopStep \/ SetFlag \/ Dial \/ AcceptFails \/ (\E c \in Items : Connect(c))
  BY <1>1, <1>2, LoopLeavesHandlers DEF handler, Inside
<1>3. CASE Stopped \/ UNCHANGED v1vars
  BY <1>1, <1>3 DEF Stopped, v1vars, poolvars, handler, Inside
<1>4. ASSUME NEW w \in Workers, Seek(w) PROVE ActiveOffByPanics'
  <2>1. Inside' = Inside
    BY <1>4, SeekOutside DEF Inside
  <2>. QED
    BY <1>1, <1>4, <2>1, SeekOutside
<1>5. ASSUME NEW w \in Workers, Enter(w) PROVE ActiveOffByPanics'
  <2>1. Inside' = Inside \union {w} /\ w \notin Inside
    BY <1>5 DEF Enter, Handling, Inside
  <2>2. Cardinality(Inside') = Cardinality(Inside) + 1
    BY <2>1, InsideSize, CardinalityAdd
  <2>3. active' = active + 1 /\ panicked' = panicked
    BY <1>5 DEF Enter, Handling, poolvars
  <2>. QED
    BY <2>2, <2>3, InsideSize DEF ActiveOffByPanics
<1>6. ASSUME NEW w \in Workers, LoadActive(w) \/ RaisePeak(w) PROVE ActiveOffByPanics'
  <2>1. Inside' = Inside /\ UNCHANGED <<active, panicked>>
    BY <1>6 DEF LoadActive, RaisePeak, Handling, Inside, poolvars
  <2>. QED
    BY <2>1, <1>1
<1>7. ASSUME NEW w \in Workers, w \in Inside, Inside' = Inside \ {w},
             active' - panicked' = active - panicked - 1, active' \in Int, panicked' \in Int
      PROVE  ActiveOffByPanics'
  <2>1. Cardinality(Inside') = Cardinality(Inside) - 1
    BY <1>7, InsideSize, CardinalityRemove
  <2>. QED
    <3>1. Cardinality(Inside) \in Int /\ active - panicked = Cardinality(Inside)
      BY InsideSize DEF ActiveOffByPanics
    <3>. QED
      BY <1>7, <2>1, <3>1 DEF ActiveOffByPanics
<1>8. ASSUME NEW w \in Workers, Leave(w) PROVE ActiveOffByPanics'
  <2>1. w \in Inside /\ Inside' = Inside \ {w}
    BY <1>8 DEF Leave, Handling, Inside
  <2>2. active' = active - 1 /\ panicked' = panicked
    BY <1>8 DEF Leave, Handling, poolvars
  <2>. QED
    BY <2>1, <2>2, <1>7
<1>9. ASSUME NEW w \in Workers, Return(w) PROVE ActiveOffByPanics'
  <2>1. CASE step[w] = "left" /\ completed' # completed
    <3>1. Inside' = Inside /\ UNCHANGED <<active, panicked>>
      BY <1>9, <2>1 DEF Return, Finish, Inside
    <3>. QED
      BY <3>1, <1>1
  <2>2. CASE step[w] = "serve" /\ panicked' # panicked
    <3>1. w \in Inside /\ Inside' = Inside \ {w}
      BY <1>9, <2>2 DEF Return, Inside
    <3>2. active' = active /\ panicked' = panicked + 1
      BY <1>9, <2>2 DEF Return, Finish
    <3>. QED
      BY <3>1, <3>2, <1>7
  <2>. QED
    BY <1>9, <2>1, <2>2 DEF Return
<1>. QED
  BY <1>2, <1>3, <1>4, <1>5, <1>6, <1>8, <1>9 DEF ServerNext, Handle

\* All the variables of the server keep their types.
LEMMA ServerTypeStep ==
  ASSUME V1Inv, TypeOK', [ServerNext]_v1vars
  PROVE  ServerTypeOK'
<1>. USE DEF ServerTypeOK, V1Inv
<1>1. CASE LoopStep \/ SetFlag \/ Dial \/ AcceptFails \/ (\E c \in Items : Connect(c))
  <2>1. /\ UNCHANGED handler
        /\ \A w \in Workers : worker[w] = "busy" <=> worker'[w] = "busy"
    BY <1>1, LoopLeavesHandlers
  <2>2. /\ flag' \in BOOLEAN /\ dialled' \in BOOLEAN
        /\ net' \in [Items -> {"away", "backlog", "accepted", "dropped"}]
        /\ loop' \in {"accept", "check", "submit", "notify", "closing", "done"}
        /\ hand' \in Items \union {Waker, AcceptError, Nothing}
    BY <1>1 DEF LoopStep, Accept, CheckFlag, Submit, Notify, ShutDownPool, SetFlag, Dial,
                AcceptFails, Connect, Listening
  <2>. QED
    BY <2>1, <2>2 DEF handler
<1>2. CASE Stopped \/ UNCHANGED v1vars
  BY <1>2 DEF Stopped, v1vars, poolvars, serverside, handler
<1>3. ASSUME NEW w \in Workers, Seek(w) PROVE ServerTypeOK'
  <2>1. \A u \in Workers : worker'[u] # "busy" <=> step'[u] = "out"
    BY <1>3, SeekOutside
  <2>. QED
    BY <1>3, <2>1, SeekOutside DEF serverside
<1>4. ASSUME NEW w \in Workers, Enter(w) \/ LoadActive(w) \/ RaisePeak(w) \/ Leave(w)
      PROVE  ServerTypeOK'
  <2>1. CASE Leave(w)
    <3>1. w \in Inside
      BY <2>1 DEF Leave, Handling, Inside
    <3>2. Cardinality(Inside) # 0
      BY <3>1, InsideSize, FS_EmptySet
    <3>3. active - 1 \in Nat
      BY <3>2, InsideSize DEF ActiveOffByPanics, TypeOK
    <3>. QED
      BY <2>1, <3>3 DEF Leave, Handling, poolvars, serverside
  <2>2. CASE Enter(w)
    BY <2>2 DEF Enter, Handling, poolvars, serverside
  <2>3. CASE LoadActive(w)
    BY <2>3 DEF LoadActive, Handling, poolvars, serverside
  <2>4. CASE RaisePeak(w)
    BY <2>4 DEF RaisePeak, Handling, poolvars, serverside
  <2>. QED
    BY <1>4, <2>1, <2>2, <2>3, <2>4
<1>5. ASSUME NEW w \in Workers, Return(w) PROVE ServerTypeOK'
  BY <1>5 DEF Return, Finish, serverside, TypeOK
<1>. QED
  BY <1>1, <1>2, <1>3, <1>4, <1>5 DEF ServerNext, Handle

-----------------------------------------------------------------------------
\* Where each connection is, step by step of the loop.
LEMMA LoopCoherentStep ==
  ASSUME ServerTypeOK, LoopCoherent, [ServerNext]_v1vars
  PROVE  LoopCoherent'
<1>. USE V1Assumption DEF ServerTypeOK, TypeOK
<1>1. ASSUME UNCHANGED <<net, call, loop, hand, owner, reports, report>>
      PROVE  LoopCoherent'
  BY <1>1 DEF LoopCoherent
<1>2. ASSUME NEW c \in Items, Connect(c) PROVE LoopCoherent'
  BY <1>2 DEF Connect, LoopCoherent, poolvars
<1>3. CASE SetFlag \/ Dial \/ Stopped \/ UNCHANGED v1vars
  BY <1>1, <1>3 DEF SetFlag, Dial, Stopped, v1vars, poolvars, serverside
<1>4. CASE Accept
  <2>1. ASSUME NEW c \in Items, net[c] = "backlog", hand' = c,
               net' = [net EXCEPT ![c] = "accepted"]
        PROVE  LoopCoherent'
    BY <1>4, <2>1 DEF Accept, LoopCoherent, poolvars
  <2>2. CASE hand' = Waker /\ UNCHANGED net
    BY <1>4, <2>2 DEF Accept, LoopCoherent, poolvars
  <2>. QED
    BY <1>4, <2>1, <2>2 DEF Accept
<1>5. CASE AcceptFails
  BY <1>5 DEF AcceptFails, LoopCoherent, poolvars
<1>6. CASE CheckFlag
  <2>1. CASE flag /\ hand \in Items
    <3>1. /\ net' = [net EXCEPT ![hand] = "dropped"] /\ loop' = "closing" /\ hand' = Nothing
          /\ UNCHANGED <<call, owner, reports, report>> /\ loop = "check"
      BY <1>6, <2>1 DEF CheckFlag, poolvars
    <3>. QED
      BY <2>1, <3>1 DEF LoopCoherent
  <2>2. CASE flag /\ hand \notin Items
    BY <1>6, <2>2 DEF CheckFlag, LoopCoherent, poolvars
  <2>3. CASE ~flag /\ hand \in Items
    BY <1>6, <2>3 DEF CheckFlag, LoopCoherent, poolvars
  <2>4. CASE ~flag /\ hand \notin Items
    BY <1>6, <2>4 DEF CheckFlag, LoopCoherent, poolvars
  <2>. QED
    BY <2>1, <2>2, <2>3, <2>4
<1>7. CASE Submit
  <2>1. /\ loop = "submit" /\ hand \in Items
        /\ call' \in {[call EXCEPT ![hand] = "notify"], [call EXCEPT ![hand] = "refused"]}
        /\ UNCHANGED <<net, owner, reports, report>>
    BY <1>7 DEF Submit, TrySubmit, HandBack, Enqueue, SubmitUnchanged, LoopCoherent
  <2>2. \/ loop' = "notify" /\ hand' = hand
        \/ loop' = "accept" /\ hand' = Nothing
    BY <1>7 DEF Submit
  <2>. QED
    BY <2>1, <2>2 DEF LoopCoherent
<1>8. CASE Notify
  <2>1. /\ loop = "notify" /\ hand \in Items /\ call' = [call EXCEPT ![hand] = "done"]
        /\ call[hand] = "notify" /\ loop' = "accept" /\ hand' = Nothing
        /\ UNCHANGED <<net, owner, reports, report>>
    BY <1>8 DEF Notify, NotifyOne, LoopCoherent
  <2>. QED
    BY <2>1 DEF LoopCoherent
<1>9. CASE ShutDownPool
  <2>1. /\ loop = "closing" /\ UNCHANGED <<net, call, hand>>
        /\ loop' = IF owner' = "gone" THEN "done" ELSE "closing"
    BY <1>9 DEF ShutDownPool, Close, OwnerStep, NotifyAll, Join, Report, Drop
  <2>2. /\ owner' # "open" => reports'
        /\ owner' \in {"dropping", "gone"} => report' # NoReport
    <3>1. CASE Close(TRUE)
      BY <3>1 DEF Close
    <3>2. CASE NotifyAll \/ Join
      BY <3>2 DEF NotifyAll, Join, LoopCoherent
    <3>3. CASE Report
      <4>1. report' = <<completed, panicked, rejected>> /\ reports'
        BY <3>3 DEF Report
      <4>2. report' # NoReport
        BY <4>1 DEF NoReport
      <4>. QED
        BY <4>1, <4>2
    <3>4. CASE Drop
      BY <3>4 DEF Drop, LoopCoherent
    <3>. QED
      BY <1>9, <3>1, <3>2, <3>3, <3>4 DEF ShutDownPool, OwnerStep
  <2>. QED
    BY <2>1, <2>2 DEF LoopCoherent
<1>10. ASSUME NEW w \in Workers, Seek(w) PROVE LoopCoherent'
  <2>1. UNCHANGED <<call, owner, reports, report>>
    BY <1>10 DEF Seek, WorkerStep, Park, Take, Exit, SpuriousWake
  <2>. QED
    BY <1>1, <1>10, <2>1 DEF Seek, serverside
<1>11. ASSUME NEW w \in Workers, Handle(w) PROVE LoopCoherent'
  <2>1. UNCHANGED <<call, owner, reports, report, net, loop, hand>>
    BY <1>11 DEF Handle, Enter, LoadActive, RaisePeak, Leave, Return, Handling, Finish,
                 poolvars, serverside
  <2>. QED
    BY <1>1, <2>1
<1>. QED
  BY <1>2, <1>3, <1>4, <1>5, <1>6, <1>7, <1>8, <1>9, <1>10, <1>11
     DEF ServerNext, LoopStep

\* ACTIVE, what a worker loads from it, and PEAK stay behind the largest value
\* ACTIVE has had.
LEMMA PeakBehindStep ==
  ASSUME ServerTypeOK, PeakBehind, [ServerNext]_v1vars
  PROVE  PeakBehind'
<1>. USE DEF ServerTypeOK, PeakBehind, PeakNeverOver
<1>1. CASE LoopStep \/ SetFlag \/ Dial \/ AcceptFails \/ (\E c \in Items : Connect(c))
  BY <1>1, LoopLeavesHandlers DEF handler
<1>2. CASE Stopped \/ UNCHANGED v1vars
  BY <1>2 DEF Stopped, v1vars, handler
<1>3. ASSUME NEW w \in Workers, Seek(w) PROVE PeakBehind'
  BY <1>3 DEF Seek
<1>4. ASSUME NEW w \in Workers, Enter(w) PROVE PeakBehind'
  BY <1>4 DEF Enter
<1>5. ASSUME NEW w \in Workers, LoadActive(w) \/ RaisePeak(w) PROVE PeakBehind'
  BY <1>5 DEF LoadActive, RaisePeak
<1>6. ASSUME NEW w \in Workers, Leave(w) \/ Return(w) PROVE PeakBehind'
  BY <1>6 DEF Leave, Return
<1>. QED
  BY <1>1, <1>2, <1>3, <1>4, <1>5, <1>6 DEF ServerNext, Handle

\* The invariant holds at first.
LEMMA V1InvInit ==
  ASSUME ServerInit
  PROVE  V1Inv /\ PeakBehind
<1>1. PoolInv
  BY PoolInvInit DEF ServerInit
<1>2. Inside = {}
  BY DEF Inside, ServerInit
<1>3. ActiveOffByPanics
  BY <1>2, FS_EmptySet DEF ServerInit, Init, ActiveOffByPanics
<1>4. ServerTypeOK
  BY <1>1 DEF PoolInv, ServerInit, Init, ServerTypeOK
<1>5. LoopCoherent
  BY V1Assumption DEF ServerInit, Init, LoopCoherent
<1>. QED
  BY <1>1, <1>3, <1>4, <1>5 DEF V1Inv, PeakBehind, PeakNeverOver, ServerInit

-----------------------------------------------------------------------------
\* The invariant of the v1 server: the pool's, and that loop, workers and
\* handlers agree on where each connection is.
THEOREM V1Invariant == ServerSpec => []V1Inv
<1>1. ServerInit => V1Inv
  BY V1InvInit
<1>2. V1Inv /\ [ServerNext]_v1vars => V1Inv'
  <2>1. SUFFICES ASSUME V1Inv, [ServerNext]_v1vars PROVE V1Inv'
    OBVIOUS
  <2>2. PoolInv' /\ TypeOK'
    BY <2>1, PoolStep, PoolInvStep DEF V1Inv, PoolInv
  <2>. QED
    BY <2>1, <2>2, ServerTypeStep, LoopCoherentStep, ActiveStep DEF V1Inv
<1>. QED
  BY <1>1, <1>2, PTL DEF ServerSpec

\* The variables of the v1 server keep their types, and a worker is in the
\* handler exactly while the pool calls it busy.
THEOREM V1Types == ServerSpec => []ServerTypeOK
<1>1. V1Inv => ServerTypeOK
  BY DEF V1Inv
<1>. QED
  BY <1>1, V1Invariant, PTL

\* ACTIVE is too high by exactly the number of handlers that have panicked.
THEOREM ActiveIsOffByPanics == ServerSpec => []ActiveOffByPanics
<1>1. V1Inv => ActiveOffByPanics
  BY DEF V1Inv
<1>. QED
  BY <1>1, V1Invariant, PTL

\* PEAK may be too low, but it is never too high.
THEOREM PeakNeverTooHigh == ServerSpec => []PeakNeverOver
<1>1. ServerInit => PeakBehind
  BY V1InvInit
<1>2. V1Inv /\ PeakBehind /\ [ServerNext]_v1vars => PeakBehind'
  BY PeakBehindStep DEF V1Inv
<1>3. PeakBehind => PeakNeverOver
  BY DEF PeakBehind
<1>. QED
  BY <1>1, <1>2, <1>3, V1Invariant, PTL DEF ServerSpec

\* When run() has returned, its report accounts for every connection that was
\* accepted, but for at most the one dropped on the way out of the loop.
THEOREM OneDroppedAtMost == ServerSpec => []AtMostOneDropped
<1>1. V1Inv => AtMostOneDropped
  <2>. DEFINE D == {c \in Items : net[c] = "dropped"}
  <2>1. SUFFICES ASSUME V1Inv, loop = "done"
        PROVE  LET told == completed + panicked + rejected
               IN  /\ report = <<completed, panicked, rejected>>
                   /\ Cardinality(Entered) - told = Cardinality(D)
                   /\ Cardinality(Entered) - told \in {0, 1}
    BY DEF AtMostOneDropped
  <2>2. report # NoReport
    BY <2>1 DEF V1Inv, LoopCoherent
  <2>3. /\ report = <<completed, panicked, rejected>>
        /\ completed + panicked + rejected = Cardinality(Offered)
    BY <2>1, <2>2, FinalReport DEF V1Inv, ReportIsFinal
  <2>4. IsFiniteSet(Offered) /\ Cardinality(Offered) \in Nat
    BY <2>1, FS_CardinalityType DEF V1Inv, PoolInv, FiniteCalls
  <2>5. Entered = Offered \union D /\ Offered \cap D = {}
    BY <2>1 DEF V1Inv, LoopCoherent, ServerTypeOK, TypeOK, Entered, Offered
  <2>6. CASE D = {}
    <3>1. Cardinality(D) = 0 /\ Entered = Offered
      BY <2>5, <2>6, FS_EmptySet
    <3>. QED
      BY <2>3, <2>4, <3>1
  <2>7. CASE D # {}
    <3>1. PICK c \in Items : D = {c}
      BY <2>1, <2>7 DEF V1Inv, LoopCoherent
    <3>2. Cardinality(D) = 1
      BY <3>1, FS_Singleton
    <3>3. Entered = Offered \union {c} /\ c \notin Offered
      BY <2>5, <3>1
    <3>4. Cardinality(Entered) = Cardinality(Offered) + 1
      BY <3>3, <2>4, CardinalityAdd
    <3>. QED
      BY <2>3, <2>4, <3>2, <3>4
  <2>. QED
    BY <2>6, <2>7
<1>. QED
  BY <1>1, V1Invariant, PTL
=============================================================================
