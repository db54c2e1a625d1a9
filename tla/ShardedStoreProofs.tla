------------------------- MODULE ShardedStoreProofs -------------------------
(***************************************************************************)
(* Proofs about the sharded store, for every set of threads, keys and      *)
(* values, every number of shards and every routing.                       *)
(***************************************************************************)
EXTENDS ShardedStore, FiniteSetTheorems, TLAPS

\* A writer shares its shard's lock with nobody: the RwLock as Lock takes it.
Exclusive ==
  \A t, u \in Threads :
    t # u /\ Holds(t) /\ Holds(u) /\ ShardOf(t) = ShardOf(u)
      => ~Writes(call[t].kind) /\ ~Writes(call[u].kind)

\* What a thread at each step is executing and has found out.
Progress ==
  \A t \in Threads :
    /\ pc[t] # "idle" => call[t] \in Operations
    /\ pc[t] = "change" => /\ call[t].kind \in {"put", "delete"}
                           /\ answer[t] = content[call[t].key]
    /\ pc[t] = "unlock" => call[t].kind # "panic"
    /\ pc[t] \in {"count", "clear"} => call[t].kind # "panic"
    /\ pc[t] = "idle" => call[t] = NoCall /\ answer[t] = Nil
    /\ (pc[t] = "lock" \/ call[t].kind \in {"len", "panic"}) => answer[t] = Nil

StoreInv == TypeOK /\ Exclusive /\ Progress

-----------------------------------------------------------------------------
\* The shape of an operation: what it is called on.
LEMMA OperationShape ==
  ASSUME NEW o \in Operations
  PROVE  /\ o.kind \in {"get", "delete", "panic", "put", "len"}
         /\ o.kind # "len" => o.key \in Keys
         /\ o.kind = "put" => o.value \in Values
BY DEF Operations

\* A key has a shard.
LEMMA ShardOfType ==
  ASSUME TypeOK, NEW t \in Threads, call[t] \in Operations
  PROVE  ShardOf(t) \in Shards
<1>1. call[t].kind # "len" => call[t].key \in Keys
  BY OperationShape
<1>. QED
  BY <1>1 DEF ShardOf, TypeOK

\* The number of a shard's entries is a number.
LEMMA ShardLenType ==
  ASSUME NEW s
  PROVE  ShardLen(s) \in Nat
<1>. DEFINE S == {k \in Keys : router[k] = s /\ content[k] # Nil}
<1>1. S \in SUBSET Keys /\ IsFiniteSet(Keys)
  BY StoreAssumption
<1>2. IsFiniteSet(S)
  BY <1>1, FS_Subset
<1>3. Cardinality(S) \in Nat
  BY <1>2, FS_CardinalityType
<1>. QED
  BY <1>3 DEF ShardLen

\* All the variables keep their types.
LEMMA TypeStep ==
  ASSUME TypeOK, Progress, [Next]_storevars
  PROVE  TypeOK'
<1>. USE StoreAssumption DEF TypeOK, Goto
<1>1. ASSUME NEW t \in Threads, NEW o \in Operations, Call(t, o) PROVE TypeOK'
  BY <1>1 DEF Call
<1>2. ASSUME NEW t \in Threads, Lock(t) PROVE TypeOK'
  BY <1>2 DEF Lock
<1>3. ASSUME NEW t \in Threads, CountRecovery(t) PROVE TypeOK'
  BY <1>3 DEF CountRecovery
<1>4. ASSUME NEW t \in Threads, ClearPoison(t) PROVE TypeOK'
  BY <1>4 DEF ClearPoison
<1>5. ASSUME NEW t \in Threads, Lookup(t) PROVE TypeOK'
  <2>1. call[t] \in Operations
    BY <1>5 DEF Lookup, Progress
  <2>2. call[t].key \in Keys
    BY <1>5, <2>1, OperationShape DEF Lookup
  <2>. QED
    BY <1>5, <2>2 DEF Lookup
<1>6. ASSUME NEW t \in Threads, Change(t) PROVE TypeOK'
  <2>1. call[t] \in Operations
    BY <1>6 DEF Change, Progress
  <2>2. call[t].kind = "put" => call[t].value \in Values
    BY <2>1, OperationShape
  <2>3. content' \in [Keys -> Values \union {Nil}]
    BY <1>6, <2>2 DEF Change
  <2>4. quiet' \in [Threads -> BOOLEAN]
    BY <1>6 DEF Change
  <2>. QED
    BY <1>6, <2>3, <2>4 DEF Change
<1>7. ASSUME NEW t \in Threads, Count(t) PROVE TypeOK'
  <2>1. sum[t] + ShardLen(cursor[t]) \in Nat
    BY ShardLenType
  <2>. QED
    BY <1>7, <2>1 DEF Count
<1>8. ASSUME NEW t \in Threads, Unlock(t) PROVE TypeOK'
  <2>1. pc' \in [Threads -> {"idle", "lock", "count", "clear", "held",
                             "change", "unlock", "return"}]
    BY <1>8 DEF Unlock, MoreShards
  <2>2. cursor' \in [Threads -> Shards]
    <3>1. cursor[t] < NumShards => cursor[t] + 1 \in Shards
      BY DEF Shards
    <3>. QED
      BY <1>8, <3>1 DEF Unlock, MoreShards
  <2>. QED
    BY <1>8, <2>1, <2>2 DEF Unlock, MoreShards
<1>9. ASSUME NEW t \in Threads, Panic(t) PROVE TypeOK'
  <2>1. poisoned' \in [Shards -> BOOLEAN]
    BY <1>9 DEF Panic
  <2>2. poisonings' \in Nat
    BY <1>9 DEF Panic
  <2>. QED
    BY <1>9, <2>1, <2>2 DEF Panic
<1>10. ASSUME NEW t \in Threads, Return(t) PROVE TypeOK'
  <2>1. 1 \in Shards
    BY DEF Shards
  <2>. QED
    BY <1>10, <2>1 DEF Return
<1>11. CASE UNCHANGED storevars
  BY <1>11 DEF storevars
<1>. HIDE DEF TypeOK, Goto
<1>. QED
  BY <1>1, <1>2, <1>3, <1>4, <1>5, <1>6, <1>7, <1>8, <1>9, <1>10, <1>11 DEF Next

-----------------------------------------------------------------------------
\* A step that takes no lock keeps mutual exclusion: nobody starts to hold
\* one, and those who hold one keep their call and their shard.
LEMMA ExclusiveKept ==
  ASSUME Exclusive,
         \A t \in Threads : Holds(t)' => /\ Holds(t) /\ call'[t] = call[t]
                                         /\ ShardOf(t)' = ShardOf(t)
  PROVE  Exclusive'
BY DEF Exclusive, Writes

\* Mutual exclusion: only Lock takes a lock, and it checks the holders.
LEMMA ExclusiveStep ==
  ASSUME TypeOK, Progress, Exclusive, [Next]_storevars
  PROVE  Exclusive'
<1>. DEFINE Kept == \A t \in Threads : Holds(t)' => /\ Holds(t) /\ call'[t] = call[t]
                                                    /\ ShardOf(t)' = ShardOf(t)
<1>. USE DEF TypeOK, Goto, Holds, ShardOf
<1>1. ASSUME NEW t \in Threads, NEW o \in Operations, Call(t, o) PROVE Kept
  BY <1>1 DEF Call
<1>2. ASSUME NEW t \in Threads, Lock(t) PROVE Exclusive'
  <2>1. \A u \in Threads : u # t => (Holds(u)' <=> Holds(u))
    BY <1>2 DEF Lock
  <2>2. \A u \in Threads : ShardOf(u)' = ShardOf(u) /\ call'[u] = call[u]
    BY <1>2 DEF Lock
  <2>3. \A u \in Threads : u # t /\ Holds(u) /\ ShardOf(u) = ShardOf(t)
          => ~Writes(call[t].kind) /\ ~Writes(call[u].kind)
    BY <1>2 DEF Lock, Holders
  <2>. HIDE DEF Holds, ShardOf
  <2>. QED
    BY <2>1, <2>2, <2>3 DEF Exclusive, Writes
<1>3. ASSUME NEW t \in Threads, CountRecovery(t) PROVE Kept
  BY <1>3 DEF CountRecovery
<1>4. ASSUME NEW t \in Threads, ClearPoison(t) PROVE Kept
  BY <1>4 DEF ClearPoison
<1>5. ASSUME NEW t \in Threads, Lookup(t) PROVE Kept
  BY <1>5 DEF Lookup
<1>6. ASSUME NEW t \in Threads, Change(t) PROVE Kept
  BY <1>6 DEF Change
<1>7. ASSUME NEW t \in Threads, Count(t) PROVE Kept
  BY <1>7 DEF Count
<1>8. ASSUME NEW t \in Threads, Unlock(t) PROVE Kept
  BY <1>8 DEF Unlock, MoreShards
<1>9. ASSUME NEW t \in Threads, Panic(t) PROVE Kept
  BY <1>9 DEF Panic
<1>10. ASSUME NEW t \in Threads, Return(t) PROVE Kept
  BY <1>10 DEF Return
<1>11. ASSUME UNCHANGED storevars PROVE Kept
  BY <1>11 DEF storevars
<1>. HIDE DEF TypeOK, Goto, Holds, ShardOf
<1>12. Kept => Exclusive'
  BY ExclusiveKept
<1>. HIDE DEF Kept
<1>. QED
  BY <1>1, <1>2, <1>3, <1>4, <1>5, <1>6, <1>7, <1>8, <1>9, <1>10, <1>11, <1>12
     DEF Next

\* What a thread found stays true while it holds the lock: no other thread
\* changes a key of its shard.
LEMMA ProgressStep ==
  ASSUME TypeOK, Progress, Exclusive, [Next]_storevars
  PROVE  Progress'
<1>. USE DEF TypeOK, Goto, Progress
<1>1. ASSUME NEW t \in Threads, NEW o \in Operations, Call(t, o) PROVE Progress'
  BY <1>1, OperationShape DEF Call
<1>2. ASSUME NEW t \in Threads, Lock(t) PROVE Progress'
  BY <1>2 DEF Lock
<1>3. ASSUME NEW t \in Threads, CountRecovery(t) PROVE Progress'
  BY <1>3 DEF CountRecovery
<1>4. ASSUME NEW t \in Threads, ClearPoison(t) PROVE Progress'
  BY <1>4 DEF ClearPoison
<1>5. ASSUME NEW t \in Threads, Lookup(t) PROVE Progress'
  BY <1>5 DEF Lookup
<1>6. ASSUME NEW t \in Threads, Change(t) PROVE Progress'
  <2>1. call[t].kind \in {"put", "delete"} /\ call[t].key \in Keys
    BY <1>6, OperationShape DEF Change
  <2>2. \A u \in Threads : u # t /\ pc[u] = "change" => call[u].key # call[t].key
    <3>1. SUFFICES ASSUME NEW u \in Threads, u # t, pc[u] = "change",
                          call[u].key = call[t].key
                   PROVE  FALSE
      OBVIOUS
    <3>2. Holds(t) /\ Holds(u) /\ ShardOf(t) = ShardOf(u)
      BY <1>6, <2>1, <3>1 DEF Change, Holds, ShardOf
    <3>3. ~Writes(call[t].kind)
      BY <3>1, <3>2 DEF Exclusive
    <3>. QED
      BY <2>1, <3>3 DEF Writes
  <2>3. \A u \in Threads : pc'[u] = "change" =>
          u # t /\ pc[u] = "change" /\ content'[call[u].key] = content[call[u].key]
    <3>1. SUFFICES ASSUME NEW u \in Threads, pc'[u] = "change"
                   PROVE  u # t /\ pc[u] = "change"
                          /\ content'[call[u].key] = content[call[u].key]
      OBVIOUS
    <3>2. u # t /\ pc[u] = "change"
      BY <1>6, <3>1 DEF Change
    <3>3. call[u].key \in Keys
      BY <3>2, OperationShape
    <3>. QED
      BY <1>6, <2>1, <2>2, <3>2, <3>3 DEF Change
  <2>. QED
    BY <1>6, <2>1, <2>3 DEF Change
<1>7. ASSUME NEW t \in Threads, Count(t) PROVE Progress'
  BY <1>7 DEF Count
<1>8. ASSUME NEW t \in Threads, Unlock(t) PROVE Progress'
  BY <1>8 DEF Unlock, MoreShards
<1>9. ASSUME NEW t \in Threads, Panic(t) PROVE Progress'
  BY <1>9 DEF Panic
<1>10. ASSUME NEW t \in Threads, Return(t) PROVE Progress'
  BY <1>10 DEF Return, NoCall
<1>11. CASE UNCHANGED storevars
  BY <1>11 DEF storevars
<1>. HIDE DEF TypeOK, Goto, Progress
<1>. QED
  BY <1>1, <1>2, <1>3, <1>4, <1>5, <1>6, <1>7, <1>8, <1>9, <1>10, <1>11 DEF Next

-----------------------------------------------------------------------------
\* The invariant holds at first.
LEMMA StoreInvInit ==
  ASSUME Init
  PROVE  StoreInv
<1>. USE StoreAssumption DEF Init
<1>1. 1 \in Shards
  BY DEF Shards
<1>2. TypeOK
  BY <1>1 DEF TypeOK
<1>3. Exclusive
  BY DEF Exclusive, Holds
<1>4. Progress
  BY DEF Progress, NoCall
<1>. QED
  BY <1>2, <1>3, <1>4 DEF StoreInv

\* Mutual exclusion on every shard, and what each thread knows under it.
THEOREM StoreInvariant == Spec => []StoreInv
<1>1. Init => StoreInv
  BY StoreInvInit
<1>2. StoreInv /\ [Next]_storevars => StoreInv'
  BY TypeStep, ExclusiveStep, ProgressStep DEF StoreInv
<1>. QED
  BY <1>1, <1>2, PTL DEF Spec

-----------------------------------------------------------------------------
(***************************************************************************)
(* Poison accounting.                                                      *)
(***************************************************************************)

\* The shards whose current poisoning nobody has counted yet.
Uncounted == {s \in Shards : poisoned[s] /\ ~Counted(s)}

\* The recoveries not yet counted are finitely many.
LEMMA FiniteUncounted ==
  /\ IsFiniteSet(Uncounted) /\ Cardinality(Uncounted) \in Nat
  /\ IsFiniteSet(Uncounted') /\ Cardinality(Uncounted') \in Nat
<1>1. IsFiniteSet(Shards)
  BY StoreAssumption, FS_Interval DEF Shards
<1>2. Uncounted \in SUBSET Shards /\ Uncounted' \in SUBSET Shards
  BY DEF Uncounted
<1>. QED
  BY <1>1, <1>2, FS_Subset, FS_CardinalityType

\* A shard is being cleared exactly by the threads at "clear" whose call
\* names it.
LEMMA CountedKept ==
  ASSUME \A t \in Threads : (pc[t] = "clear") <=> (pc'[t] = "clear"),
         \A t \in Threads : pc[t] = "clear" => ShardOf(t)' = ShardOf(t),
         poisoned' = poisoned
  PROVE  Uncounted' = Uncounted
BY DEF Uncounted, Counted, Holders, Holds

\* note_recovery counts before it clears and does both under the guard, and a
\* shard is poisoned only by a thread that holds it alone.
LEMMA CountingStep ==
  ASSUME StoreInv, EveryPoisoningCounted, [Next]_storevars
  PROVE  EveryPoisoningCounted'
<1>. DEFINE Same == /\ UNCHANGED <<poisoned, recoveries, poisonings>>
                    /\ \A t \in Threads : (pc[t] = "clear") <=> (pc'[t] = "clear")
                    /\ \A t \in Threads : pc[t] = "clear" => ShardOf(t)' = ShardOf(t)
<1>0. /\ EveryPoisoningCounted <=> poisonings <= recoveries + Cardinality(Uncounted)
      /\ EveryPoisoningCounted' <=> poisonings' <= recoveries' + Cardinality(Uncounted')
      /\ recoveries \in Nat /\ poisonings \in Nat
  BY DEF EveryPoisoningCounted, Uncounted, StoreInv, TypeOK
<1>a. ASSUME Same PROVE EveryPoisoningCounted'
  BY <1>0, <1>a, CountedKept
<1>. USE DEF StoreInv, TypeOK, Goto, ShardOf
<1>1. ASSUME NEW t \in Threads, NEW o \in Operations, Call(t, o) PROVE Same
  BY <1>1 DEF Call
<1>2. ASSUME NEW t \in Threads, Lock(t) PROVE Same
  BY <1>2 DEF Lock
<1>3. ASSUME NEW t \in Threads, CountRecovery(t) PROVE EveryPoisoningCounted'
  <2>. DEFINE s == ShardOf(t)
  <2>1. \A u \in Threads : ShardOf(u)' = ShardOf(u)
    BY <1>3 DEF CountRecovery
  <2>2. \A u \in Threads : u # t => pc'[u] = pc[u]
    BY <1>3 DEF CountRecovery
  <2>3. poisoned' = poisoned /\ poisonings' = poisonings
        /\ recoveries' = recoveries + 1 /\ pc[t] = "count"
    BY <1>3 DEF CountRecovery
  <2>. HIDE DEF ShardOf
  <2>4. \A x \in Shards : x # s => (Counted(x)' <=> Counted(x))
    BY <2>1, <2>2, <2>3 DEF Counted, Holders, Holds
  <2>5. Uncounted \ {s} \subseteq Uncounted'
    BY <2>3, <2>4 DEF Uncounted
  <2>. HIDE DEF s
  <2>6. Cardinality(Uncounted \ {s}) <= Cardinality(Uncounted')
    BY <2>5, FiniteUncounted, FS_Subset
  <2>7. /\ Cardinality(Uncounted \ {s}) =
             IF s \in Uncounted THEN Cardinality(Uncounted) - 1 ELSE Cardinality(Uncounted)
    BY FiniteUncounted, FS_RemoveElement
  <2>. QED
    BY <1>0, <2>3, <2>6, <2>7, FiniteUncounted
<1>4. ASSUME NEW t \in Threads, ClearPoison(t) PROVE EveryPoisoningCounted'
  <2>. DEFINE s == ShardOf(t)
  <2>1. \A u \in Threads : ShardOf(u)' = ShardOf(u)
    BY <1>4 DEF ClearPoison
  <2>2. \A u \in Threads : u # t => pc'[u] = pc[u]
    BY <1>4 DEF ClearPoison
  <2>3. /\ poisoned' = [poisoned EXCEPT ![s] = FALSE]
        /\ UNCHANGED <<poisonings, recoveries>> /\ pc[t] = "clear"
    BY <1>4 DEF ClearPoison
  <2>. HIDE DEF ShardOf
  <2>4. Counted(s)
    BY <2>3 DEF Counted, Holders, Holds
  <2>5. \A x \in Shards : x # s => (Counted(x)' => Counted(x))
    BY <2>1, <2>2, <2>3 DEF Counted, Holders, Holds
  <2>6. Uncounted \subseteq Uncounted'
    BY <2>3, <2>4, <2>5 DEF Uncounted
  <2>7. Cardinality(Uncounted) <= Cardinality(Uncounted')
    BY <2>6, FiniteUncounted, FS_Subset
  <2>. QED
    BY <1>0, <2>3, <2>7, FiniteUncounted
<1>5. ASSUME NEW t \in Threads, Lookup(t) PROVE Same
  BY <1>5 DEF Lookup
<1>6. ASSUME NEW t \in Threads, Change(t) PROVE Same
  BY <1>6 DEF Change
<1>7. ASSUME NEW t \in Threads, Count(t) PROVE Same
  BY <1>7 DEF Count
<1>8. ASSUME NEW t \in Threads, Unlock(t) PROVE Same
  BY <1>8 DEF Unlock, MoreShards
<1>9. ASSUME NEW t \in Threads, Panic(t) PROVE EveryPoisoningCounted'
  <2>. DEFINE s == ShardOf(t)
  <2>1. \A u \in Threads : ShardOf(u)' = ShardOf(u)
    BY <1>9 DEF Panic
  <2>2. \A u \in Threads : u # t => pc'[u] = pc[u]
    BY <1>9 DEF Panic
  <2>3. /\ poisoned' = [poisoned EXCEPT ![s] = TRUE]
        /\ poisonings' = poisonings + (IF poisoned[s] THEN 0 ELSE 1)
        /\ recoveries' = recoveries /\ pc[t] = "held" /\ pc'[t] = "return"
        /\ call[t].kind = "panic"
    BY <1>9 DEF Panic
  <2>. HIDE DEF ShardOf
  <2>4. call[t] \in Operations
    BY <2>3 DEF Progress
  <2>5. s \in Shards
    BY <2>4, ShardOfType
  <2>6. \A x \in Shards : Counted(x)' <=> Counted(x)
    BY <2>1, <2>2, <2>3 DEF Counted, Holders, Holds
  <2>7. ~Counted(s)
    \* t holds the lock to write, so it holds it alone.
    BY <2>3 DEF Exclusive, Writes, Counted, Holders, Holds
  <2>8. Uncounted' = Uncounted \union {s}
    BY <2>3, <2>5, <2>6, <2>7 DEF Uncounted
  <2>9. s \in Uncounted <=> poisoned[s]
    BY <2>5, <2>7 DEF Uncounted
  <2>. HIDE DEF s
  <2>10. Cardinality(Uncounted') =
           Cardinality(Uncounted) + (IF poisoned[s] THEN 0 ELSE 1)
    BY <2>8, <2>9, FiniteUncounted, FS_AddElement
  <2>. QED
    BY <1>0, <2>3, <2>10, FiniteUncounted
<1>10. ASSUME NEW t \in Threads, Return(t) PROVE Same
  BY <1>10 DEF Return
<1>11. ASSUME UNCHANGED storevars PROVE Same
  BY <1>11 DEF storevars
<1>. HIDE DEF StoreInv, TypeOK, Goto, ShardOf, Same
<1>. QED
  BY <1>a, <1>1, <1>2, <1>3, <1>4, <1>5, <1>6, <1>7, <1>8, <1>9, <1>10, <1>11
     DEF Next

\* poison_recoveries never misses a panic, under any interleaving.
THEOREM PoisoningsCounted == Spec => []EveryPoisoningCounted
<1>1. Init => EveryPoisoningCounted
  <2>1. Init => Uncounted = {}
    BY DEF Init, Uncounted
  <2>2. EveryPoisoningCounted <=> poisonings <= recoveries + Cardinality(Uncounted)
    BY DEF EveryPoisoningCounted, Uncounted
  <2>3. Cardinality({}) = 0
    BY FS_EmptySet
  <2>. QED
    BY <2>1, <2>2, <2>3 DEF Init
<1>2. StoreInv /\ EveryPoisoningCounted /\ [Next]_storevars => EveryPoisoningCounted'
  BY CountingStep
<1>. QED
  BY <1>1, <1>2, StoreInvariant, PTL DEF Spec

-----------------------------------------------------------------------------
(***************************************************************************)
(* Linearizability.  A get takes effect at its lookup, a put or a delete   *)
(* at the change: what it looked up before is still there, by StoreInv.    *)
(***************************************************************************)

\* Every step of the store is a step of the contract or invisible to clients.
LEMMA ContractStep ==
  ASSUME StoreInv, [Next]_storevars
  PROVE  [Contract!Next]_(Contract!mvars)
<1>. DEFINE Hidden == UNCHANGED <<content, call>>
                      /\ \A u \in Threads : /\ Status(u)' = Status(u)
                                            /\ (Status(u) = "applied" => answer'[u] = answer[u])
<1>a. ASSUME Hidden PROVE UNCHANGED Contract!mvars
  BY <1>a DEF Contract!mvars
<1>. USE DEF StoreInv, TypeOK, Goto, Status
<1>1. ASSUME NEW t \in Threads, NEW o \in Operations, Call(t, o)
      PROVE  Contract!Invoke(t, o)
  BY <1>1 DEF Call, Contract!Invoke
<1>2. ASSUME NEW t \in Threads, Lock(t) PROVE Hidden
  BY <1>2 DEF Lock
<1>3. ASSUME NEW t \in Threads, CountRecovery(t) PROVE Hidden
  BY <1>3 DEF CountRecovery
<1>4. ASSUME NEW t \in Threads, ClearPoison(t) PROVE Hidden
  BY <1>4 DEF ClearPoison
<1>5. ASSUME NEW t \in Threads, Lookup(t), call[t].kind # "get" PROVE Hidden
  BY <1>5 DEF Lookup
<1>6. ASSUME NEW t \in Threads, Lookup(t), call[t].kind = "get"
      PROVE  Contract!Apply(t)
  BY <1>6 DEF Lookup, Contract!Apply, Contract!Effect
<1>7. ASSUME NEW t \in Threads, Change(t) PROVE Contract!Apply(t)
  <2>1. answer[t] = content[call[t].key] /\ call[t].kind \in {"put", "delete"}
    BY <1>7 DEF Change, Progress
  <2>2. content' = Contract!Effect(call[t])
    BY <1>7, <2>1 DEF Change, Contract!Effect
  <2>. QED
    BY <1>7, <2>1, <2>2 DEF Change, Contract!Apply
<1>8. ASSUME NEW t \in Threads, Count(t) PROVE Hidden
  BY <1>8 DEF Count
<1>9. ASSUME NEW t \in Threads, Unlock(t), call[t].kind # "len" PROVE Hidden
  BY <1>9 DEF Unlock, MoreShards
<1>10. ASSUME NEW t \in Threads, Unlock(t), call[t].kind = "len"
       PROVE  Hidden \/ Contract!ApplyOther(t)
  <2>1. CASE cursor[t] < NumShards
    BY <1>10, <2>1 DEF Unlock, MoreShards
  <2>2. CASE ~(cursor[t] < NumShards)
    <3>1. answer[t] = Nil
      BY <1>10 DEF Progress
    <3>2. Contract!ApplyOther(t)
      BY <1>10, <2>2, <3>1 DEF Unlock, MoreShards, Contract!ApplyOther
    <3>. QED
      BY <3>2
  <2>. QED
    BY <2>1, <2>2
<1>11. ASSUME NEW t \in Threads, Panic(t) PROVE Contract!ApplyOther(t)
  <2>1. answer[t] = Nil
    BY <1>11 DEF Panic, Progress
  <2>. QED
    BY <1>11, <2>1 DEF Panic, Contract!ApplyOther
<1>12. ASSUME NEW t \in Threads, Return(t) PROVE Contract!Return(t)
  BY <1>12 DEF Return, Contract!Return, NoCall, Contract!Idle
<1>13. ASSUME UNCHANGED storevars PROVE Hidden
  BY <1>13 DEF storevars
<1>. HIDE DEF StoreInv, TypeOK, Goto, Status, Hidden
<1>. QED
  BY <1>a, <1>1, <1>2, <1>3, <1>4, <1>5, <1>6, <1>7, <1>8, <1>9, <1>10, <1>11,
     <1>12, <1>13 DEF Next, Contract!Next

\* The sharded store implements the atomic map for every routing and every
\* pattern of poisonings and recoveries.
THEOREM Linearizable == Spec => ImplementsAtomicMap
<1>1. Init => Contract!Init
  BY DEF Init, Contract!Init, Status, NoCall, Contract!Idle
<1>2. StoreInv /\ [Next]_storevars => [Contract!Next]_(Contract!mvars)
  BY ContractStep
<1>. QED
  BY <1>1, <1>2, StoreInvariant, PTL DEF Spec, ImplementsAtomicMap, Contract!Spec

-----------------------------------------------------------------------------
\* The shards thread t's len() has counted, and the entries it found there.
Visited(t) == {s \in Shards : \/ s < cursor[t]
                              \/ s = cursor[t] /\ pc[t] \in {"unlock", "return"}}
Found(t) == {k \in Keys : content[k] # Nil /\ router[k] \in Visited(t)}

\* While no map has changed, a len() has counted exactly the entries of the
\* shards it has visited; between calls its counters are back at the start.
CountOf(t) ==
  /\ call[t].kind = "len" /\ quiet[t] => sum[t] = Cardinality(Found(t))
  /\ call[t].kind = "len" /\ pc[t] = "return" => cursor[t] = NumShards
  /\ call[t].kind = "len" => pc[t] # "change"
  /\ pc[t] = "idle" => cursor[t] = 1 /\ sum[t] = 0

CountSoFar == \A t \in Threads : CountOf(t)

\* The entries of some shards are finitely many.
LEMMA FiniteFound ==
  ASSUME NEW S
  PROVE  LET F == {k \in Keys : content[k] # Nil /\ router[k] \in S}
         IN  IsFiniteSet(F) /\ Cardinality(F) \in Nat
<1>. DEFINE F == {k \in Keys : content[k] # Nil /\ router[k] \in S}
<1>1. F \in SUBSET Keys /\ IsFiniteSet(Keys)
  BY StoreAssumption
<1>2. IsFiniteSet(F)
  BY <1>1, FS_Subset
<1>. QED
  BY <1>2, FS_CardinalityType

\* Counting one more shard adds its entries, and none is counted twice.
LEMMA OneMoreShard ==
  ASSUME TypeOK, NEW c \in Shards
  PROVE  Cardinality({k \in Keys : content[k] # Nil /\ router[k] \in 1..c})
         = Cardinality({k \in Keys : content[k] # Nil /\ router[k] \in 1..(c - 1)})
           + ShardLen(c)
<1>. DEFINE F(S) == {k \in Keys : content[k] # Nil /\ router[k] \in S}
            A == F(1..(c - 1))
            B == {k \in Keys : router[k] = c /\ content[k] # Nil}
<1>1. IsFiniteSet(A) /\ Cardinality(A) \in Nat
  BY FiniteFound
<1>2. B = F({c})
  OBVIOUS
<1>3. IsFiniteSet(B) /\ Cardinality(B) \in Nat
  BY <1>2, FiniteFound
<1>4. \A k \in Keys : router[k] \in Int
  BY DEF TypeOK, Shards
<1>5. F(1..c) = A \union B
  BY <1>4, StoreAssumption DEF Shards
<1>6. A \cap B = {}
  BY <1>4, StoreAssumption DEF Shards
<1>7. Cardinality(A \union B) = Cardinality(A) + Cardinality(B) - Cardinality(A \cap B)
  BY <1>1, <1>3, FS_Union, Zenon
<1>8. Cardinality({}) = 0
  BY FS_EmptySet
<1>9. Cardinality(A \cap B) = 0
  BY <1>6, <1>8
<1>10. Cardinality(A \union B) = Cardinality(A) + Cardinality(B)
  <2>. HIDE DEF A, B, F
  <2>. QED
    BY <1>1, <1>3, <1>7, <1>9
<1>11. Cardinality(F(1..c)) = Cardinality(A) + Cardinality(B)
  BY <1>5, <1>10, Zenon
<1>. QED
  BY <1>11 DEF ShardLen

\* A step that leaves the maps alone, and of thread t everything its count
\* depends on, keeps the count.
LEMMA CountKept ==
  ASSUME NEW t \in Threads, CountOf(t),
         UNCHANGED <<content, router>>,
         call'[t] = call[t], quiet'[t] = quiet[t],
         sum'[t] = sum[t], cursor'[t] = cursor[t],
         pc'[t] \in {"unlock", "return"} <=> pc[t] \in {"unlock", "return"},
         pc'[t] = pc[t] \/ pc'[t] \notin {"idle", "return", "change"}
  PROVE  CountOf(t)'
<1>1. Visited(t)' = Visited(t)
  BY DEF Visited
<1>2. Found(t)' = Found(t)
  BY <1>1 DEF Found
<1>. QED
  BY <1>2 DEF CountOf

\* A count that is not running has no entry to match.
LEMMA CountIdle ==
  ASSUME NEW t \in Threads, call'[t].kind # "len",
         pc'[t] = "idle" => cursor'[t] = 1 /\ sum'[t] = 0
  PROVE  CountOf(t)'
BY DEF CountOf

\* What a thread has counted stays exact: a shard is added once, when it is
\* visited, and a map that changes ends every quiet count.
LEMMA CountStep ==
  ASSUME StoreInv, CountSoFar, [Next]_storevars
  PROVE  CountSoFar'
<1>. USE DEF StoreInv, TypeOK, Goto
<1>. SUFFICES ASSUME NEW u \in Threads
              PROVE  CountOf(u)'
  BY DEF CountSoFar
<1>a. CountOf(u)
  BY DEF CountSoFar
<1>1. ASSUME NEW t \in Threads, NEW o \in Operations, Call(t, o) PROVE CountOf(u)'
  <2>1. CASE u # t
    BY <1>a, <1>1, <2>1, CountKept DEF Call
  <2>2. CASE u = t
    <3>1. cursor'[u] = 1 /\ sum'[u] = 0 /\ pc'[u] = "lock"
      BY <1>a, <1>1, <2>2 DEF Call, CountOf
    <3>2. Found(u)' = {}
      BY <3>1 DEF Found, Visited, Shards
    <3>3. Cardinality({}) = 0
      BY FS_EmptySet
    <3>. QED
      BY <3>1, <3>2, <3>3 DEF CountOf
  <2>. QED
    BY <2>1, <2>2
<1>2. ASSUME NEW t \in Threads, Lock(t) PROVE CountOf(u)'
  BY <1>a, <1>2, CountKept DEF Lock
<1>3. ASSUME NEW t \in Threads, CountRecovery(t) PROVE CountOf(u)'
  BY <1>a, <1>3, CountKept DEF CountRecovery
<1>4. ASSUME NEW t \in Threads, ClearPoison(t) PROVE CountOf(u)'
  BY <1>a, <1>4, CountKept DEF ClearPoison
<1>5. ASSUME NEW t \in Threads, Lookup(t) PROVE CountOf(u)'
  <2>1. CASE u # t
    BY <1>a, <1>5, <2>1, CountKept DEF Lookup
  <2>2. CASE u = t
    BY <1>5, <2>2, CountIdle DEF Lookup
  <2>. QED
    BY <2>1, <2>2
<1>6. ASSUME NEW t \in Threads, Change(t) PROVE CountOf(u)'
  <2>1. quiet'[u] = (quiet[u] /\ call[u].kind # "len")
    BY <1>6 DEF Change
  <2>2. call'[u] = call[u] /\ cursor'[u] = cursor[u] /\ sum'[u] = sum[u]
    BY <1>6 DEF Change
  <2>3. ~(call'[u].kind = "len" /\ quiet'[u])
    BY <2>1, <2>2
  <2>4. CASE u # t
    <3>1. pc'[u] = pc[u]
      BY <1>6, <2>4 DEF Change
    <3>. QED
      BY <1>a, <2>2, <2>3, <3>1 DEF CountOf
  <2>5. CASE u = t
    <3>1. pc'[u] = "unlock"
      BY <1>6, <2>5 DEF Change
    <3>. QED
      BY <2>3, <3>1 DEF CountOf
  <2>. QED
    BY <2>4, <2>5
<1>7. ASSUME NEW t \in Threads, Count(t) PROVE CountOf(u)'
  <2>1. CASE u # t
    BY <1>a, <1>7, <2>1, CountKept DEF Count
  <2>2. CASE u = t
    <3>1. /\ call[u].kind = "len" /\ pc[u] = "held" /\ pc'[u] = "unlock"
          /\ cursor'[u] = cursor[u] /\ cursor[u] \in Shards
          /\ sum'[u] = sum[u] + ShardLen(cursor[u])
          /\ quiet'[u] = quiet[u] /\ content' = content /\ router' = router
      BY <1>7, <2>2 DEF Count
    <3>2. Visited(u) = 1..(cursor[u] - 1) /\ Visited(u)' = 1..cursor[u]
      BY <3>1, StoreAssumption DEF Visited, Shards
    <3>3. Cardinality(Found(u)') = Cardinality(Found(u)) + ShardLen(cursor[u])
      BY <3>1, <3>2, OneMoreShard DEF Found
    <3>4. call[u].kind = "len" /\ quiet[u] => sum[u] = Cardinality(Found(u))
      BY <1>a DEF CountOf
    <3>5. call'[u] = call[u]
      BY <1>7 DEF Count
    <3>. QED
      BY <3>1, <3>3, <3>4, <3>5 DEF CountOf
  <2>. QED
    BY <2>1, <2>2
<1>8. ASSUME NEW t \in Threads, Unlock(t) PROVE CountOf(u)'
  <2>1. CASE u # t
    BY <1>a, <1>8, <2>1, CountKept DEF Unlock, MoreShards
  <2>2. CASE u = t /\ call[t].kind # "len"
    BY <1>8, <2>2, CountIdle DEF Unlock, MoreShards
  <2>3. CASE u = t /\ call[t].kind = "len"
    <3>1. /\ pc[u] = "unlock" /\ cursor[u] \in Shards
          /\ UNCHANGED <<content, router>> /\ call'[u] = call[u]
          /\ quiet'[u] = quiet[u] /\ sum'[u] = sum[u]
      BY <1>8, <2>3 DEF Unlock
    <3>2. \/ cursor[u] < NumShards /\ cursor'[u] = cursor[u] + 1 /\ pc'[u] = "lock"
          \/ ~(cursor[u] < NumShards) /\ cursor'[u] = cursor[u] /\ pc'[u] = "return"
      BY <1>8, <2>3 DEF Unlock, MoreShards
    <3>3. Visited(u)' = Visited(u)
      BY <3>1, <3>2, StoreAssumption DEF Visited, Shards
    <3>4. Found(u)' = Found(u)
      BY <3>1, <3>3 DEF Found
    <3>5. pc'[u] = "return" => cursor'[u] = NumShards
      BY <3>1, <3>2, StoreAssumption DEF Shards
    <3>. QED
      BY <1>a, <3>1, <3>2, <3>4, <3>5 DEF CountOf
  <2>. QED
    BY <2>1, <2>2, <2>3
<1>9. ASSUME NEW t \in Threads, Panic(t) PROVE CountOf(u)'
  <2>1. CASE u # t
    BY <1>a, <1>9, <2>1, CountKept DEF Panic
  <2>2. CASE u = t
    BY <1>9, <2>2, CountIdle DEF Panic
  <2>. QED
    BY <2>1, <2>2
<1>10. ASSUME NEW t \in Threads, Return(t) PROVE CountOf(u)'
  <2>1. CASE u # t
    BY <1>a, <1>10, <2>1, CountKept DEF Return
  <2>2. CASE u = t
    BY <1>10, <2>2, CountIdle DEF Return, NoCall
  <2>. QED
    BY <2>1, <2>2
<1>11. CASE UNCHANGED storevars
  BY <1>a, <1>11, CountKept DEF storevars
<1>. HIDE DEF StoreInv, TypeOK, Goto
<1>. QED
  BY <1>1, <1>2, <1>3, <1>4, <1>5, <1>6, <1>7, <1>8, <1>9, <1>10, <1>11 DEF Next

\* A len() during which no map changes returns the number of entries of the
\* whole store: no shard is skipped or counted twice, for every routing.
THEOREM LenExact == Spec => []LenExactWhenQuiet
<1>1. Init => CountSoFar
  BY DEF Init, CountSoFar, CountOf, NoCall
<1>2. StoreInv /\ CountSoFar /\ [Next]_storevars => CountSoFar'
  BY CountStep
<1>3. StoreInv /\ CountSoFar => LenExactWhenQuiet
  <2>. SUFFICES ASSUME StoreInv, CountSoFar, NEW t \in Threads,
                       pc[t] = "return", call[t].kind = "len", quiet[t]
                PROVE  sum[t] = Cardinality({k \in Keys : content[k] # Nil})
    BY DEF LenExactWhenQuiet
  <2>1. cursor[t] = NumShards /\ sum[t] = Cardinality(Found(t))
    BY DEF CountSoFar, CountOf
  <2>2. Visited(t) = Shards
    BY <2>1, StoreAssumption DEF Visited, Shards
  <2>3. Found(t) = {k \in Keys : content[k] # Nil}
    BY <2>2 DEF Found, StoreInv, TypeOK
  <2>. QED
    BY <2>1, <2>3
<1>. QED
  BY <1>1, <1>2, <1>3, StoreInvariant, PTL DEF Spec
=============================================================================
