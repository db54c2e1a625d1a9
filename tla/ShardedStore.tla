---------------------------- MODULE ShardedStore ----------------------------
(***************************************************************************)
(* The store of ferrite v1 and v2: a vector of RwLock<HashMap>, a keyed    *)
(* hash that routes each key to a shard, and the poisoning policy recover, *)
(* count and clear.  A step is one lock operation, one atomic operation or *)
(* one half of a map operation: insert and remove look the old value up    *)
(* and then change the map, and only the lock keeps others out between.    *)
(***************************************************************************)
EXTENDS Integers, FiniteSets

CONSTANTS Threads, Keys, Values,
          NumShards,
          Nil,            \* Option::None
          MaxPoisonings   \* bound: how many panics happen under a lock

ASSUME StoreAssumption ==
  /\ NumShards \in Nat \ {0} /\ Nil \notin Values
  /\ IsFiniteSet(Keys) /\ IsFiniteSet(Threads)

VARIABLES
  router,       \* router[k]: the shard of key k (RandomState, fixed per store)
  content,      \* content[k]: what k's shard maps k to, or Nil
  poisoned,     \* poisoned[s]: the RwLock's poison flag
  recoveries,   \* poison_recoveries
  pc, call,     \* what thread t executes, and how far it is
  answer,       \* answer[t]: the Option the map operation found
  cursor, sum,  \* len(): the shard being counted and the sum so far
  poisonings,   \* history: how often a shard went from clean to poisoned
  quiet         \* history: no map has changed since thread t's len() began

storevars == <<router, content, poisoned, recoveries, pc, call, answer,
               cursor, sum, poisonings, quiet>>

Shards == 1..NumShards
NoCall == [kind |-> "none"]

Operations ==
  [kind : {"get", "delete", "panic"}, key : Keys]
    \union [kind : {"put"}, key : Keys, value : Values]
    \union {[kind |-> "len"]}

\* ShardedStore::new, with any routing the random hasher may produce.
Init ==
  /\ router \in [Keys -> Shards]
  /\ content = [k \in Keys |-> Nil]
  /\ poisoned = [s \in Shards |-> FALSE]
  /\ recoveries = 0 /\ poisonings = 0
  /\ pc = [t \in Threads |-> "idle"]
  /\ call = [t \in Threads |-> NoCall]
  /\ answer = [t \in Threads |-> Nil]
  /\ cursor = [t \in Threads |-> 1]
  /\ sum = [t \in Threads |-> 0]
  /\ quiet = [t \in Threads |-> TRUE]

Goto(t, l) == pc' = [pc EXCEPT ![t] = l]

\* The shard thread t works on: its key's, or the one len() has reached.
ShardOf(t) == IF call[t].kind = "len" THEN cursor[t] ELSE router[call[t].key]

\* Seeded fault: delete takes the lock for reading.
DeleteReads(kind) == kind \in {"put", "panic"}

\* put and delete call write(), get and len call read().
Writes(kind) == kind \in {"put", "delete", "panic"}

Holds(t) == pc[t] \in {"count", "clear", "held", "change", "unlock"}
Holders(s) == {t \in Threads : Holds(t) /\ ShardOf(t) = s}

Call(t, o) ==
  /\ pc[t] = "idle"
  /\ o.kind = "panic" => poisonings < MaxPoisonings
  /\ call' = [call EXCEPT ![t] = o]
  /\ Goto(t, "lock")
  /\ UNCHANGED <<router, content, poisoned, recoveries, answer, cursor, sum,
                 poisonings, quiet>>

\* read() and write(): the lock is granted, and only then is the flag read;
\* a poisoned lock is granted too, inside the error.  poison_shard_of unwraps
\* the error instead of recovering, so it goes on to panic either way.
Lock(t) ==
  /\ pc[t] = "lock"
  /\ \A u \in Holders(ShardOf(t)) : ~Writes(call[t].kind) /\ ~Writes(call[u].kind)
  /\ Goto(t, IF poisoned[ShardOf(t)] /\ call[t].kind # "panic" THEN "count" ELSE "held")
  /\ UNCHANGED <<router, content, poisoned, recoveries, call, answer,
                 cursor, sum, poisonings, quiet>>

\* note_recovery, first statement.
CountRecovery(t) ==
  /\ pc[t] = "count"
  /\ recoveries' = recoveries + 1
  /\ Goto(t, "clear")
  /\ UNCHANGED <<router, content, poisoned, call, answer, cursor, sum,
                 poisonings, quiet>>

\* Seeded fault: the flag of every shard is cleared.
ClearEvery(t) ==
  /\ pc[t] = "clear"
  /\ poisoned' = [s \in Shards |-> FALSE]
  /\ Goto(t, "held")
  /\ UNCHANGED <<router, content, recoveries, call, answer, cursor, sum,
                 poisonings, quiet>>

\* note_recovery, second statement; the guard is held throughout.
ClearPoison(t) ==
  /\ pc[t] = "clear"
  /\ poisoned' = [poisoned EXCEPT ![ShardOf(t)] = FALSE]
  /\ Goto(t, "held")
  /\ UNCHANGED <<router, content, recoveries, call, answer, cursor, sum,
                 poisonings, quiet>>

\* The lookup: all of a get, the first half of an insert or a remove.
Lookup(t) ==
  /\ pc[t] = "held" /\ call[t].kind \in {"get", "put", "delete"}
  /\ answer' = [answer EXCEPT ![t] = content[call[t].key]]
  /\ Goto(t, IF call[t].kind = "get" THEN "unlock" ELSE "change")
  /\ UNCHANGED <<router, content, poisoned, recoveries, call, cursor, sum,
                 poisonings, quiet>>

\* The second half of an insert or a remove.
Change(t) ==
  /\ pc[t] = "change"
  /\ content' = [content EXCEPT ![call[t].key] =
                   IF call[t].kind = "put" THEN call[t].value ELSE Nil]
  /\ quiet' = [u \in Threads |-> quiet[u] /\ call[u].kind # "len"]
  /\ Goto(t, "unlock")
  /\ UNCHANGED <<router, poisoned, recoveries, call, answer, cursor, sum,
                 poisonings>>

ShardLen(s) == Cardinality({k \in Keys : router[k] = s /\ content[k] # Nil})

\* len(): one shard is counted under its own read lock.
Count(t) ==
  /\ pc[t] = "held" /\ call[t].kind = "len"
  /\ sum' = [sum EXCEPT ![t] = @ + ShardLen(cursor[t])]
  /\ Goto(t, "unlock")
  /\ UNCHANGED <<router, content, poisoned, recoveries, call, answer, cursor,
                 poisonings, quiet>>

\* Seeded fault: the last shard is not visited.
MoreShardsButOne(t) == cursor[t] < NumShards - 1

MoreShards(t) == cursor[t] < NumShards

\* The guard is a temporary that dies at the end of its statement; len()
\* goes on with the next shard, having held no lock in between.
Unlock(t) ==
  /\ pc[t] = "unlock"
  /\ IF call[t].kind = "len" /\ MoreShards(t)
       THEN cursor' = [cursor EXCEPT ![t] = @ + 1] /\ Goto(t, "lock")
       ELSE UNCHANGED cursor /\ Goto(t, "return")
  /\ UNCHANGED <<router, content, poisoned, recoveries, call, answer, sum,
                 poisonings, quiet>>

\* The guard of a panicking writer is dropped: the flag is set, the lock freed.
Panic(t) ==
  /\ pc[t] = "held" /\ call[t].kind = "panic"
  /\ poisoned' = [poisoned EXCEPT ![ShardOf(t)] = TRUE]
  /\ poisonings' = poisonings + (IF poisoned[ShardOf(t)] THEN 0 ELSE 1)
  /\ Goto(t, "return")
  /\ UNCHANGED <<router, content, recoveries, call, answer, cursor, sum, quiet>>

Return(t) ==
  /\ pc[t] = "return"
  /\ Goto(t, "idle")
  /\ call' = [call EXCEPT ![t] = NoCall]
  /\ answer' = [answer EXCEPT ![t] = Nil]
  /\ cursor' = [cursor EXCEPT ![t] = 1]
  /\ sum' = [sum EXCEPT ![t] = 0]
  /\ quiet' = [quiet EXCEPT ![t] = TRUE]
  /\ UNCHANGED <<router, content, poisoned, recoveries, poisonings>>

Next == \E t \in Threads :
  \/ \E o \in Operations : Call(t, o)
  \/ Lock(t) \/ CountRecovery(t) \/ ClearPoison(t)
  \/ Lookup(t) \/ Change(t) \/ Count(t) \/ Unlock(t)
  \/ Panic(t) \/ Return(t)

Spec == Init /\ [][Next]_storevars
-----------------------------------------------------------------------------
\* Every variable has its type: len() indexes no shard that does not exist,
\* and a recovered lock leads only to the operation that was called.
TypeOK ==
  /\ router \in [Keys -> Shards]
  /\ content \in [Keys -> Values \union {Nil}]
  /\ poisoned \in [Shards -> BOOLEAN]
  /\ recoveries \in Nat /\ poisonings \in Nat
  /\ pc \in [Threads -> {"idle", "lock", "count", "clear", "held", "change",
                         "unlock", "return"}]
  /\ call \in [Threads -> Operations \union {NoCall}]
  /\ answer \in [Threads -> Values \union {Nil}]
  /\ cursor \in [Threads -> Shards]
  /\ sum \in [Threads -> Nat]
  /\ quiet \in [Threads -> BOOLEAN]

\* A shard whose poison somebody has counted and is about to clear.
Counted(s) == \E t \in Holders(s) : pc[t] = "clear"

\* The recoveries counter never misses a panic: a shard's poison is cleared
\* only by a thread that has counted it, and because note_recovery runs under
\* the guard it can never clear a poisoning newer than the one it counted.
EveryPoisoningCounted ==
  poisonings <= recoveries + Cardinality({s \in Shards : poisoned[s] /\ ~Counted(s)})

\* What the comment in note_recovery ("recover once, not on every later
\* access") and the test a_poisoned_shard_is_recovered_once ("counted once:
\* the flag was cleared") say: no poisoning is counted twice.
RecoveredOnce == recoveries <= poisonings

\* len() is no snapshot, but it is exact when no map changed while it ran:
\* no shard is skipped or counted twice, whatever the routing.
LenExactWhenQuiet ==
  \A t \in Threads :
    pc[t] = "return" /\ call[t].kind = "len" /\ quiet[t]
      => sum[t] = Cardinality({k \in Keys : content[k] # Nil})

Status(t) ==
  CASE pc[t] = "idle" -> "idle"
    [] pc[t] = "return" \/ (pc[t] = "unlock" /\ call[t].kind # "len") -> "applied"
    [] OTHER -> "pending"

\* The store is linearizable across shards and through recoveries: every
\* get, put and delete takes effect atomically under its shard's lock.
Contract == INSTANCE AtomicMap WITH
  status <- [t \in Threads |-> Status(t)],
  answer <- [t \in Threads |-> IF Status(t) = "applied" THEN answer[t] ELSE Nil]
ImplementsAtomicMap == Contract!Spec
=============================================================================
