--------------------------- MODULE MCShardedStore ---------------------------
(***************************************************************************)
(* The sharded store for TLC: threads, keys and values are interchangeable *)
(* (the invariants and the contract treat them alike), shards are not.     *)
(***************************************************************************)
EXTENDS ShardedStore, TLC

Interchangeable ==
  Permutations(Threads) \union Permutations(Keys) \union Permutations(Values)
=============================================================================
