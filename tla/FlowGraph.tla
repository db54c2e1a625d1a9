----------------------------- MODULE FlowGraph -----------------------------
(***************************************************************************)
(* Reachability in a control-flow graph, given as the set of successors of *)
(* each block: what the analyses are measured against.                     *)
(***************************************************************************)

\* What can be reached from bs on the way through the blocks of through: the
\* least set that has bs and, with a block of through, its successors.
ClosedFrom(succs, bs, through) ==
  {T \in SUBSET DOMAIN succs : bs \subseteq T /\ \A b \in T \cap through : succs[b] \subseteq T}
Spread(succs, bs, through) == {b \in DOMAIN succs : \A T \in ClosedFrom(succs, bs, through) : b \in T}
=============================================================================
