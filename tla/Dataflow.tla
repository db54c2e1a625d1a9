------------------------------ MODULE Dataflow ------------------------------
(***************************************************************************)
(* Two analyses iterated to a fixpoint over a control-flow graph: definite *)
(* assignment (forward, must) and liveness (backward, may). Source:        *)
(* listings/part-17/ch06-03-dataflow.rs. The code works on a bit set of    *)
(* variables and every operation is bitwise, so one variable is followed.  *)
(***************************************************************************)
EXTENDS Integers, Sequences, FiniteSets, FlowGraph

CONSTANT FlowGraphs   \* records: events, a sequence of "def" and "use" per block; succs; param

\* A successor is a block of the graph.
ASSUME FlowGraphsAssumption ==
  \A g \in FlowGraphs : /\ g.events \in Seq(Seq({"def", "use"}))
                         /\ g.succs \in [DOMAIN g.events -> SUBSET DOMAIN g.events]
                         /\ g.param \in BOOLEAN

VARIABLES graph, analysis,
          fact,       \* assigned at the end of a block, or live at its start
          block,      \* the next block of this round, 0 between rounds
          changed, settled
flowVars == <<graph, analysis, fact, block, changed, settled>>

Nodes         == DOMAIN graph.succs
PredsOf(b)    == {p \in Nodes : b \in graph.succs[p]}
HasDef(b)     == \E i \in DOMAIN graph.events[b] : graph.events[b][i] = "def"
First(b)      == IF graph.events[b] = <<>> THEN "none" ELSE Head(graph.events[b])
\* Seeded fault: the must analysis starts from FALSE.
InitialBottom(kind) == FALSE
Initial(kind) == kind = "assigned"       \* top for must, bottom for may

AssignedIn(b) == IF b = 1 THEN graph.param ELSE \A p \in PredsOf(b) : fact[p]
Transfer(b)   == IF analysis = "assigned"
                 THEN AssignedIn(b) \/ HasDef(b)
                 ELSE \/ First(b) = "use"
                      \/ First(b) = "none" /\ \E s \in graph.succs[b] : fact[s]

FlowInit == /\ graph \in FlowGraphs
            /\ analysis \in {"assigned", "live"}
            /\ fact = [b \in Nodes |-> Initial(analysis)]
            /\ block = IF analysis = "assigned" THEN 1 ELSE Cardinality(Nodes)
            /\ changed = FALSE
            /\ settled = FALSE

Update ==
  /\ block \in Nodes
  /\ fact' = [fact EXCEPT ![block] = Transfer(block)]
  /\ changed' = (changed \/ fact' /= fact)
  /\ block' = IF analysis = "assigned" THEN block + 1 ELSE block - 1
  /\ UNCHANGED <<graph, analysis, settled>>

NextRound ==
  /\ block \notin Nodes
  /\ ~ settled
  /\ settled' = ~ changed
  /\ block' = IF ~ changed THEN block ELSE IF analysis = "assigned" THEN 1 ELSE Cardinality(Nodes)
  /\ changed' = FALSE
  /\ UNCHANGED <<graph, analysis, fact>>

FlowNext == Update \/ NextRound
FlowSpec == FlowInit /\ [][FlowNext]_flowVars

\* The errors reported: a use with no definition before it in its block, where
\* the variable is not assigned on every path.
Reported == {b \in Nodes : First(b) = "use" /\ ~ AssignedIn(b)}

(***************************************************************************)
(* What the analyses mean, by paths.                                       *)
(***************************************************************************)
DefFree       == {b \in Nodes : ~ HasDef(b)}
UnassignedAt  == IF graph.param THEN {} ELSE Spread(graph.succs, {1}, DefFree)
Silent        == {b \in Nodes : First(b) = "none"}
LiveOnAPath(b) == \E u \in Spread(graph.succs, {b}, Silent) : First(u) = "use"

\* Exactly the uses some path reaches unassigned are reported, and exactly the
\* variables some path reads before writing are live.
DataflowExact ==
  settled => IF analysis = "assigned" THEN Reported = {b \in UnassignedAt : First(b) = "use"}
             ELSE \A b \in Nodes : fact[b] = LiveOnAPath(b)
=============================================================================
