----------------------------- MODULE Dominance -----------------------------
(***************************************************************************)
(* Dominators as Cooper, Harvey and Kennedy compute them, one loop         *)
(* iteration per step: the postorder of a depth-first walk, rounds over it *)
(* in reverse until no immediate dominator changes, and then the dominance *)
(* frontiers. Source: listings/part-17/ch06-01-cfg.rs.                     *)
(*                                                                         *)
(* The order among the successors or the predecessors of a block is left   *)
(* open (the code takes that of the branches), so what is shown holds for  *)
(* every order. A branch with equal targets is one edge: a predecessor     *)
(* looked at a second time changes nothing.                                *)
(***************************************************************************)
EXTENDS Integers, SequencesExt, FlowGraph

CONSTANT Cfgs    \* the successors of each block; block 1 is the entry

\* lower_fn makes no branch to the entry and removes what it does not reach.
ASSUME CfgsAssumption ==
  \A succs \in Cfgs : /\ succs /= <<>> /\ succs \in Seq(SUBSET (DOMAIN succs \ {1}))
                      /\ Spread(succs, {1}, DOMAIN succs) = DOMAIN succs

VARIABLES cfg, phase,
          visiting,   \* the calls of dfs under way, outermost first
          postorder,  \* the blocks they have left
          idom,       \* immediate dominators, 0 for usize::MAX
          at,         \* the block under way: an index into postorder, later a block
          todo,       \* its predecessors still to be looked at
          newIdom,    \* new; in a meet, y
          runner,     \* in a meet x, later the block that gets a frontier; 0 if none
          moved,      \* changed
          frontier    \* df
domVars == <<cfg, phase, visiting, postorder, idom, at, todo, newIdom, runner, moved, frontier>>

CfgBlocks    == DOMAIN cfg
PredsIn(b)   == {p \in CfgBlocks : b \in cfg[p]}
Seen         == ToSet(visiting) \cup ToSet(postorder)
Order(b)     == Len(postorder) - CHOOSE i \in DOMAIN postorder : postorder[i] = b

DomInit == /\ cfg \in Cfgs
           /\ phase = "walk"
           /\ visiting = <<1>> /\ postorder = <<>>
           /\ idom = [b \in CfgBlocks |-> IF b = 1 THEN 1 ELSE 0]
           /\ at = 0 /\ todo = {} /\ newIdom = 0 /\ runner = 0 /\ moved = FALSE
           /\ frontier = [b \in CfgBlocks |-> {}]

(***************************************************************************)
(* reverse_postorder                                                       *)
(***************************************************************************)
Descend ==
  /\ phase = "walk" /\ visiting /= <<>>
  /\ \E s \in cfg[Last(visiting)] \ Seen : visiting' = Append(visiting, s)
  /\ UNCHANGED <<cfg, phase, postorder, idom, at, todo, newIdom, runner, moved, frontier>>

Leave ==
  /\ phase = "walk" /\ visiting /= <<>> /\ cfg[Last(visiting)] \subseteq Seen
  /\ postorder' = Append(postorder, Last(visiting))
  /\ visiting' = Front(visiting)
  /\ UNCHANGED <<cfg, phase, idom, at, todo, newIdom, runner, moved, frontier>>

(***************************************************************************)
(* dominators: each round goes down the postorder from the entry, which    *)
(* comes last in it and is skipped.                                        *)
(***************************************************************************)
\* The block at index i of the postorder comes next, or the round ends.
Approach(i) == /\ at' = i
               /\ todo' = IF i = 0 THEN {} ELSE PredsIn(postorder[i])
               /\ newIdom' = 0

StartRounds ==
  /\ phase = "walk" /\ visiting = <<>>
  /\ phase' = "rounds"
  /\ Approach(Len(postorder) - 1)
  /\ UNCHANGED <<cfg, visiting, postorder, idom, runner, moved, frontier>>

Rounding == phase = "rounds" /\ at > 0

\* Seeded fault: the meet is skipped, and the first predecessor wins.
MeetsNothing(p) == FALSE
Meets(p) == idom[p] /= 0 /\ newIdom /= 0

LookAtPred ==
  /\ Rounding /\ runner = 0
  /\ \E p \in todo :
       /\ todo' = todo \ {p}
       /\ newIdom' = IF newIdom = 0 /\ idom[p] /= 0 THEN p ELSE newIdom
       /\ runner' = IF Meets(p) THEN p ELSE 0
  /\ UNCHANGED <<cfg, phase, visiting, postorder, idom, at, moved, frontier>>

\* Of two different blocks, the one later in the order moves up.
Climb ==
  /\ Rounding /\ runner \notin {0, newIdom}
  /\ IF Order(runner) > Order(newIdom)
     THEN runner' = idom[runner] /\ UNCHANGED newIdom
     ELSE newIdom' = idom[newIdom] /\ UNCHANGED runner
  /\ UNCHANGED <<cfg, phase, visiting, postorder, idom, at, todo, moved, frontier>>

Met ==
  /\ Rounding /\ runner = newIdom /\ runner /= 0
  /\ runner' = 0
  /\ UNCHANGED <<cfg, phase, visiting, postorder, idom, at, todo, newIdom, moved, frontier>>

SetIdom ==
  /\ Rounding /\ runner = 0 /\ todo = {}
  /\ idom' = [idom EXCEPT ![postorder[at]] = newIdom]
  /\ moved' = (moved \/ idom' /= idom)
  /\ Approach(at - 1)
  /\ UNCHANGED <<cfg, phase, visiting, postorder, runner, frontier>>

NextPass ==
  /\ phase = "rounds" /\ at = 0 /\ moved
  /\ moved' = FALSE
  /\ Approach(Len(postorder) - 1)
  /\ UNCHANGED <<cfg, phase, visiting, postorder, idom, runner, frontier>>

(***************************************************************************)
(* dominance_frontiers                                                     *)
(***************************************************************************)
\* Block b comes next; one with fewer than two predecessors is passed over.
Consider(b) ==
  /\ at' = b
  /\ todo' = IF b \in CfgBlocks /\ \E p, q \in PredsIn(b) : p /= q THEN PredsIn(b) ELSE {}

StartFrontiers ==
  /\ phase = "rounds" /\ at = 0 /\ ~ moved
  /\ phase' = "frontiers"
  /\ Consider(1)
  /\ UNCHANGED <<cfg, visiting, postorder, idom, newIdom, runner, moved, frontier>>

StartRunner ==
  /\ phase = "frontiers" /\ at \in CfgBlocks /\ runner = 0
  /\ \E p \in todo : runner' = p /\ todo' = todo \ {p}
  /\ UNCHANGED <<cfg, phase, visiting, postorder, idom, at, newIdom, moved, frontier>>

RunUp ==
  /\ phase = "frontiers" /\ at \in CfgBlocks /\ runner /= 0
  /\ IF runner = idom[at] THEN runner' = 0 /\ UNCHANGED frontier
     ELSE /\ frontier' = [frontier EXCEPT ![runner] = @ \cup {at}]
          /\ runner' = idom[runner]
  /\ UNCHANGED <<cfg, phase, visiting, postorder, idom, at, todo, newIdom, moved>>

NextBlock ==
  /\ phase = "frontiers" /\ at \in CfgBlocks /\ runner = 0 /\ todo = {}
  /\ Consider(at + 1)
  /\ UNCHANGED <<cfg, phase, visiting, postorder, idom, newIdom, runner, moved, frontier>>

DomNext == \/ Descend \/ Leave
           \/ StartRounds \/ LookAtPred \/ Climb \/ Met \/ SetIdom \/ NextPass
           \/ StartFrontiers \/ StartRunner \/ RunUp \/ NextBlock
DomSpec == DomInit /\ [][DomNext]_domVars

-----------------------------------------------------------------------------
\* Block a dominates b when every path from the entry to b goes through a.
Free(a)         == Spread(cfg, {1} \ {a}, CfgBlocks \ {a}) \ {a}
Dominates(a, b) == b \notin Free(a)

\* What dominators returns: the strict dominator that all others dominate. What
\* dominance_frontiers returns: b is in a's frontier when a dominates a
\* predecessor of b but not b itself.
DominanceExact ==
  phase = "frontiers" =>
    /\ \A b \in CfgBlocks \ {1} :
         /\ idom[b] \in CfgBlocks \ {b}
         /\ \A a \in CfgBlocks : Dominates(a, idom[b]) <=> Dominates(a, b) /\ a /= b
    /\ at \notin CfgBlocks =>
         \A a, b \in CfgBlocks :
           b \in frontier[a] <=> /\ \E p \in PredsIn(b) : Dominates(a, p)
                                 /\ ~ (Dominates(a, b) /\ a /= b)
=============================================================================
