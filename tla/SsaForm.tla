------------------------------ MODULE SsaForm ------------------------------
(***************************************************************************)
(* SSA construction for one variable, after the dominators: phis at the    *)
(* iterated dominance frontier of its definitions, then a walk down the    *)
(* dominator tree that gives each definition a version and each use the    *)
(* version on top of a stack. Source: listings/part-17/ch06-02-ssa.rs.     *)
(*                                                                         *)
(* Variables do not meet in to_ssa, so one is enough. Of a block is left   *)
(* what it does to the variable, in order. A version is named by where it  *)
(* is made: <<block, place>>, place 0 for a phi. The order in which work   *)
(* and children are taken is left open. A parameter is immutable in Ore    *)
(* v0, has one definition and needs no phi: it is not modelled.            *)
(***************************************************************************)
EXTENDS Dominance

CONSTANT Texts     \* records: cfg, and text, the uses and definitions in each block

ASSUME TextsAssumption ==
  \A t \in Texts : t.cfg \in Cfgs /\ t.text \in [DOMAIN t.cfg -> Seq({"use", "def"})]

VARIABLES text,
          building,   \* "dominance", "phis" or "names"
          phis, work, \* blocks with a phi; blocks whose frontier is still to be looked at
          calls,      \* the calls of rename under way, outermost first
          stack,      \* the versions in force, newest last
          named,      \* what each use has been named
          filled      \* the phi arguments, by edge
ssaVars  == <<text, building, phis, work, calls, stack, named, filled>>
formVars == <<domVars, ssaVars>>

Unset == <<0, 0>>     \* never made: the interpreter reads 0
Top   == IF stack = <<>> THEN Unset ELSE Last(stack)

Defines(b) == \E i \in DOMAIN text[b] : text[b][i] = "def"
Definers   == {b \in CfgBlocks : Defines(b)}
Several    == \E b, c \in Definers : b /= c
End(b)     == Len(text[b]) + 1

\* Where a version is made in block b before place i.
MadeBefore(b, i) == {j \in 0 .. (i - 1) : IF j = 0 THEN b \in phis ELSE text[b][j] = "def"}
ReadsAt(b, i)      == i \in DOMAIN text[b] /\ text[b][i] = "use"

\* The scope of a variable that only one block defines begins there, so that
\* "one definition dominates all its uses: no phi needed".
Scoped == Several \/ \A b \in CfgBlocks : \A i \in DOMAIN text[b] :
                        ReadsAt(b, i) /\ MadeBefore(b, i) = {} => \E d \in Definers \ {b} : Dominates(d, b)

SsaInit == /\ DomInit
           /\ text = <<>> /\ building = "dominance"
           /\ phis = {} /\ work = {}
           /\ calls = <<>> /\ stack = <<>> /\ named = <<>> /\ filled = <<>>

FindDominance == building = "dominance" /\ DomNext /\ UNCHANGED ssaVars

(***************************************************************************)
(* Step 1: phis.                                                           *)
(***************************************************************************)
StartPhis ==
  /\ building = "dominance" /\ phase = "frontiers" /\ at \notin CfgBlocks
  /\ UNCHANGED <<domVars, phis, calls, stack, named, filled>>
  /\ \E t \in Texts : t.cfg = cfg /\ text' = t.text
  /\ Scoped'
  /\ building' = "phis"
  /\ work' = IF Several' THEN Definers' ELSE {}

\* Seeded fault: the frontier is not iterated.
PlacePhiOnce ==
  /\ building = "phis"
  /\ \E b \in work : phis' = phis \cup frontier[b] /\ work' = work \ {b}
  /\ UNCHANGED <<domVars, text, building, calls, stack, named, filled>>

PlacePhi ==
  /\ building = "phis"
  /\ \E b \in work : /\ phis' = phis \cup frontier[b]
                     /\ work' = (work \ {b}) \cup ((frontier[b] \ phis) \ Definers)
  /\ UNCHANGED <<domVars, text, building, calls, stack, named, filled>>

(***************************************************************************)
(* Step 2: rename, a call of it for each block.                            *)
(***************************************************************************)
Renaming(b) == [b |-> b, at |-> 0, pushed |-> 0, rest |-> {c \in CfgBlocks \ {1} : idom[c] = b}]
Now     == Last(calls)
\* The call goes on, and has pushed so many versions more.
GoOn(n) == /\ building = "names" /\ calls /= <<>>
           /\ calls' = [calls EXCEPT ![Len(calls)] =
                         [b |-> Now.b, at |-> Now.at + 1, pushed |-> Now.pushed + n, rest |-> Now.rest]]
           /\ UNCHANGED <<domVars, text, building, phis, work>>
Push    == stack' = Append(stack, <<Now.b, Now.at>>)

StartNames ==
  /\ building = "phis" /\ work = {}
  /\ building' = "names"
  /\ calls' = <<Renaming(1)>>
  /\ UNCHANGED <<domVars, text, phis, work, stack, named, filled>>

NamePhi ==
  /\ GoOn(IF Now.b \in phis THEN 1 ELSE 0)
  /\ Now.at = 0
  /\ IF Now.b \in phis THEN Push ELSE UNCHANGED stack
  /\ UNCHANGED <<named, filled>>

NameUse ==
  /\ GoOn(0)
  /\ ReadsAt(Now.b, Now.at)
  /\ named' = [u \in DOMAIN named \cup {<<Now.b, Now.at>>} |-> IF u = <<Now.b, Now.at>> THEN Top ELSE named[u]]
  /\ UNCHANGED <<stack, filled>>

NameDef ==
  /\ GoOn(1)
  /\ Now.at \in DOMAIN text[Now.b] /\ text[Now.b][Now.at] = "def"
  /\ Push
  /\ UNCHANGED <<named, filled>>

FillSuccessors ==
  /\ GoOn(0)
  /\ Now.at = End(Now.b)
  /\ filled' = [e \in DOMAIN filled \cup ({Now.b} \X (cfg[Now.b] \cap phis)) |-> IF e[1] = Now.b THEN Top ELSE filled[e]]
  /\ UNCHANGED <<stack, named>>

Finishing == building = "names" /\ calls /= <<>> /\ Now.at > End(Now.b)

RenameChild ==
  /\ Finishing
  /\ \E c \in Now.rest : calls' = Append([calls EXCEPT ![Len(calls)].rest = @ \ {c}], Renaming(c))
  /\ UNCHANGED <<domVars, text, building, phis, work, stack, named, filled>>

ReturnRename ==
  /\ Finishing /\ Now.rest = {}
  /\ stack' = SubSeq(stack, 1, Len(stack) - Now.pushed)
  /\ calls' = Front(calls)
  /\ UNCHANGED <<domVars, text, building, phis, work, named, filled>>

SsaNext == \/ FindDominance \/ StartPhis \/ PlacePhi
           \/ StartNames \/ NamePhi \/ NameUse \/ NameDef \/ FillSuccessors \/ RenameChild \/ ReturnRename
SsaSpec == SsaInit /\ [][SsaNext]_formVars

-----------------------------------------------------------------------------
Makers == phis \cup Definers
Newest(b, i) == {<<b, j>> : j \in {k \in MadeBefore(b, i) : \A m \in MadeBefore(b, i) : m <= k}}

\* The versions that are the last one made on some path to place i of block b.
Unmade(b)     == b \in Spread(cfg, {1}, CfgBlocks \ Makers)
Arrives(c, b) == b \in Spread(cfg, cfg[c], CfgBlocks \ Makers)
Arriving(b, i) ==
  IF MadeBefore(b, i) /= {} THEN Newest(b, i)
  ELSE (UNION {Newest(c, End(c)) : c \in {d \in Makers : Arrives(d, b)}}) \cup (IF Unmade(b) THEN {Unset} ELSE {})

\* Every use, and every argument of a phi, is named the one version that is the
\* last made on every path to it; and when the walk is over, all of them are.
VersionsExact ==
  /\ \A u \in DOMAIN named : Arriving(u[1], u[2]) = {named[u]}
  /\ \A e \in DOMAIN filled : Arriving(e[1], End(e[1])) = {filled[e]}
  /\ building = "names" /\ calls = <<>> =>
       /\ DOMAIN named = {u \in UNION {{b} \X DOMAIN text[b] : b \in CfgBlocks} : ReadsAt(u[1], u[2])}
       /\ DOMAIN filled = {e \in CfgBlocks \X phis : e[2] \in cfg[e[1]]}
=============================================================================
