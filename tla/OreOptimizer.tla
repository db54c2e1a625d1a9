---------------------------- MODULE OreOptimizer ----------------------------
(***************************************************************************)
(* The optimization passes on SSA: simplify (folding, copies, trivial      *)
(* phis, constant branches), global value numbering, dead-code elimination *)
(* and block merging. Source: listings/part-17/ch07-01-optimizer.rs.       *)
(* The number of rewrites each pass returns is left out.                   *)
(***************************************************************************)
EXTENDS OreSsa

MapPhis(q, Op(_))   == Map(q, LAMBDA p : [p EXCEPT !.args = Map(@, Op)])
MapBlocks(f, Op(_)) == [f EXCEPT !.blocks = Map(@, Op)]

ReplaceUses(f, from, to) ==
  LET Fix(v)  == IF v = Var(from) THEN to ELSE v
      Arg(a)  == <<a[1], Fix(a[2])>>
      One(b)  == [phis  |-> MapPhis(b.phis, Arg),
                  insts |-> Map(b.insts, LAMBDA i : [i EXCEPT !.args = Map(@, Fix)]),
                  term  |-> Term(b.term.to, Fix(b.term.val))]
  IN  MapBlocks(f, One)

\* A division by a value that may be 0, or a call, which may fail or not return.
MayTrap(i) == \/ i.op = "call"
              \/ i.op \in Dividing /\ (IsVar(i.args[2]) \/ i.args[2] = Const(0))

(***************************************************************************)
(* Pass 1. Rewritten(i) is the set with the value that replaces i's        *)
(* result, or the empty set.                                               *)
(***************************************************************************)
RewrittenPhi(p) ==
  LET distinct == {p.args[j][2] : j \in DOMAIN p.args} \ {Var(p.dst)}
  IN  IF Cardinality(distinct) = 1 THEN distinct ELSE {}

Rewritten(i) ==
  LET a == i.args[1]
      b == i.args[2]
  IN  CASE i.op = "copy" -> {a}
        [] i.op = "call" -> {}
        [] i.op \in {"neg", "not"} -> IF IsVar(a) THEN {} ELSE {Const(Compute1(i.op, a[2]))}
        [] OTHER ->
             IF ~ IsVar(a) /\ ~ IsVar(b)
             THEN IF Fails(i.op, b[2]) THEN {} ELSE {Const(Compute(i.op, a[2], b[2]))}
             ELSE CASE i.op \in {"+", "-"} /\ b = Const(0) -> {a}
                    [] i.op = "+" /\ a = Const(0)          -> {b}
                    [] i.op = "*" /\ b = Const(1)          -> {a}
                    [] i.op = "*" /\ a = Const(1)          -> {b}
                    [] i.op = "*" /\ Const(0) \in {a, b}   -> {Const(0)}
                    [] OTHER                               -> {}

\* The rewrites of one round, in program order, as <<result, value>>.
Rewrites(f) ==
  LET One(x, vs) == IF vs = {} THEN <<>> ELSE <<<<x, CHOOSE v \in vs : TRUE>>>>
      OfPhis(q)  == FoldLeft(LAMBDA s, p : s \o One(p.dst, RewrittenPhi(p)), <<>>, q)
      OfInsts(q) == FoldLeft(LAMBDA s, i : s \o One(i.dst, Rewritten(i)), <<>>, q)
  IN  FoldLeft(LAMBDA s, b : s \o OfPhis(b.phis) \o OfInsts(b.insts), <<>>, f.blocks)

FoldsAt(f, b) == Len(Succs(f, b)) = 2 /\ ~ IsVar(f.blocks[b].term.val)

\* Seeded fault: the block that is no longer reached keeps its phi argument.
FoldBranchKeepsPhiArgument(f, b) ==
  LET t == f.blocks[b].term IN [f EXCEPT !.blocks[b].term = Term(<<t.to[IF t.val[2] /= 0 THEN 1 ELSE 2]>>, Const(0))]

\* The successor a constant branch drops loses this predecessor.
FoldBranch(f, b) ==
  LET t    == f.blocks[b].term
      keep == t.to[IF t.val[2] /= 0 THEN 1 ELSE 2]
      drop == t.to[IF t.val[2] /= 0 THEN 2 ELSE 1]
      Without(p) == [p EXCEPT !.args = SelectSeq(@, LAMBDA a : a[1] /= b)]
      g    == [f EXCEPT !.blocks[b].term = Term(<<keep>>, Const(0))]
  IN  IF keep = drop THEN g ELSE [g EXCEPT !.blocks[drop].phis = Map(@, Without)]

RECURSIVE Follow(_, _, _)
Follow(map, v, n) == IF n > 0 /\ IsVar(v) /\ v[2] \in DOMAIN map THEN Follow(map, map[v[2]], n - 1) ELSE v

\* Removes what defines x, unless it is a call.
DropDef(f, x) ==
  MapBlocks(f, LAMBDA b : [b EXCEPT !.phis  = SelectSeq(@, LAMBDA p : p.dst /= x),
                                    !.insts = SelectSeq(@, LAMBDA i : i.dst /= x \/ i.op = "call")])

RECURSIVE Simplify(_)
Simplify(f) ==
  LET rewrites == Rewrites(f)
      folded   == Ordered({b \in Blocks(f) : FoldsAt(f, b)})
      map      == [x \in {r[1] : r \in ToSet(rewrites)} |-> (CHOOSE r \in ToSet(rewrites) : r[1] = x)[2]]
      Apply(g, r) == LET v == Follow(map, r[2], Cardinality(DOMAIN map))
                     IN  IF v = Var(r[1]) THEN g ELSE DropDef(ReplaceUses(g, r[1], v), r[1])
      jumps    == FoldLeft(LAMBDA g, b : FoldBranch(g, b), f, folded)
  IN  IF rewrites = <<>> /\ folded = <<>> THEN f
      ELSE Simplify(RemoveUnreachable(FoldLeft(LAMBDA g, r : Apply(g, r), jumps, rewrites)))

(***************************************************************************)
(* Pass 2. st: the expressions available here, the values merged so far    *)
(* and the rewrites. The table shrinks back when the walk leaves a block.  *)
(***************************************************************************)
Swapped(a, b) == (IsVar(a) = IsVar(b) /\ b[2] < a[2]) \/ (~ IsVar(a) /\ IsVar(b))
Numbered(i)   == i.op /= "copy" /\ ~ MayTrap(i)

Number(st, i) ==
  LET Canon(v) == IF IsVar(v) /\ v[2] \in DOMAIN st.merged THEN Var(st.merged[v[2]]) ELSE v
      a   == Canon(i.args[1])
      b   == Canon(i.args[Len(i.args)])
      key == IF i.op \in Commutative /\ Swapped(a, b) THEN <<i.op, b, a>> ELSE <<i.op, a, b>>
  IN  IF ~ Numbered(i) THEN st
      ELSE IF key \in DOMAIN st.table
      THEN [st EXCEPT !.merged = (i.dst :> st.table[key]) @@ @, !.rewrites = Append(@, <<i.dst, st.table[key]>>)]
      ELSE [st EXCEPT !.table = (key :> i.dst) @@ @]

RECURSIVE NumberFrom(_, _, _, _)
NumberFrom(f, idom, b, st) ==
  LET here  == FoldLeft(LAMBDA s, i : Number(s, i), st, f.blocks[b].insts)
      below == FoldLeft(LAMBDA s, c : NumberFrom(f, idom, c, s), here, Children(f, idom, b))
  IN  [below EXCEPT !.table = st.table]

Gvn(f) ==
  LET st == NumberFrom(f, Dominators(f), 1, [table |-> <<>>, merged |-> <<>>, rewrites |-> <<>>])
  IN  FoldLeft(LAMBDA g, r : DropDef(ReplaceUses(g, r[1], Var(r[2])), r[1]), f, st.rewrites)

(***************************************************************************)
(* Pass 3: mark and sweep. Roots are terminators and what may trap.        *)
(***************************************************************************)
VarsIn(vs) == {v[2] : v \in {w \in vs : IsVar(w)}}
Needs(f, x) ==
  UNION {LET blk == f.blocks[b]
         IN  UNION {VarsIn({p.args[j][2] : j \in DOMAIN p.args}) : p \in {q \in ToSet(blk.phis) : q.dst = x}}
             \cup UNION {VarsIn(ToSet(i.args)) : i \in {q \in ToSet(blk.insts) : q.dst = x}} : b \in Blocks(f)}
Roots(f) ==
  UNION {VarsIn({f.blocks[b].term.val})
         \cup UNION {VarsIn(ToSet(i.args)) : i \in {q \in ToSet(f.blocks[b].insts) : MayTrap(q)}} : b \in Blocks(f)}

RECURSIVE Marked(_, _)
Marked(f, live) == LET more == live \cup UNION {Needs(f, x) : x \in live}
                   IN  IF more = live THEN live ELSE Marked(f, more)
\* Seeded fault: what may trap is not a root.
DceOfTraps(f) ==
  LET live == Marked(f, UNION {VarsIn({f.blocks[b].term.val}) : b \in Blocks(f)})
  IN  MapBlocks(f, LAMBDA b : [b EXCEPT !.phis  = SelectSeq(@, LAMBDA p : p.dst \in live),
                                        !.insts = SelectSeq(@, LAMBDA i : i.op = "call" \/ i.dst \in live)])
Dce(f) ==
  LET live == Marked(f, Roots(f))
  IN  MapBlocks(f, LAMBDA b : [b EXCEPT !.phis  = SelectSeq(@, LAMBDA p : p.dst \in live),
                                        !.insts = SelectSeq(@, LAMBDA i : MayTrap(i) \/ i.dst \in live)])

(***************************************************************************)
(* Pass 4: a block whose only predecessor jumps only to it joins it.       *)
(***************************************************************************)
Mergeable(f) == {a \in Blocks(f) : /\ Len(Succs(f, a)) = 1
                                   /\ LET b == Succs(f, a)[1]
                                      IN  b \notin {1, a} /\ Preds(f, b) = <<a>> /\ f.blocks[b].phis = <<>>}
MergeAt(f, a) ==
  LET b == Succs(f, a)[1]
      g == [f EXCEPT !.blocks[a].insts = @ \o f.blocks[b].insts, !.blocks[a].term = f.blocks[b].term,
                     !.blocks[b].insts = <<>>, !.blocks[b].term = Term(<<>>, Const(0))]
      FromA(x) == IF x[1] = b THEN <<a, x[2]>> ELSE x
  IN  FoldLeft(LAMBDA h, s : [h EXCEPT !.blocks[s].phis = MapPhis(@, FromA)], g, Succs(g, a))

RECURSIVE MergeBlocks(_)
MergeBlocks(f) == IF Mergeable(f) = {} THEN f
                  ELSE MergeBlocks(RemoveUnreachable(MergeAt(f, Head(Ordered(Mergeable(f))))))
=============================================================================
