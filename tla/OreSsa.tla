------------------------------- MODULE OreSsa -------------------------------
(***************************************************************************)
(* Dominators (Cooper, Harvey and Kennedy), dominance frontiers and SSA    *)
(* construction (Cytron et al.): phis at the iterated dominance frontier,  *)
(* then renaming along the dominator tree with a stack per variable.       *)
(* Source: listings/part-17/ch06-01-cfg.rs and ch06-02-ssa.rs.             *)
(***************************************************************************)
EXTENDS OreIr

Blocks(f) == DOMAIN f.blocks

\* One entry per edge: a branch with equal targets is a predecessor twice.
Preds(f, b) == FoldLeft(LAMBDA p, a : p \o [i \in 1 .. Len(SelectSeq(Succs(f, a), LAMBDA t : t = b)) |-> a],
                        <<>>, Ordered(Blocks(f)))

RECURSIVE Visit(_, _, _)
Visit(f, b, st) ==        \* st: the blocks seen and the postorder so far
  LET r == FoldLeft(LAMBDA s, c : IF c \in s[1] THEN s ELSE Visit(f, c, s),
                    <<st[1] \cup {b}, st[2]>>, Succs(f, b))
  IN  <<r[1], Append(r[2], b)>>
ReversePostorder(f) == Reverse(Visit(f, 1, <<{}, <<>>>>)[2])

(***************************************************************************)
(* Immediate dominators: idom[b] is 0 until b is first processed.          *)
(***************************************************************************)
RECURSIVE Meet(_, _, _, _)
Meet(order, idom, x, y) ==
  IF x = y THEN x
  ELSE IF order[x] > order[y] THEN Meet(order, idom, idom[x], y) ELSE Meet(order, idom, x, idom[y])

\* The meet of the predecessors processed so far.
NewIdom(f, order, idom, b) ==
  FoldLeft(LAMBDA n, p : IF idom[p] = 0 THEN n ELSE IF n = 0 THEN p ELSE Meet(order, idom, p, n), 0, Preds(f, b))

RECURSIVE IterateIdom(_, _, _, _)
IterateIdom(f, rpo, order, idom) ==
  LET next == FoldLeft(LAMBDA d, b : [d EXCEPT ![b] = NewIdom(f, order, d, b)], idom, Tail(rpo))
  IN  IF next = idom THEN idom ELSE IterateIdom(f, rpo, order, next)

Dominators(f) ==
  LET rpo == ReversePostorder(f)
  IN  IterateIdom(f, rpo, [b \in Blocks(f) |-> CHOOSE i \in DOMAIN rpo : rpo[i] = b],
                  [b \in Blocks(f) |-> IF b = 1 THEN 1 ELSE 0])

Children(f, idom, b) == Ordered({c \in Blocks(f) \ {1} : idom[c] = b})

RECURSIVE Runners(_, _, _)
Runners(idom, p, stop) == IF p = stop THEN {} ELSE {p} \cup Runners(idom, idom[p], stop)

DominanceFrontiers(f, idom) ==
  [a \in Blocks(f) |-> {b \in Blocks(f) : /\ Len(Preds(f, b)) > 1
                                          /\ \E p \in ToSet(Preds(f, b)) : a \in Runners(idom, p, idom[b])}]

(***************************************************************************)
(* Step 1 of SSA construction: where each variable is defined, and where   *)
(* it needs a phi.                                                         *)
(***************************************************************************)
Writes(f, b, v) == SelectSeq(f.blocks[b].insts, LAMBDA i : i.dst = v)
DefBlocks(f, v) == {b \in Blocks(f) : Writes(f, b, v) /= <<>> \/ (b = 1 /\ v <= f.params)}
DefCount(f, v)  == FoldLeft(LAMBDA n, b : n + Len(Writes(f, b, v)), IF v <= f.params THEN 1 ELSE 0, Ordered(Blocks(f)))

RECURSIVE IteratedFrontier(_, _)
IteratedFrontier(df, bs) == LET more == bs \cup UNION {df[b] : b \in bs}
                            IN  IF more = bs THEN UNION {df[b] : b \in bs} ELSE IteratedFrontier(df, more)
PhiBlocks(f, df, v) == IF Cardinality(DefBlocks(f, v)) < 2 THEN {} ELSE IteratedFrontier(df, DefBlocks(f, v))

PlacePhis(f) ==
  LET df    == DominanceFrontiers(f, Dominators(f))
      where == [v \in 1 .. f.vars |-> PhiBlocks(f, df, v)]
      PhisAt(b) == Map(Ordered({v \in 1 .. f.vars : b \in where[v]}),
                       LAMBDA v : [dst |-> v, var |-> v, args |-> <<>>])
  IN  [f EXCEPT !.blocks = Map(Ordered(Blocks(f)), LAMBDA b : [f.blocks[b] EXCEPT !.phis = PhisAt(b)])]

(***************************************************************************)
(* Step 2: renaming. st is the function, and the current version of each   *)
(* variable (0: none), which is the top of the code's stack. A variable    *)
(* defined once keeps its name. Leaving a block restores the versions.     *)
(***************************************************************************)
UseOf(st, v) == IF IsVar(v) /\ st.now[v[2]] /= 0 THEN Var(st.now[v[2]]) ELSE v
NewVersion(multi, st, v) ==
  IF ~ multi[v] THEN [st EXCEPT !.now[v] = v]
  ELSE [st EXCEPT !.f.vars = @ + 1, !.now[v] = st.f.vars + 1]

RenameInst(multi, b, st, i) ==
  LET old == st.f.blocks[b].insts[i]
      new == NewVersion(multi, st, old.dst)
  IN  [new EXCEPT !.f.blocks[b].insts[i] = [old EXCEPT !.dst = new.now[old.dst],
                                                       !.args = Map(@, LAMBDA v : UseOf(st, v))]]
RenamePhi(multi, b, st, i) ==
  LET new == NewVersion(multi, st, st.f.blocks[b].phis[i].var)
  IN  [new EXCEPT !.f.blocks[b].phis[i].dst = new.now[st.f.blocks[b].phis[i].var]]

\* b's argument of the phis of successor s; a variable not set on this path is 0
FillPhis(multi, b, st, s) ==
  LET Arg(x) == LET v == UseOf(st, Var(x)) IN IF v = Var(x) /\ multi[x] THEN Const(0) ELSE v
  IN  [st EXCEPT !.f.blocks[s].phis = Map(@, LAMBDA p : [p EXCEPT !.args = Append(@, <<b, Arg(p.var)>>)])]

RECURSIVE Rename(_, _, _, _)
Rename(multi, idom, b, st) ==
  LET Count(q) == [i \in 1 .. Len(q) |-> i]
      s1 == FoldLeft(LAMBDA s, i : RenamePhi(multi, b, s, i), st, Count(st.f.blocks[b].phis))
      s2 == FoldLeft(LAMBDA s, i : RenameInst(multi, b, s, i), s1, Count(st.f.blocks[b].insts))
      s3 == [s2 EXCEPT !.f.blocks[b].term.val = UseOf(s2, @)]
      s4 == FoldLeft(LAMBDA s, t : FillPhis(multi, b, s, t), s3, Succs(st.f, b))
      s5 == FoldLeft(LAMBDA s, c : Rename(multi, idom, c, s), s4, Children(st.f, idom, b))
  IN  [s5 EXCEPT !.now = st.now]

ToSsa(f) ==
  LET multi == [v \in 1 .. f.vars |-> DefCount(f, v) > 1]
  IN  Rename(multi, Dominators(f), 1,
             [f |-> PlacePhis(f), now |-> [v \in 1 .. f.vars |-> IF v <= f.params THEN v ELSE 0]]).f

(***************************************************************************)
(* What the algorithms promise. a dominates b when every path from the     *)
(* entry to b goes through a.                                              *)
(***************************************************************************)
RECURSIVE Avoiding(_, _, _)
Avoiding(f, a, bs) == LET more == bs \cup (UNION {ToSet(Succs(f, b)) : b \in bs} \ {a})
                      IN  IF more = bs THEN bs ELSE Avoiding(f, a, more)
DominatorSets(f) ==
  LET free == [a \in Blocks(f) |-> Avoiding(f, a, {1} \ {a})]
  IN  [b \in Blocks(f) |-> {a \in Blocks(f) : b \notin free[a]}]

\* The immediate dominator is the strict dominator all others dominate, and
\* b is in a's frontier when a dominates a predecessor of b but not b itself.
DominanceIsExact(f) ==
  LET idom == Dominators(f)
      df   == DominanceFrontiers(f, idom)
      dom  == DominatorSets(f)
  IN  /\ \A b \in Blocks(f) \ {1} : /\ idom[b] \in dom[b] \ {b}
                                    /\ dom[b] \ {b} = dom[idom[b]]
      /\ \A a, b \in Blocks(f) : b \in df[a] <=> /\ \E p \in ToSet(Preds(f, b)) : a \in dom[p]
                                                 /\ a \notin dom[b] \ {b}

\* Definitions of x as <<block, position>>, a phi at position 0, a parameter before the entry.
Sites(f, x) == {<<b, i>> \in UNION {{b} \X DOMAIN f.blocks[b].insts : b \in Blocks(f)} : f.blocks[b].insts[i].dst = x}
               \cup {<<b, 0>> : b \in {c \in Blocks(f) : \E i \in DOMAIN f.blocks[c].phis : f.blocks[c].phis[i].dst = x}}
               \cup (IF x <= f.params THEN {<<1, -1>>} ELSE {})
\* An if without else leaves its result unset on one path, where it reads as the 0 it would be set to.
AlwaysZero(f, x) == \A s \in Sites(f, x) : s[2] > 0 /\ LET i == f.blocks[s[1]].insts[s[2]]
                                                       IN  i.op = "copy" /\ i.args = <<Const(0)>>

StrictSsa(f) ==
  LET dom   == DominatorSets(f)
      sites == [x \in 1 .. f.vars |-> Sites(f, x)]
      Available(v, b, i) == IsVar(v) => \/ \E s \in sites[v[2]] : \/ s[1] \in dom[b] \ {b}
                                                                  \/ s[1] = b /\ s[2] < i
                                        \/ AlwaysZero(f, v[2])
      end(b) == Len(f.blocks[b].insts) + 1
  IN  /\ \A x \in 1 .. f.vars : Cardinality(sites[x]) <= 1
      /\ \A b \in Blocks(f) :
           LET blk == f.blocks[b]
           IN  /\ \A i \in DOMAIN blk.insts : \A j \in DOMAIN blk.insts[i].args : Available(blk.insts[i].args[j], b, i)
               /\ Available(blk.term.val, b, end(b))
               /\ \A i \in DOMAIN blk.phis :
                    /\ SortSeq([j \in DOMAIN blk.phis[i].args |-> blk.phis[i].args[j][1]], <) = Preds(f, b)
                    /\ \A j \in DOMAIN blk.phis[i].args :
                         Available(blk.phis[i].args[j][2], blk.phis[i].args[j][1], end(blk.phis[i].args[j][1]))
=============================================================================
