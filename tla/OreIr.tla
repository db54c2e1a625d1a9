------------------------------- MODULE OreIr -------------------------------
(***************************************************************************)
(* The middle of the Ore compiler: expressions are lowered to three-address *)
(* code in basic blocks, and an interpreter runs the result.               *)
(* Source: listings/part-17/ch06-01-cfg.rs; ch06-02 and ch07-01 repeat it.  *)
(*                                                                         *)
(* Names of variables, spans and printing are left out. A variable is its  *)
(* number, blocks are counted from 1 (the entry).                          *)
(***************************************************************************)
EXTENDS OreArith, Sequences, SequencesExt

(***************************************************************************)
(* Abstract syntax. A statement is a let or an expression.                 *)
(***************************************************************************)
Num(n)         == [k |-> "int", n |-> n]
BoolLit(b)     == [k |-> "bool", n |-> IF b THEN 1 ELSE 0]
Ref(x)         == [k |-> "var", x |-> x]
Unary(op, a)   == [k |-> "unary", op |-> op, a |-> a]
Binary(op, a, b) == [k |-> "binary", op |-> op, a |-> a, b |-> b]
Let(x, mut, e) == [k |-> "let", x |-> x, mut |-> mut, a |-> e]
Assign(x, e)   == [k |-> "assign", x |-> x, a |-> e]
If(c, t, e)    == [k |-> "if", c |-> c, t |-> t, e |-> e]
While(c, b)    == [k |-> "while", c |-> c, b |-> b]
Block(ss, t)   == [k |-> "block", stmts |-> ss, tail |-> t]
Return(e)      == [k |-> "return", a |-> e]
Call(f, e)     == [k |-> "call", f |-> f, a |-> e]
Absent         == [k |-> "absent"]           \* no tail, no else branch

ShortCircuit == {"&&", "||"}
Commutative  == {"+", "*", "==", "!="}

(***************************************************************************)
(* Intermediate code. A terminator is its successors and the value it      *)
(* tests or returns: none for a return, one for a jump, two for a branch.  *)
(***************************************************************************)
Var(x)   == <<"var", x>>
Const(c) == <<"const", c>>
IsVar(v) == v[1] = "var"
Inst(dst, op, args)    == [dst |-> dst, op |-> op, args |-> args, f |-> ""]
CallInst(dst, f, args) == [dst |-> dst, op |-> "call", args |-> args, f |-> f]
Term(to, v)  == [to |-> to, val |-> v]
Open         == Term(<<>>, <<"open", 0>>)    \* not terminated yet
EmptyBlock   == [phis |-> <<>>, insts |-> <<>>, term |-> Open]
Succs(f, b)  == f.blocks[b].term.to

(***************************************************************************)
(* Lowering. The state s is the function built so far, the current block   *)
(* and the scopes, innermost last; the result is <<state, value>>.         *)
(***************************************************************************)
Emit(s, i)      == [s EXCEPT !.blocks[s.cur].insts = Append(@, i)]
Terminate(s, t) == [s EXCEPT !.blocks[s.cur].term = IF @ = Open THEN t ELSE @]
NewBlocks(s, n) == [s EXCEPT !.blocks = @ \o [i \in 1 .. n |-> EmptyBlock]]
NewVar(s)       == [s EXCEPT !.vars = @ + 1]
At(s, b)        == [s EXCEPT !.cur = b]
Lookup(s, x)    == LET in == {i \in DOMAIN s.scopes : x \in DOMAIN s.scopes[i]}
                   IN  s.scopes[CHOOSE i \in in : \A j \in in : j <= i][x]
Bind(s, x, v)   == [s EXCEPT !.scopes[Len(s.scopes)] = (x :> v) @@ @]

RECURSIVE LowerExpr(_, _), LowerStmts(_, _)
LowerBlock(e, s) ==
  LET inner == LowerStmts(e.stmts, [s EXCEPT !.scopes = Append(@, <<>>)])
      r     == LowerExpr(e.tail, inner)
  IN  <<[r[1] EXCEPT !.scopes = Front(@)], r[2]>>

LowerStmts(ss, s) ==
  IF ss = <<>> THEN s ELSE
  LET e == Head(ss)
      r == LowerExpr(IF e.k = "let" THEN e.a ELSE e, s)
      t == NewVar(r[1])
  IN  LowerStmts(Tail(ss), IF e.k = "let" THEN Bind(Emit(t, Inst(t.vars, "copy", <<r[2]>>)), e.x, t.vars)
                                          ELSE r[1])

\* Seeded fault: || as if it were &&.
ShortTargetsAlwaysRight(op, rhs, short) == <<rhs, short>>
\* Where a test of the left operand goes: && needs the right one when it holds, || when not.
ShortTargets(op, rhs, short) == IF op = "&&" THEN <<rhs, short>> ELSE <<short, rhs>>

LowerShortCircuit(e, s) ==
  LET s0    == NewVar(s)
      r     == s0.vars
      a     == LowerExpr(e.a, s0)
      n     == Len(a[1].blocks)
      rhs   == n + 1
      short == n + 2
      join  == n + 3
      to    == ShortTargets(e.op, rhs, short)
      b     == LowerExpr(e.b, At(Terminate(NewBlocks(a[1], 3), Term(to, a[2])), rhs))
      s1    == Terminate(Emit(b[1], Inst(r, "copy", <<b[2]>>)), Term(<<join>>, Const(0)))
      s2    == Emit(At(s1, short), Inst(r, "copy", <<Const(Truth(e.op = "||"))>>))
  IN  <<At(Terminate(s2, Term(<<join>>, Const(0))), join), Var(r)>>

LowerIf(e, s) ==
  LET c    == LowerExpr(e.c, s)
      s0   == NewVar(c[1])
      r    == s0.vars
      n    == Len(s0.blocks)
      join == n + 2
      none == e.e.k = "absent"
      els  == IF none THEN join ELSE n + 3
      Arm(b, st) == LET v == LowerExpr(b, st)
                    IN  Terminate(Emit(v[1], Inst(r, "copy", <<v[2]>>)), Term(<<join>>, Const(0)))
      s1   == Terminate(NewBlocks(s0, IF none THEN 2 ELSE 3), Term(<<n + 1, els>>, c[2]))
      s2   == Arm(e.t, At(s1, n + 1))
  IN  <<At(IF none THEN s2 ELSE Arm(e.e, At(s2, els)), join), Var(r)>>

LowerWhile(e, s) ==
  LET header == Len(s.blocks) + 1
      c  == LowerExpr(e.c, At(Terminate(NewBlocks(s, 1), Term(<<header>>, Const(0))), header))
      n  == Len(c[1].blocks)
      s1 == Terminate(NewBlocks(c[1], 2), Term(<<n + 1, n + 2>>, c[2]))
      s2 == LowerExpr(e.b, At(s1, n + 1))[1]
  IN  <<At(Terminate(s2, Term(<<header>>, Const(0))), n + 2), Const(0)>>

LowerExpr(e, s) ==
  CASE e.k = "absent"           -> <<s, Const(0)>>
    [] e.k \in {"int", "bool"}  -> <<s, Const(e.n)>>
    [] e.k = "var"              -> <<s, Var(Lookup(s, e.x))>>
    [] e.k = "block"            -> LowerBlock(e, s)
    [] e.k = "if"               -> LowerIf(e, s)
    [] e.k = "while"            -> LowerWhile(e, s)
    [] e.k = "binary" /\ e.op \in ShortCircuit -> LowerShortCircuit(e, s)
    [] e.k = "binary" /\ e.op \notin ShortCircuit ->
         LET a == LowerExpr(e.a, s)
             b == LowerExpr(e.b, a[1])
             t == NewVar(b[1])
         IN  <<Emit(t, Inst(t.vars, e.op, <<a[2], b[2]>>)), Var(t.vars)>>
    [] OTHER ->
         LET a == LowerExpr(e.a, s)
             t == NewVar(a[1])
         IN  CASE e.k = "unary"  -> <<Emit(t, Inst(t.vars, e.op, <<a[2]>>)), Var(t.vars)>>
               [] e.k = "call"   -> <<Emit(t, CallInst(t.vars, e.f, <<a[2]>>)), Var(t.vars)>>
               [] e.k = "assign" -> <<Emit(a[1], Inst(Lookup(a[1], e.x), "copy", <<a[2]>>)), Const(0)>>
               [] e.k = "return" -> LET n == NewBlocks(Terminate(a[1], Term(<<>>, a[2])), 1)
                                    IN  <<At(n, Len(n.blocks)), Const(0)>>

(***************************************************************************)
(* Removes the blocks the entry does not reach; the rest keep their order. *)
(* A block left open returns 0. Phi arguments of removed predecessors go.  *)
(***************************************************************************)
Ordered(ns)    == SelectSeq([i \in 1 .. Max(ns \cup {0}) |-> i], LAMBDA i : i \in ns)

Map(q, Op(_))  == FoldLeft(LAMBDA r, e : Append(r, Op(e)), <<>>, q)

RECURSIVE Closure(_, _)
Closure(f, bs) == LET more == bs \cup UNION {ToSet(Succs(f, b)) : b \in bs}
                  IN  IF more = bs THEN bs ELSE Closure(f, more)
Reached(f)     == Closure(f, {1})

RemoveUnreachable(f) ==
  LET seen  == Reached(f)
      New(b) == Cardinality({c \in seen : c <= b})
      Phi(p) == LET kept == SelectSeq(p.args, LAMBDA a : a[1] \in seen)
                IN  [p EXCEPT !.args = Map(kept, LAMBDA a : <<New(a[1]), a[2]>>)]
      Fix(b) == LET t == IF f.blocks[b].term = Open THEN Term(<<>>, Const(0)) ELSE f.blocks[b].term
                IN  [phis  |-> Map(f.blocks[b].phis, Phi),
                     insts |-> f.blocks[b].insts,
                     term  |-> Term(Map(t.to, New), t.val)]
  IN  [f EXCEPT !.blocks = Map(Ordered(seen), Fix)]

LowerFn(params, body) ==
  LET s == LowerExpr(body, [blocks |-> <<EmptyBlock>>, cur |-> 1, vars |-> Len(params),
                            scopes |-> <<[x \in ToSet(params) |-> CHOOSE i \in DOMAIN params : params[i] = x]>>])
      f == Terminate(s[1], Term(<<>>, s[2]))
  IN  RemoveUnreachable([params |-> Len(params), vars |-> f.vars, blocks |-> f.blocks])

(***************************************************************************)
(* The interpreters run and run_ssa: phis read their inputs all at once on *)
(* entry; a variable never written is 0. A run that takes more than fuel   *)
(* steps is cut off. The result is <<"ok", value>>, <<"trap", 0>> or       *)
(* <<"fuel", 0>>.                                                          *)
(***************************************************************************)
Get(vals, v) == IF IsVar(v) THEN vals[v[2]] ELSE v[2]

RECURSIVE RunBlock(_, _, _, _, _, _), RunInsts(_, _, _, _)
Run(fns, name, args, fuel) ==
  RunBlock(fns, fns[name], 1, 0, [x \in 1 .. fns[name].vars |-> IF x \in DOMAIN args THEN args[x] ELSE 0], fuel)

\* <<"ok", vals>> after the instructions, or the failure
RunInsts(fns, insts, vals, fuel) ==
  IF insts = <<>> THEN <<"ok", vals>> ELSE
  LET i == Head(insts)
      x == [j \in DOMAIN i.args |-> Get(vals, i.args[j])]
      r == CASE i.op = "call" -> Run(fns, i.f, x, fuel)
             [] i.op = "copy" -> <<"ok", x[1]>>
             [] i.op \in {"neg", "not"} -> <<"ok", Compute1(i.op, x[1])>>
             [] OTHER -> IF Fails(i.op, x[2]) THEN <<"trap", 0>> ELSE <<"ok", Compute(i.op, x[1], x[2])>>
  IN  IF r[1] /= "ok" THEN r ELSE RunInsts(fns, Tail(insts), [vals EXCEPT ![i.dst] = r[2]], fuel)

RunBlock(fns, f, b, prev, vals, fuel) ==
  IF fuel = 0 THEN <<"fuel", 0>> ELSE
  LET blk == f.blocks[b]
      Incoming(p) == LET from == SelectSeq(p.args, LAMBDA a : a[1] = prev)
                     IN  IF from = <<>> THEN 0 ELSE Get(vals, from[1][2])
      entry == FoldLeft(LAMBDA m, p : (p.dst :> Incoming(p)) @@ m, vals, blk.phis)
      r     == RunInsts(fns, blk.insts, entry, fuel)
  IN  IF r[1] /= "ok" THEN r
      ELSE CASE Len(blk.term.to) = 0 -> <<"ok", Get(r[2], blk.term.val)>>
             [] Len(blk.term.to) = 1 -> RunBlock(fns, f, blk.term.to[1], b, r[2], fuel - 1)
             [] OTHER -> RunBlock(fns, f, blk.term.to[IF Get(r[2], blk.term.val) /= 0 THEN 1 ELSE 2],
                                  b, r[2], fuel - 1)
============================================================================
