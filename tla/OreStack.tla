------------------------------ MODULE OreStack ------------------------------
(***************************************************************************)
(* The first Ore compiler: names are resolved to slots, types are checked, *)
(* the tree becomes bytecode and a stack machine runs it. It compiles the  *)
(* part of Ore without parameters, calls, return and block values.         *)
(* Source: listings/part-17/ch01-01-pipeline.rs, stages 3 to 6. Lexing and *)
(* parsing (stages 1 and 2) are left out: a program is its tree.           *)
(***************************************************************************)
EXTENDS OreIr

Body(e)     == IF e.k = "absent" THEN <<>> ELSE e.stmts
Rejected    == [k |-> "rejected"]

(***************************************************************************)
(* Stage 3, the resolver: an environment has the scopes, innermost last,   *)
(* and the slots handed out. A use becomes a slot; a name out of scope or  *)
(* an assignment to an immutable one rejects the program.                  *)
(***************************************************************************)
InScope(env, x) == \E i \in DOMAIN env.scopes : x \in DOMAIN env.scopes[i]
Slot(i)         == [k |-> "slot", i |-> i]

RECURSIVE ResolveExpr(_, _), ResolveStmts(_, _)
ResolveExpr(e, env) ==
  CASE e.k \in {"int", "bool"} -> e
    [] e.k = "var"    -> IF InScope(env, e.x) THEN Slot(Lookup(env, e.x)) ELSE Rejected
    [] e.k = "unary"  -> Unary(e.op, ResolveExpr(e.a, env))
    [] e.k = "binary" -> Binary(e.op, ResolveExpr(e.a, env), ResolveExpr(e.b, env))

\* <<environment, resolved statements>>
ResolveStmts(ss, env) ==
  IF ss = <<>> THEN <<env, <<>>>> ELSE
  LET s     == Head(ss)
      Nested(b) == ResolveStmts(Body(b), [env EXCEPT !.scopes = Append(@, <<>>)])
      Leave(n)  == [env EXCEPT !.slots = n[1].slots]
      step == CASE s.k = "let" ->
                     LET n == Len(env.slots) + 1   \* the initializer does not see the new name
                     IN  <<Bind([env EXCEPT !.slots = Append(@, s.mut)], s.x, n),
                           [k |-> "let", i |-> n, a |-> ResolveExpr(s.a, env)]>>
                [] s.k = "assign" ->
                     LET i == IF InScope(env, s.x) THEN Lookup(env, s.x) ELSE 0
                     IN  <<env, IF i = 0 \/ ~ env.slots[i] THEN Rejected
                                ELSE [k |-> "assign", i |-> i, a |-> ResolveExpr(s.a, env)]>>
                [] s.k = "while" ->
                     LET b == Nested(s.b)
                     IN  <<Leave(b), While(ResolveExpr(s.c, env), b[2])>>
                [] s.k = "if" ->
                     LET t == Nested(s.t)
                         e == ResolveStmts(Body(s.e), [env EXCEPT !.slots = t[1].slots, !.scopes = Append(@, <<>>)])
                     IN  <<Leave(e), If(ResolveExpr(s.c, env), t[2], e[2])>>
      rest == ResolveStmts(Tail(ss), step[1])
  IN  <<rest[1], <<step[2]>> \o rest[2]>>

Resolve(p) ==
  LET r == ResolveStmts(p.stmts, [scopes |-> <<<<>>>>, slots |-> <<>>])
  IN  [stmts |-> r[2], result |-> ResolveExpr(p.tail, r[1]), slots |-> Len(r[1].slots)]

(***************************************************************************)
(* Stage 4, the checker: every let gives its slot the type of its          *)
(* initializer. The type of an ill-typed or rejected expression is "none". *)
(***************************************************************************)
RECURSIVE TypeOf(_, _), CheckStmts(_, _)
TypeOf(e, ty) ==
  CASE e.k = "int"   -> "int"
    [] e.k = "bool"  -> "bool"
    [] e.k = "slot"  -> ty[e.i]
    [] e.k = "unary" -> LET want == IF e.op = "neg" THEN "int" ELSE "bool"
                        IN  IF TypeOf(e.a, ty) = want THEN want ELSE "none"
    [] e.k = "binary" ->
         LET a == TypeOf(e.a, ty)
             b == TypeOf(e.b, ty)
             operand == IF e.op \in ShortCircuit THEN "bool" ELSE IF e.op \in {"==", "!="} THEN a ELSE "int"
             result  == IF e.op \in {"+", "-", "*", "/", "%"} THEN "int" ELSE "bool"
         IN  IF a = operand /\ b = operand /\ a /= "none" THEN result ELSE "none"
    [] OTHER -> "none"

IsTest(e, ty) == TypeOf(e, ty) = "bool"      \* what if and while may test

\* <<are the statements well typed, the types of the slots>>
CheckStmts(ss, ty) ==
  IF ss = <<>> THEN <<TRUE, ty>> ELSE
  LET s == Head(ss)
      step == CASE s.k = "let"    -> LET t == TypeOf(s.a, ty) IN <<t /= "none", [ty EXCEPT ![s.i] = t]>>
                [] s.k = "assign" -> <<TypeOf(s.a, ty) = ty[s.i], ty>>
                [] s.k = "while"  -> LET b == CheckStmts(s.b, ty) IN <<IsTest(s.c, ty) /\ b[1], b[2]>>
                [] s.k = "if"     -> LET t == CheckStmts(s.t, ty)
                                         e == CheckStmts(s.e, t[2])
                                     IN  <<IsTest(s.c, ty) /\ t[1] /\ e[1], e[2]>>
                [] OTHER          -> <<FALSE, ty>>
      rest == CheckStmts(Tail(ss), step[2])
  IN  <<step[1] /\ rest[1], rest[2]>>

Accepts(r) == LET c == CheckStmts(r.stmts, [i \in 1 .. r.slots |-> "none"])
              IN  c[1] /\ TypeOf(r.result, c[2]) /= "none"

(***************************************************************************)
(* Stage 5, bytecode: an operation is <<name, operand>>. at is the address *)
(* of the first operation, so every jump target is known where it is made. *)
(***************************************************************************)
RECURSIVE ExprCode(_, _), StmtsCode(_, _)
ExprCode(e, at) ==
  CASE e.k \in {"int", "bool"} -> <<<<"push", e.n>>>>
    [] e.k = "slot"  -> <<<<"load", e.i>>>>
    [] e.k = "unary" -> Append(ExprCode(e.a, at), <<e.op, 0>>)
    [] e.k = "binary" /\ e.op \notin ShortCircuit ->
         LET a == ExprCode(e.a, at)
         IN  a \o Append(ExprCode(e.b, at + Len(a)), <<e.op, 0>>)
    [] OTHER ->
         LET a     == ExprCode(e.a, at) \o IF e.op = "||" THEN <<<<"not", 0>>>> ELSE <<>>
             b     == ExprCode(e.b, at + Len(a) + 1)
             short == at + Len(a) + Len(b) + 2
         IN  a \o <<<<"jump_if_false", short>>>> \o b
               \o <<<<"jump", short + 1>>, <<"push", Truth(e.op = "||")>>>>

StmtsCode(ss, at) ==
  IF ss = <<>> THEN <<>> ELSE
  LET s == Head(ss)
      code == CASE s.k \in {"let", "assign"} -> Append(ExprCode(s.a, at), <<"store", s.i>>)
                [] s.k = "while" ->
                     LET c == ExprCode(s.c, at)
                         b == StmtsCode(s.b, at + Len(c) + 1)
                     IN  c \o <<<<"jump_if_false", at + Len(c) + Len(b) + 2>>>> \o b \o <<<<"jump", at>>>>
                [] s.k = "if" ->
                     LET c == ExprCode(s.c, at)
                         t == StmtsCode(s.t, at + Len(c) + 1)
                         els == at + Len(c) + Len(t) + 2
                         e == StmtsCode(s.e, els)
                     IN  c \o <<<<"jump_if_false", els>>>> \o t \o <<<<"jump", els + Len(e)>>>> \o e
  IN  code \o StmtsCode(Tail(ss), at + Len(code))

Compile(r) == LET c == StmtsCode(r.stmts, 1)
              IN  c \o Append(ExprCode(r.result, Len(c) + 1), <<"halt", 0>>)

(***************************************************************************)
(* Stage 6, the machine. It stops with "stuck" where the code would panic  *)
(* (an empty stack), which an accepted program must never reach, and it    *)
(* also calls it stuck when a test finds neither 0 nor 1.                  *)
(***************************************************************************)
RECURSIVE Execute(_, _, _, _, _)
Execute(code, pc, stack, slots, fuel) ==
  LET op  == code[pc][1]
      arg == code[pc][2]
      n   == Len(stack)
      top == stack[n]
      below == SubSeq(stack, 1, n - 1)
      Next(st, sl) == Execute(code, pc + 1, st, sl, fuel - 1)
      needs == CASE op \in {"push", "load", "jump"} -> 0
                 [] op \in {"store", "neg", "not", "jump_if_false", "halt"} -> 1
                 [] OTHER -> 2
  IN  CASE fuel = 0 -> <<"fuel", 0>>
        [] fuel > 0 /\ n < needs -> <<"stuck", pc>>
        [] fuel > 0 /\ n >= needs ->
           CASE op = "push"  -> Next(Append(stack, arg), slots)
             [] op = "load"  -> Next(Append(stack, slots[arg]), slots)
             [] op = "store" -> Next(below, [slots EXCEPT ![arg] = top])
             [] op \in {"neg", "not"} -> Next(Append(below, Compute1(op, top)), slots)
             [] op = "jump"  -> Execute(code, arg, stack, slots, fuel - 1)
             [] op = "jump_if_false" -> IF top \notin {0, 1} THEN <<"stuck", pc>>
                                        ELSE IF top = 0 THEN Execute(code, arg, below, slots, fuel - 1)
                                        ELSE Next(below, slots)
             [] op = "halt"  -> IF n > 1 THEN <<"stuck", pc>> ELSE <<"ok", top>>
             [] OTHER -> IF Fails(op, top) THEN <<"trap", 0>>
                         ELSE Next(Append(SubSeq(stack, 1, n - 2), Compute(op, stack[n - 1], top)), slots)

RunStack(r, fuel) == Execute(Compile(r), 1, <<>>, [i \in 1 .. r.slots |-> 0], fuel)
=============================================================================
