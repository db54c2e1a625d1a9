------------------------------ MODULE OreArith ------------------------------
(***************************************************************************)
(* Arithmetic of the compiler chapters: wrapping, division toward zero.    *)
(* Division by zero is the one run-time error. Source:                     *)
(* listings/part-17/ch06-01-cfg.rs, ch07-01-optimizer.rs and, for apply,   *)
(* ch08-01-regalloc.rs.                                                    *)
(***************************************************************************)
EXTENDS Integers

CONSTANT Half     \* integers are -Half..Half-1; i64 has Half = 2^63

Dividing   == {"/", "%"}
Wrap(n)    == ((n + Half) % (2 * Half)) - Half
Abs(n)     == IF n < 0 THEN -n ELSE n
Quot(x, y) == IF (x < 0) = (y < 0) THEN Abs(x) \div Abs(y) ELSE -(Abs(x) \div Abs(y))
Truth(p)   == IF p THEN 1 ELSE 0
Fails(op, y) == op \in Dividing /\ y = 0

Compute(op, x, y) ==
  CASE op = "+"  -> Wrap(x + y)
    [] op = "-"  -> Wrap(x - y)
    [] op = "*"  -> Wrap(x * y)
    [] op = "/"  -> Wrap(Quot(x, y))
    [] op = "%"  -> x - y * Quot(x, y)
    [] op = "==" -> Truth(x = y)
    [] op = "!=" -> Truth(x /= y)
    [] op = "<"  -> Truth(x < y)
    [] op = "<=" -> Truth(x <= y)
    [] op = ">"  -> Truth(x > y)
    [] op = ">=" -> Truth(x >= y)
Compute1(op, x) == IF op = "neg" THEN Wrap(-x) ELSE Truth(x = 0)
=============================================================================
