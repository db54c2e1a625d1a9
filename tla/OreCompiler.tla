---------------------------- MODULE OreCompiler ----------------------------
(***************************************************************************)
(* Both Ore compilers on the same programs. A program is a function body   *)
(* over the parameter p. The stack compiler sees it behind `let p = v;`    *)
(* for each input v; the optimizing one compiles it with p as a parameter, *)
(* or behind the same let (given = <<v>>), and runs its passes in the      *)
(* order main does. Source: listings/part-17/ch07-01-optimizer.rs, main.   *)
(*                                                                         *)
(* A core program is in the language of both. The others use calls,        *)
(* return, values of blocks and an if without else, which only the         *)
(* optimizing compiler knows; that file has no type checker, so they are   *)
(* well typed.                                                             *)
(***************************************************************************)
EXTENDS OreStack, OreOptimizer

CONSTANTS Programs,   \* records: body, and whether it is core
          Library,    \* the other functions of the program, by name
          Inputs,     \* the arguments runs are compared on
          Fuel        \* bound on the blocks a run enters and, times 8, on the operations of the stack machine

VARIABLES program, given, fn, stage
oreVars == <<program, given, fn, stage>>

Bound(v, body) == Block(<<Let("p", FALSE, Num(v))>> \o body.stmts, body.tail)
Stacked(v)     == Resolve(Bound(v, program.body))
WellFormed     == \A v \in Inputs : Accepts(Stacked(v))
Lowered        == IF given = <<>> THEN LowerFn(<<"p">>, program.body)
                                  ELSE LowerFn(<<>>, Bound(given[1], program.body))
ResultOf(f, v) == Run([Library EXCEPT !.f = f], "f", IF given = <<>> THEN <<v>> ELSE <<>>, Fuel)
Cases          == IF given = <<>> THEN Inputs ELSE {given[1]}
NoFn           == [params |-> 0, vars |-> 0, blocks |-> <<>>]

OreInit == /\ program \in Programs
           /\ given \in {<<>>} \cup {<<v>> : v \in Inputs}
           /\ fn = NoFn
           /\ stage = "source"

Pass(from, to, f) == /\ stage = from
                     /\ stage' = to
                     /\ fn' = f
                     /\ UNCHANGED <<program, given>>

Reject   == program.core /\ ~ WellFormed /\ Pass("source", "rejected", NoFn)
Lower    == (program.core => WellFormed) /\ Pass("source", "cfg", Lowered)
BuildSsa == Pass("cfg", "ssa", ToSsa(fn))
Optimize == \/ Pass("ssa", "simplified", Simplify(fn))
            \/ Pass("simplified", "numbered", Gvn(fn))
            \/ Pass("numbered", "swept", Dce(fn))
            \/ Pass("swept", "cleaned", Simplify(fn))
            \/ Pass("cleaned", "merged", MergeBlocks(fn))

OreNext == Reject \/ Lower \/ BuildSsa \/ Optimize
OreSpec == OreInit /\ [][OreNext]_oreVars

-----------------------------------------------------------------------------
Compiled == stage \notin {"idle", "source", "rejected"}

\* The two compilers give a program one meaning: the same value, or a division
\* by zero in both, with short-circuit operands evaluated only when needed.
CompilersAgree ==
  program.core /\ stage \in {"cfg", "merged"} =>
    \A v \in Cases : ResultOf(fn, v) = RunStack(Stacked(v), 8 * Fuel)

\* No pass changes what a run returns, and none hides a run-time error.
PassesPreserve == Compiled => \A v \in Cases : ResultOf(fn, v) = ResultOf(Lowered, v)

\* Every value has one definition, which dominates its uses, and a phi has one
\* argument per incoming edge, also after blocks were removed and merged; and
\* the dominators computed for the graph of every stage are those of its paths.
SsaStrict == /\ Compiled /\ stage /= "cfg" => StrictSsa(fn)
             /\ Compiled => DominanceIsExact(fn)
=============================================================================
