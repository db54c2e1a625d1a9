------------------------------- MODULE MCOre -------------------------------
(***************************************************************************)
(* One run for the compiler chapters: a behaviour is either a compilation  *)
(* by both Ore compilers, a register allocation, a dataflow analysis, or a *)
(* construction of SSA form. The machines share no state; the others rest. *)
(***************************************************************************)
EXTENDS OreCompiler, RegAlloc, Dataflow, SsaForm

p == Ref("p")
x == Ref("x")
n(i) == Num(i)
Plus(a, b) == Binary("+", a, b)
Arm(e)     == Block(<<Assign("x", e)>>, Absent)
Fn(core, ss, t) == [core |-> core, body |-> Block(ss, t)]

\* The values of x: constants, what folds, what may trap (MIN / -1 wraps).
Values == {n(0), Plus(p, n(1)), Binary("/", n(3), p), Binary("/", p, Unary("neg", n(1)))}
\* A test that needs p /= 0 for its right operand, either way; one that folds; one that is no test.
Conds  == {Binary("<", p, n(1)), BoolLit(TRUE), x,
           Binary("||", Binary("==", p, n(0)), Binary(">", Binary("/", n(3), p), n(1))),
           Binary("&&", Binary("!=", p, n(0)), Binary("==", Binary("%", p, n(2)), n(0)))}

Branching == {Fn(TRUE, <<Let("x", TRUE, a), If(c, Arm(b), e)>>, t) :
                a \in Values, c \in Conds, b \in {Plus(x, n(1)), Plus(n(1), p)},
                e \in {Absent, Arm(Plus(p, n(1)))}, t \in {x, Plus(x, Plus(p, n(1)))}}
\* x is assigned in one inner arm only, so the outer join needs a phi because the inner one has one.
Nested    == {Fn(TRUE, <<Let("x", TRUE, a), If(Binary("<", p, n(1)), Block(<<If(c, Arm(n(1)), e)>>, Absent), Absent)>>, x) :
                a \in Values, c \in Conds, e \in {Absent, Arm(x)}}
Counted(a, s) == <<Let("x", TRUE, a), Let("i", TRUE, n(0)),
                   While(Binary("<", Ref("i"), p), Block(<<Assign("i", Plus(Ref("i"), n(1))), s>>, Absent))>>
Loops     == {Fn(TRUE, Counted(a, s), t) : a \in {p, n(0)}, t \in {x, n(1)},
                s \in {Assign("x", Plus(x, Ref("i"))), Let("x", FALSE, Ref("i")), Assign("x", Binary("/", x, n(0))),
                       If(Binary("==", x, n(0)), Arm(Ref("i")), Absent)}}
Refused   == {Fn(TRUE, <<Let("x", FALSE, n(0)), Assign("x", p)>>, x), Fn(TRUE, <<Let("x", FALSE, BoolLit(TRUE))>>, Plus(x, p)),
              Fn(TRUE, <<If(BoolLit(TRUE), Block(<<Let("x", FALSE, p)>>, Absent), Absent)>>, x)}
\* Calls that fail for p = 0, values of ifs and blocks, returns from inside.
Beyond    == {Fn(FALSE, <<Let("x", TRUE, a), Let("y", FALSE, v)>>, t) : a \in {p, Call("g", p)}, t \in {n(1), x, Ref("y")},
                v \in {Call("g", p), Binary("*", Call("g", p), n(0)),
                       If(Binary("<", p, n(1)), Block(<<>>, Plus(p, n(1))), Block(<<Return(Plus(n(1), p))>>, n(0))),
                       Block(<<Let("x", FALSE, Plus(p, n(1)))>>, Plus(x, x)),
                       Plus(x, Block(<<Assign("x", n(1))>>, x)),
                       If(Binary("<", p, n(1)), Block(<<Return(x)>>, Absent), Absent)}}
             \cup {Fn(FALSE, Counted(p, Return(Ref("i"))), x)}

MCPrograms == Branching \cup Nested \cup Loops \cup Refused \cup Beyond
MCLibrary  == [f |-> NoFn, g |-> LowerFn(<<"a">>, Block(<<>>, Binary("/", n(3), Ref("a"))))]
MCInputs   == {-8, 0, 2}

(***************************************************************************)
(* Allocation: a loop over i = v3 with two arithmetic instructions. v1 and *)
(* v2 are copies of the arguments, v4 takes what the body computes.        *)
(***************************************************************************)
Zero == Imm(0)
Step3(op, d, a, b) == Tac(op, d, a, b, 0)
Code(s, t, r) == <<Step3("copy", 1, Arg(1), Zero), Step3("copy", 2, Arg(2), Zero),
                   Step3("copy", 3, Zero, Zero), Step3("copy", 4, Zero, Zero),
                   Tac("label", 0, Zero, Zero, 1), Tac("jge", 0, V(3), V(1), 2),
                   s, t, Step3("+", 3, V(3), Imm(1)), Tac("jmp", 0, Zero, Zero, 1),
                   Tac("label", 0, Zero, Zero, 2), Step3("-", 6, r, V(2)), Step3("ret", 0, V(6), Zero)>>
Bodies  == {Step3(op, d, V(a), V(b)) : op \in {"-"}, d \in {2, 4, 5}, a \in {2, 3}, b \in {2, 4}}
           \cup {Step3("copy", d, V(a), Zero) : d \in {2, 4}, a \in {2, 4}}
Finals  == {Step3("-", 4, V(2), V(4)), Step3("copy", 4, V(2), Zero)}
MCCodes    == {Code(s, t, r) : s \in Bodies, t \in Finals, r \in {V(4), V(2)}}
MCCounts   == {1, 2, 4}
MCArgLists == {<<2, 3>>, <<0, 1>>}
NoProblem  == [ivs |-> <<>>, k |-> 0]

(***************************************************************************)
(* Analyses: three blocks; the last may loop back.                         *)
(***************************************************************************)
Events == {<<>>, <<"def">>, <<"use">>, <<"use", "def">>}
MCFlowGraphs == {[events |-> <<a, b, c>>, succs |-> s, param |-> given0] :
                   a, b, c \in Events, given0 \in BOOLEAN,
                   s \in {<<{2, 3}, {3}, {}>>, <<{2}, {2, 3}, {}>>, <<{2}, {3}, {1, 2}>>, <<{2, 3}, {1}, {}>>}}
NoGraph == [events |-> <<<<>>>>, succs |-> <<{}>>, param |-> TRUE]

(***************************************************************************)
(* Dominators: every graph of four blocks with branches of two ways, and   *)
(* one with two loops entered from outside that takes several rounds.      *)
(***************************************************************************)
TwoWays == {ts \in SUBSET (2 .. 4) : Cardinality(ts) <= 2}
MCCfgs  == {s \in [1 .. 4 -> TwoWays] : Spread(s, {1}, 1 .. 4) = 1 .. 4} \cup {<<{3, 5}, {4}, {2, 4}, {3, 5}, {4}>>}
NoCfg   == <<{}>>

(***************************************************************************)
(* One variable on four of these graphs: a diamond, a loop, one entered at *)
(* two places, and a loop in a chain.                                      *)
(***************************************************************************)
Shapes  == {<<{2, 3}, {4}, {4}, {}>>, <<{2}, {3, 4}, {2}, {}>>, <<{2, 3}, {3}, {2, 4}, {}>>, <<{2}, {2, 3}, {3, 4}, {}>>}
Doings  == {<<>>, <<"use">>, <<"use", "def">>, <<"def", "use">>}
MCTexts == {[cfg |-> s, text |-> t] : s \in Shapes, t \in [1 .. 4 -> Doings]}

OreRests   == program = Fn(FALSE, <<>>, n(0)) /\ given = <<>> /\ fn = NoFn /\ stage = "idle"
AllocRests == /\ problem = NoProblem /\ next = 1 /\ active = {} /\ free = {} /\ slots = 0 /\ loc = <<>>
              /\ code = <<>> /\ doing = "idle" /\ line = 0 /\ same = TRUE /\ liveIn = <<>> /\ liveOut = <<>> /\ NoRun
FlowRests  == graph = NoGraph /\ analysis = "assigned" /\ fact = <<TRUE>> /\ block = 2 /\ changed = FALSE /\ settled = TRUE
SsaRests   == /\ cfg = NoCfg /\ phase = "idle" /\ visiting = <<>> /\ postorder = <<>> /\ idom = <<1>> /\ frontier = <<{}>>
              /\ at = 0 /\ todo = {} /\ newIdom = 0 /\ runner = 0 /\ moved = FALSE
              /\ text = <<>> /\ building = "idle" /\ phis = {} /\ work = {}
              /\ calls = <<>> /\ stack = <<>> /\ named = <<>> /\ filled = <<>>

MCInit == \/ OreInit /\ AllocRests /\ FlowRests /\ SsaRests
          \/ AllocInit /\ OreRests /\ FlowRests /\ SsaRests
          \/ FlowInit /\ OreRests /\ AllocRests /\ SsaRests
          \/ SsaInit /\ OreRests /\ AllocRests /\ FlowRests
MCNext == \/ OreNext /\ UNCHANGED <<allocVars, flowVars, formVars>>
          \/ AllocNext /\ UNCHANGED <<oreVars, flowVars, formVars>>
          \/ FlowNext /\ UNCHANGED <<oreVars, allocVars, formVars>>
          \/ SsaNext /\ UNCHANGED <<oreVars, allocVars, flowVars>>
MCSpec == MCInit /\ [][MCNext]_<<oreVars, allocVars, flowVars, formVars>>
=============================================================================
