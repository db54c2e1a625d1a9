------------------------------ MODULE RegAlloc ------------------------------
(***************************************************************************)
(* The back end end to end: liveness and live intervals, linear scan,      *)
(* two-address instruction selection, and a run of the result by the       *)
(* emulator next to the interpreter of the input. Source:                  *)
(* listings/part-17/ch08-01-regalloc.rs. Assembly is instructions, not     *)
(* text: <<mnemonic, operand, operand>>; a line of it is the place of its  *)
(* three-address instruction and its place among what that one became.     *)
(*                                                                         *)
(* The two runs are independent of each other. Here the interpreter looks  *)
(* its operands up, the emulator executes what the instruction became, and *)
(* the interpreter stores its result: so they can be compared throughout.  *)
(***************************************************************************)
EXTENDS LinearScan, OreArith

V(n)   == <<"v", n>>
Imm(c) == <<"imm", c>>
Arg(i) == <<"arg", i>>
Tac(op, d, a, b, l) == [op |-> op, d |-> d, a |-> a, b |-> b, l |-> l]
Arith    == {"+", "-", "*"}
Defining == Arith \cup {"copy"}
Operand  == {"v", "arg"} \X Nat \cup {"imm"} \X Int
Tacs     == [op : Defining \cup {"label", "jge", "jmp", "ret"}, d : Nat, a : Operand, b : Operand, l : Nat]
Labels(c, l) == {i \in DOMAIN c : c[i].op = "label" /\ c[i].l = l}

CONSTANTS Codes,             \* programs, as sequences of Tacs
          RegisterCounts,    \* the numbers of registers to allocate for
          ArgLists           \* the arguments runs are compared on

\* The code looks labels up with unwrap and steps to the next line by index.
ASSUME CodesAssumption ==
  \A c \in Codes : /\ c \in Seq(Tacs) /\ c /= <<>>
                   /\ c[Len(c)].op \in {"jmp", "ret"}
                   /\ \A i \in DOMAIN c : c[i].op \in {"jmp", "jge"} => Labels(c, c[i].l) /= {}
ASSUME CountsAssumption == RegisterCounts \subseteq Nat \ {0}

VARIABLES code,
          doing,             \* "live", "spans", "scan", "run", or "idle"
          line, same,        \* liveness: the next line, upwards, and whether this round changed nothing
          liveIn, liveOut,
          args, turn,        \* a run: whether "fetch", "asm" or "store" comes next, or "done"
          pc, vregs, answer, \* the interpreter
          epc, upc, mem, ge, result    \* the emulator

liveVars  == <<line, same, liveIn, liveOut>>
runVars   == <<args, turn, pc, vregs, answer, epc, upc, mem, ge, result>>
allocVars == <<scanVars, code, doing, liveVars, runVars>>

NoRun == /\ args = <<>> /\ turn = "fetch"
         /\ pc = 1 /\ vregs = <<>> /\ answer = <<>>
         /\ epc = 1 /\ upc = 1 /\ mem = <<>> /\ ge = FALSE /\ result = <<>>

AllocInit == /\ code \in Codes
             /\ doing = "live"
             /\ line = Len(code) /\ same = TRUE
             /\ liveIn = [i \in DOMAIN code |-> {}] /\ liveOut = liveIn
             /\ problem = [ivs |-> <<>>, k |-> 0] /\ next = 1
             /\ active = {} /\ free = {} /\ slots = 0 /\ loc = <<>>
             /\ NoRun

(***************************************************************************)
(* Liveness: upwards through the lines, until a round changes nothing.     *)
(***************************************************************************)
Operands(t) == CASE t.op \in Arith \cup {"jge"} -> {t.a, t.b}
                 [] t.op \in {"copy", "ret"}    -> {t.a}
                 [] OTHER                       -> {}
Uses(t)     == {o[2] : o \in {u \in Operands(t) : u[1] = "v"}}
Defs(t)     == IF t.op \in Defining THEN {t.d} ELSE {}
LabelAt(l)  == CHOOSE i \in Labels(code, l) : \A j \in Labels(code, l) : i <= j
Follows(i)  == CASE code[i].op = "jmp" -> {LabelAt(code[i].l)}
                 [] code[i].op = "jge" -> {i + 1, LabelAt(code[i].l)}
                 [] code[i].op = "ret" -> {}
                 [] OTHER              -> {i + 1}
Out(i)      == UNION {liveIn[s] : s \in Follows(i)}
In(i, out)  == (out \ Defs(code[i])) \cup Uses(code[i])

LiveLine ==
  /\ doing = "live" /\ line > 0
  /\ liveOut' = [liveOut EXCEPT ![line] = Out(line)]
  /\ liveIn'  = [liveIn EXCEPT ![line] = In(line, Out(line))]
  /\ same' = (same /\ liveIn' = liveIn /\ liveOut' = liveOut)
  /\ line' = line - 1
  /\ UNCHANGED <<scanVars, code, doing, runVars>>

LiveRound ==
  /\ doing = "live" /\ line = 0
  /\ IF same THEN doing' = "spans" /\ UNCHANGED <<line, same>>
             ELSE line' = Len(code) /\ same' = TRUE /\ UNCHANGED doing
  /\ UNCHANGED <<scanVars, code, liveIn, liveOut, runVars>>

(***************************************************************************)
(* Intervals: from the first to the last line that touches the register,   *)
(* in the order of their starts, then of the registers.                    *)
(***************************************************************************)
\* Seeded fault: an interval ends at the last mention, also in a loop.
TouchedInText(i) == Uses(code[i]) \cup Defs(code[i])
Touched(i) == Uses(code[i]) \cup Defs(code[i]) \cup liveOut[i]

Touches(v) == {i \in DOMAIN code : v \in Touched(i)}
Listed     == {problem.ivs[j].v : j \in DOMAIN problem.ivs}
Unlisted   == (UNION {Touched(i) : i \in DOMAIN code}) \ Listed

ListSpan ==
  /\ doing = "spans"
  /\ \E v \in Unlisted : \E from, to \in Touches(v) :
       /\ \A i \in Touches(v) : from <= i /\ i <= to
       /\ \A w \in Unlisted \ {v} : \A i \in Touches(w) : from < i \/ (from = i /\ v < w)
       /\ problem' = [problem EXCEPT !.ivs = Append(@, [v |-> v, from |-> from, to |-> to])]
  /\ UNCHANGED <<next, active, free, slots, loc, code, doing, liveVars, runVars>>

StartScan ==
  /\ doing = "spans" /\ Unlisted = {}
  /\ doing' = "scan"
  /\ \E k \in RegisterCounts : problem' = [problem EXCEPT !.k = k] /\ free' = 0 .. (k - 1)
  /\ UNCHANGED <<next, active, slots, loc, code, liveVars, runVars>>

Scan == doing = "scan" /\ ScanNext /\ UNCHANGED <<code, doing, liveVars, runVars>>

(***************************************************************************)
(* Instruction selection. Scratch is r11, Result is rax.                   *)
(***************************************************************************)
Scratch == <<"reg", -1>>
Result  == <<"reg", -2>>
InMemory(o) == o[1] \in {"slot", "arg"}
LocOf(v)   == loc[CHOOSE i \in DOMAIN problem.ivs : Iv(i).v = v]
PlaceOf(o) == IF o[1] /= "v" THEN o
              ELSE IF LocOf(o[2]) >= 0 THEN <<"reg", LocOf(o[2])>> ELSE <<"slot", -LocOf(o[2])>>

SelectBin(op, d, a, b) ==
  IF InMemory(d) \/ d = b
  THEN <<<<"mov", Scratch, a>>, <<op, Scratch, b>>, <<"mov", d, Scratch>>>>
  ELSE IF d = a THEN <<<<op, d, b>>>> ELSE <<<<"mov", d, a>>, <<op, d, b>>>>

SelectOne(t) ==
  LET d == PlaceOf(V(t.d))
      a == PlaceOf(t.a)
      b == PlaceOf(t.b)
      jge == <<"jge", Imm(t.l), Imm(0)>>
  IN  CASE t.op = "copy" -> IF InMemory(d) /\ InMemory(a) THEN <<<<"mov", Scratch, a>>, <<"mov", d, Scratch>>>>
                                                          ELSE <<<<"mov", d, a>>>>
        [] t.op \in Arith -> SelectBin(t.op, d, a, b)
        [] t.op = "jge" -> IF InMemory(a) \/ a[1] = "imm" THEN <<<<"mov", Scratch, a>>, <<"cmp", Scratch, b>>, jge>>
                                                          ELSE <<<<"cmp", a, b>>, jge>>
        [] t.op = "ret" -> <<<<"mov", Result, a>>, <<"ret", Imm(0), Imm(0)>>>>
        [] OTHER -> <<<<t.op, Imm(t.l), Imm(0)>>>>        \* jmp, label

(***************************************************************************)
(* The runs. Looking up a register or a place that was never written is a  *)
(* panic: that step is not enabled.                                        *)
(***************************************************************************)
Put(f, x, v) == [y \in DOMAIN f \cup {x} |-> IF y = x THEN v ELSE f[y]]
Known(o) == CASE o[1] = "imm" -> TRUE [] o[1] = "arg" -> o[2] \in DOMAIN args [] OTHER -> o[2] \in DOMAIN vregs
Val(o)   == CASE o[1] = "imm" -> o[2] [] o[1] = "arg" -> args[o[2]] [] OTHER -> vregs[o[2]]
Written(o) == o[1] = "imm" \/ o \in DOMAIN mem
Read(o)    == IF o[1] = "imm" THEN o[2] ELSE mem[o]

StartRun ==
  /\ doing = "scan" /\ ~ Scanning
  /\ doing' = "run"
  /\ args' \in ArgLists
  /\ mem' = [o \in {Arg(i) : i \in DOMAIN args'} |-> args'[o[2]]]
  /\ UNCHANGED <<scanVars, code, liveVars, turn, pc, vregs, answer, epc, upc, ge, result>>

Turn(t) == doing = "run" /\ turn = t /\ UNCHANGED <<scanVars, code, doing, liveVars, args>>

Fetch ==
  /\ Turn("fetch")
  /\ \A o \in Operands(code[pc]) : Known(o)
  /\ turn' = "asm"
  /\ UNCHANGED <<pc, vregs, answer, epc, upc, mem, ge, result>>

Outcome(t) == IF t.op = "copy" THEN Val(t.a) ELSE Compute(t.op, Val(t.a), Val(t.b))
NextPc(t)  == IF t.op = "jmp" \/ (t.op = "jge" /\ Val(t.a) >= Val(t.b)) THEN LabelAt(t.l) ELSE pc + 1

Store ==
  /\ Turn("store")
  /\ code[pc].op /= "ret"
  /\ turn' = "fetch"
  /\ pc' = NextPc(code[pc])
  /\ vregs' = IF code[pc].op \in Defining THEN Put(vregs, code[pc].d, Outcome(code[pc])) ELSE vregs
  /\ UNCHANGED <<answer, epc, upc, mem, ge, result>>

StoreRet ==
  /\ Turn("store")
  /\ code[pc].op = "ret"
  /\ turn' = "done"
  /\ answer' = <<Val(code[pc].a)>>
  /\ UNCHANGED <<pc, vregs, epc, upc, mem, ge, result>>

Asm   == SelectOne(code[epc])
Instr == Asm[upc]
\* The operands a line of assembly reads.
Reads(i) == CASE i[1] = "mov"                 -> {i[3]}
              [] i[1] \in Arith \cup {"cmp"}  -> {i[2], i[3]}
              [] i[1] = "ret"                 -> {Result}
              [] OTHER                        -> {}
Executes(ms) == /\ Turn("asm")
                /\ Instr[1] \in ms
                /\ \A o \in Reads(Instr) : Written(o)
                /\ UNCHANGED <<pc, vregs, answer>>
NextLine == IF upc < Len(Asm) THEN upc' = upc + 1 /\ UNCHANGED <<epc, turn>>
                              ELSE upc' = 1 /\ epc' = epc + 1 /\ turn' = "store"

AsmMove ==
  /\ Executes({"mov"} \cup Arith)
  /\ mem' = Put(mem, Instr[2], IF Instr[1] = "mov" THEN Read(Instr[3])
                               ELSE Compute(Instr[1], Read(Instr[2]), Read(Instr[3])))
  /\ NextLine
  /\ UNCHANGED <<ge, result>>

AsmCompare ==
  /\ Executes({"cmp"})
  /\ ge' = (Read(Instr[2]) >= Read(Instr[3]))
  /\ NextLine
  /\ UNCHANGED <<mem, result>>

AsmLabel == Executes({"label"}) /\ NextLine /\ UNCHANGED <<mem, ge, result>>

AsmJump ==
  /\ Executes({"jmp", "jge"})
  /\ IF Instr[1] = "jmp" \/ ge THEN epc' = LabelAt(Instr[2][2]) /\ upc' = 1 /\ turn' = "store" ELSE NextLine
  /\ UNCHANGED <<mem, ge, result>>

AsmRet ==
  /\ Executes({"ret"})
  /\ result' = <<mem[Result]>>
  /\ turn' = "store"
  /\ UNCHANGED <<epc, upc, mem, ge>>

AllocNext == \/ LiveLine \/ LiveRound \/ ListSpan \/ StartScan \/ Scan
             \/ StartRun \/ Fetch \/ AsmMove \/ AsmCompare \/ AsmLabel \/ AsmJump \/ AsmRet \/ Store \/ StoreRet
AllocSpec == AllocInit /\ [][AllocNext]_allocVars

\* With spilled and shared registers, two-address instructions and scratch
\* moves, the emulator stays where the interpreter is, finds written what it
\* reads, and returns what the virtual registers compute.
AllocationSound ==
  doing = "run" => /\ turn = "fetch" => epc = pc /\ upc = 1 /\ result = <<>>
                   /\ turn = "asm"   => \A o \in Reads(Instr) : Written(o)
                   /\ turn = "done"  => result = answer
=============================================================================
