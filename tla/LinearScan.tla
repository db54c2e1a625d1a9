----------------------------- MODULE LinearScan -----------------------------
(***************************************************************************)
(* Linear-scan register allocation (Poletto and Sarkar): the intervals are *)
(* taken in the order of their starts; those that ended before give their  *)
(* registers back; when none is free, the interval that ends last goes to  *)
(* a stack slot. Source: listings/part-17/ch08-01-regalloc.rs.             *)
(*                                                                         *)
(* Which free register is taken is left open (the code takes the last one  *)
(* freed), so what is shown holds for every such choice.                   *)
(***************************************************************************)
EXTENDS Integers, Sequences

VARIABLES problem,   \* ivs, the intervals [v, from, to] in order, and k, the number of registers
          next,      \* the interval to place
          active,    \* the intervals that hold registers, by index
          free,      \* registers
          slots,     \* stack slots given out
          loc        \* where each interval placed so far lives: register r, or slot s as -s

scanVars == <<problem, next, active, free, slots, loc>>
Iv(i)    == problem.ivs[i]
Placed   == 1 .. (next - 1)
Regs     == 0 .. (problem.k - 1)

\* The intervals that ended before interval next starts.
Expired == {i \in active : Iv(i).to < Iv(next).from}
Reusable == free \cup {loc[i] : i \in Expired}

\* The active interval that ends last, of two the higher virtual register.
EndsLast(i) == \A j \in active : \/ Iv(j).to < Iv(i).to
                                 \/ Iv(j).to = Iv(i).to /\ Iv(j).v <= Iv(i).v

Scanning == next <= Len(problem.ivs)
Advance  == Scanning /\ next' = next + 1 /\ UNCHANGED problem

TakeFree ==
  /\ Advance
  /\ \E r \in Reusable : free' = Reusable \ {r} /\ loc' = Append(loc, r)
  /\ active' = (active \ Expired) \cup {next}
  /\ UNCHANGED slots

\* Seeded fault: the evicted interval keeps its register.
EvictWithoutMoving ==
  /\ Advance
  /\ Reusable = {}
  /\ \E last \in active :
       /\ EndsLast(last)
       /\ Iv(last).to > Iv(next).to
       /\ loc' = Append(loc, loc[last])
       /\ active' = (active \ {last}) \cup {next}
  /\ slots' = slots + 1
  /\ UNCHANGED free

\* The interval that ends last blocks a register longest: if it outlives this
\* one, it moves to a slot and this one takes its register.
Evict ==
  /\ Advance
  /\ Reusable = {}
  /\ \E last \in active :
       /\ EndsLast(last)
       /\ Iv(last).to > Iv(next).to
       /\ loc' = Append([loc EXCEPT ![last] = -(slots + 1)], loc[last])
       /\ active' = (active \ {last}) \cup {next}
  /\ slots' = slots + 1
  /\ UNCHANGED free

SpillSelf ==
  /\ Advance
  /\ Reusable = {}
  /\ \E last \in active : EndsLast(last) /\ Iv(last).to <= Iv(next).to
  /\ loc' = Append(loc, -(slots + 1))
  /\ slots' = slots + 1
  /\ UNCHANGED <<active, free>>

ScanNext == TakeFree \/ Evict \/ SpillSelf

Overlap(i, j) == Iv(i).from <= Iv(j).to /\ Iv(j).from <= Iv(i).to

\* Two virtual registers that are live at the same point never have the same
\* place, through every expiry and eviction.
NoSharing == \A i, j \in Placed : i /= j /\ Overlap(i, j) => loc[i] /= loc[j]
=============================================================================
