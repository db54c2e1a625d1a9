----------------------------- MODULE OreProofs ------------------------------
(***************************************************************************)
(* Four parts of the compiler chapters. The back end: linear scan never    *)
(* gives two overlapping intervals one place, for any problem, whichever   *)
(* free register is taken (a register may be handed out again because its  *)
(* last owner is neither active nor ends at or after the newest start);    *)
(* and with liveness before it and selection after it, the emulator does   *)
(* what the interpreter does: what is live is in its place, and what a     *)
(* line of assembly overwrites belongs to no other register that is live.  *)
(* Both dataflow analyses, once settled, say exactly what the paths of the *)
(* graph say, for any graph: a fact is moved from its start only for a     *)
(* path that shows it, and a round without a change has found every block  *)
(* to agree with its neighbours. The dominators and frontiers are those    *)
(* the paths define, for any graph and any order of its edges: what is     *)
(* above a block never loses a dominator, and a round without a change has *)
(* found every predecessor below what the block has been given, so that    *)
(* nothing gets around it. And SSA form names every use the one version    *)
(* that is the last made on every path to it: with phis at the iterated    *)
(* frontier, only the nearest maker above a block can be the last on a     *)
(* path to it, and that one is on top of the stack.                        *)
(***************************************************************************)
EXTENDS RegAlloc, Dataflow, SsaForm, FiniteSetTheorems, SequenceTheorems, TLAPS

\* One interval per virtual register, sorted by start.
Sorted(ivs) == \A i, j \in DOMAIN ivs : i < j => ivs[i].from <= ivs[j].from /\ ivs[i].v /= ivs[j].v
WellPosed   == /\ problem.k \in Nat \ {0}
               /\ problem.ivs \in Seq([v : Nat, from : Nat, to : Nat])
               /\ Sorted(problem.ivs)

\* The indices, registers and places are in range.
Shape == /\ WellPosed
         /\ next \in 1 .. (Len(problem.ivs) + 1)
         /\ loc \in Seq(Int)
         /\ Len(loc) = next - 1
         /\ slots \in Nat
         /\ free \subseteq Regs
         /\ active \subseteq Placed

\* An active interval has a register of its own, which is not free.
ActiveOwn == /\ \A i \in active : loc[i] \in Regs /\ loc[i] \notin free
             /\ \A i, j \in active : i /= j => loc[i] /= loc[j]

\* What has a register and is not active ended before the newest start.
OthersEnded == \A i \in Placed \ active : loc[i] >= 0 => Iv(i).to < Iv(next - 1).from

\* Every slot is given out once.
SlotsOnce == /\ \A i \in Placed : loc[i] >= -slots
             /\ \A i, j \in Placed : i /= j /\ loc[i] < 0 => loc[i] /= loc[j]

ScanInv == Shape /\ ActiveOwn /\ OthersEnded /\ SlotsOnce /\ NoSharing

-----------------------------------------------------------------------------
LEMMA Intervals ==
  ASSUME Shape
  PROVE  /\ problem.k \in Nat \ {0}
         /\ \A i \in 1 .. Len(problem.ivs) : Iv(i).v \in Nat /\ Iv(i).from \in Nat /\ Iv(i).to \in Nat
         /\ \A i, j \in 1 .. Len(problem.ivs) : i < j => Iv(i).from <= Iv(j).from
         /\ Len(problem.ivs) \in Nat
         /\ next \in Nat
<1>2. /\ problem.k \in Nat \ {0}
      /\ problem.ivs \in Seq([v : Nat, from : Nat, to : Nat])
      /\ Sorted(problem.ivs)
  BY DEF Shape, WellPosed
<1>3. DOMAIN problem.ivs = 1 .. Len(problem.ivs) /\ Len(problem.ivs) \in Nat
  BY <1>2
<1>4. \A i \in 1 .. Len(problem.ivs) : problem.ivs[i] \in [v : Nat, from : Nat, to : Nat]
  <2> DEFINE S == [v : Nat, from : Nat, to : Nat]
             q == problem.ivs
  <2>1. q \in Seq(S)
    BY <1>2
  <2> HIDE DEF S, q
  <2>2. \A i \in 1 .. Len(q) : q[i] \in S
    BY <2>1
  <2> QED
    BY <2>2 DEF S, q
<1>5. next \in Nat
  BY <1>3 DEF Shape
<1> QED
  BY <1>2, <1>3, <1>4, <1>5 DEF Sorted, Iv

\* What a step keeps of the problem.
LEMMA Steps ==
  ASSUME Shape, Advance
  PROVE  /\ next \in 1 .. Len(problem.ivs)
         /\ problem' = problem
         /\ next' = next + 1
         /\ Placed' = Placed \cup {next}
         /\ next \notin Placed
         /\ Regs' = Regs
         /\ next \in Nat
         /\ DOMAIN loc = Placed
<1>1. Len(problem.ivs) \in Nat /\ next \in Nat
  BY Intervals
<1>2. next \in 1 .. Len(problem.ivs) /\ problem' = problem /\ next' = next + 1
  BY <1>1 DEF Advance, Scanning, Shape
<1>3. Placed' = Placed \cup {next} /\ next \notin Placed
  BY <1>1, <1>2 DEF Placed
<1>4. DOMAIN loc = Placed
  BY <1>1 DEF Shape, Placed
<1> QED
  BY <1>1, <1>2, <1>3, <1>4 DEF Regs

\* An interval that may lose its register to the newest one ended before it.
LEMMA EndedBefore ==
  ASSUME ScanInv, Advance, NEW i \in Placed \ active, loc[i] >= 0
  PROVE  Iv(i).to < Iv(next).from
<1>1. Iv(i).to < Iv(next - 1).from
  BY DEF ScanInv, OthersEnded
<1>2. next \in 1 .. Len(problem.ivs) /\ next \in Nat
  BY Steps DEF ScanInv
<1>3. next - 1 \in 1 .. Len(problem.ivs) /\ i \in 1 .. Len(problem.ivs) /\ Len(problem.ivs) \in Nat
  BY <1>2, Intervals DEF Placed, ScanInv
<1>4. Iv(next - 1).from <= Iv(next).from
  BY <1>2, <1>3, Intervals DEF ScanInv
<1>5. Iv(i).to \in Nat /\ Iv(next - 1).from \in Nat /\ Iv(next).from \in Nat
  BY <1>2, <1>3, Intervals DEF ScanInv
<1> QED
  BY <1>1, <1>4, <1>5

\* No interval is placed before the first step.
LEMMA InitScan ==
  ASSUME WellPosed, next = 1, active = {}, slots = 0, loc = <<>>, free = Regs
  PROVE  ScanInv
<1>1. Len(problem.ivs) \in Nat
  BY DEF WellPosed
<1>2. Placed = {}
  BY DEF Placed
<1>3. Shape
  BY <1>1, <1>2 DEF Shape
<1> QED
  BY <1>2, <1>3 DEF ScanInv, ActiveOwn, OthersEnded, SlotsOnce, NoSharing

-----------------------------------------------------------------------------
\* Appending keeps the places given before.
LEMMA AppendPlace ==
  ASSUME NEW s \in Seq(Int), NEW e \in Int, Len(s) = next - 1, next \in Nat \ {0}
  PROVE  /\ Append(s, e) \in Seq(Int)
         /\ Len(Append(s, e)) = next
         /\ \A i \in Placed : Append(s, e)[i] = s[i] /\ s[i] \in Int
         /\ Append(s, e)[next] = e
BY DEF Placed

\* So does replacing one.
LEMMA UpdatePlace ==
  ASSUME NEW s \in Seq(Int), NEW e \in Int, NEW j \in 1 .. Len(s)
  PROVE  [s EXCEPT ![j] = e] \in Seq(Int) /\ Len([s EXCEPT ![j] = e]) = Len(s)
BY ExceptSeq

LEMMA TakeFreeStep == ASSUME ScanInv, TakeFree PROVE ScanInv'
<1>0. Shape /\ Advance
  BY DEF ScanInv, TakeFree
<1>1. /\ next \in 1 .. Len(problem.ivs) /\ problem' = problem /\ next' = next + 1
      /\ Placed' = Placed \cup {next} /\ next \notin Placed /\ Regs' = Regs /\ next \in Nat
  BY <1>0, Steps
<1>2. PICK r \in Reusable : free' = Reusable \ {r} /\ loc' = Append(loc, r)
  BY DEF TakeFree
<1>3. active' = (active \ Expired) \cup {next} /\ slots' = slots
  BY DEF TakeFree
<1>4. Reusable \subseteq Regs /\ r \in Int /\ r >= 0
  <2>1. Reusable \subseteq Regs
    BY DEF Reusable, Expired, ScanInv, Shape, ActiveOwn
  <2>2. problem.k \in Nat
    BY <1>0, Intervals
  <2> QED
    BY <2>1, <2>2 DEF Regs
<1>5. /\ loc' \in Seq(Int) /\ Len(loc') = next
      /\ \A i \in Placed : loc'[i] = loc[i] /\ loc[i] \in Int
      /\ loc'[next] = r
  <2>1. loc \in Seq(Int) /\ Len(loc) = next - 1 /\ next \in Nat \ {0}
    BY <1>0, <1>1 DEF Shape
  <2> QED
    BY <1>2, <1>4, <2>1, AppendPlace
<1>6. Shape'
  <2>1. active' \subseteq Placed'
    BY <1>0, <1>1, <1>3 DEF Shape
  <2>2. next' \in 1 .. (Len(problem'.ivs) + 1)
    BY <1>0, <1>1, Intervals
  <2>3. free' \subseteq Regs'
    BY <1>1, <1>2, <1>4
  <2>4. WellPosed'
    BY <1>0, <1>1 DEF Shape, WellPosed
  <2> QED
    BY <1>0, <1>1, <1>3, <1>5, <2>1, <2>2, <2>3, <2>4 DEF Shape
<1>7. \A i \in active \ Expired : i \in Placed /\ loc[i] \notin Reusable /\ loc[i] \in Regs
  BY <1>0 DEF ScanInv, ActiveOwn, Reusable, Expired, Shape
<1>8. ActiveOwn'
  <2>1. \A i \in active' : loc'[i] \in Regs' /\ loc'[i] \notin free'
    BY <1>1, <1>2, <1>3, <1>4, <1>5, <1>7
  <2>2. ASSUME NEW i \in active', NEW j \in active', i /= j PROVE loc'[i] /= loc'[j]
    <3>1. CASE i /= next /\ j /= next
      BY <1>3, <1>5, <1>7, <2>2, <3>1 DEF ScanInv, ActiveOwn
    <3>2. CASE i = next \/ j = next
      BY <1>2, <1>3, <1>5, <1>7, <2>2, <3>2
    <3> QED
      BY <3>1, <3>2
  <2> QED
    BY <2>1, <2>2 DEF ActiveOwn
<1>9. \A i \in Placed : i \notin active' /\ loc[i] >= 0 => Iv(i).to < Iv(next).from
  BY <1>0, <1>3, EndedBefore DEF Expired
<1>10. OthersEnded'
  <2>1. next' - 1 = next
    BY <1>1
  <2>2. \A i \in Placed' \ active' : i \in Placed
    BY <1>1, <1>3
  <2>3. \A i : Iv(i)' = Iv(i)
    BY <1>1 DEF Iv
  <2>4. Iv(next - 1)' = Iv(next)
    BY <1>1, <2>1 DEF Iv
  <2> QED
    BY <1>5, <1>9, <2>1, <2>2, <2>3, <2>4 DEF OthersEnded, Iv
<1>11. SlotsOnce'
  <2>1. \A i \in Placed : loc[i] >= -slots
    BY DEF ScanInv, SlotsOnce
  <2>2. \A i, j \in Placed : i /= j /\ loc[i] < 0 => loc[i] /= loc[j]
    BY DEF ScanInv, SlotsOnce
  <2>3. slots \in Nat
    BY <1>0 DEF Shape
  <2> QED
    BY <1>1, <1>3, <1>4, <1>5, <2>1, <2>2, <2>3 DEF SlotsOnce
<1>12. NoSharing'
  <2>1. \A i, j : Overlap(i, j)' <=> Overlap(i, j)
    BY <1>1 DEF Overlap, Iv
  <2>2. ASSUME NEW i \in Placed, loc[i] = r PROVE ~ Overlap(i, next) /\ ~ Overlap(next, i)
    <3>1. i \notin active'
      BY <1>1, <1>2, <1>3, <1>7, <2>2
    <3>2. Iv(i).to < Iv(next).from
      BY <1>4, <1>9, <2>2, <3>1
    <3>3. i \in 1 .. Len(problem.ivs)
      BY <1>0, <1>1, Intervals DEF Placed
    <3>4. Iv(i).to \in Nat /\ Iv(next).from \in Nat
      BY <1>0, <1>1, <3>3, Intervals
    <3> QED
      BY <3>2, <3>4 DEF Overlap
  <2>3. \A i, j \in Placed : i /= j /\ Overlap(i, j) => loc[i] /= loc[j]
    BY DEF ScanInv, NoSharing
  <2>4. ASSUME NEW i \in Placed', NEW j \in Placed', i /= j, Overlap(i, j) PROVE loc'[i] /= loc'[j]
    <3>1. CASE i \in Placed /\ j \in Placed
      BY <1>5, <2>3, <2>4, <3>1
    <3>2. CASE i = next
      BY <1>1, <1>5, <2>2, <2>4, <3>2
    <3>3. CASE j = next
      BY <1>1, <1>5, <2>2, <2>4, <3>3
    <3> QED
      BY <1>1, <3>1, <3>2, <3>3
  <2> QED
    BY <2>1, <2>4 DEF NoSharing
<1> QED
  BY <1>6, <1>8, <1>10, <1>11, <1>12 DEF ScanInv

\* Both ways of spilling hand out slot slots + 1 and find every active interval unexpired.
LEMMA EvictStep == ASSUME ScanInv, Evict PROVE ScanInv'
<1>0. Shape /\ Advance
  BY DEF ScanInv, Evict
<1>1. /\ next \in 1 .. Len(problem.ivs) /\ problem' = problem /\ next' = next + 1
      /\ Placed' = Placed \cup {next} /\ next \notin Placed /\ Regs' = Regs /\ next \in Nat
      /\ DOMAIN loc = Placed
  BY <1>0, Steps
<1>2. PICK last \in active : /\ loc' = Append([loc EXCEPT ![last] = -(slots + 1)], loc[last])
                             /\ active' = (active \ {last}) \cup {next}
  BY DEF Evict
<1>3. slots' = slots + 1 /\ free' = free /\ slots \in Nat /\ problem.k \in Nat
  BY <1>0, Intervals DEF Evict, Shape
<1>4. \A i \in active : i \in Placed /\ loc[i] \in Regs /\ loc[i] \notin free /\ loc[i] >= 0 /\ loc[i] \in Int
  BY <1>3 DEF ScanInv, ActiveOwn, Shape, Regs
<1>5. /\ loc' \in Seq(Int) /\ Len(loc') = next
      /\ loc'[next] = loc[last]
      /\ loc'[last] = -(slots + 1)
      /\ \A i \in Placed : loc[i] \in Int /\ (i /= last => loc'[i] = loc[i])
  <2> DEFINE s == [loc EXCEPT ![last] = -(slots + 1)]
  <2>1. loc \in Seq(Int) /\ Len(loc) = next - 1
    BY <1>0 DEF Shape
  <2>2. s \in Seq(Int) /\ Len(s) = next - 1
    <3>1. -(slots + 1) \in Int
      BY <1>3
    <3>2. last \in 1 .. Len(loc)
      BY <1>1, <1>4, <2>1
    <3> QED
      BY <2>1, <3>1, <3>2, UpdatePlace
  <2>3. \A i \in Placed : loc[i] \in Int /\ s[i] = IF i = last THEN -(slots + 1) ELSE loc[i]
    BY <1>1, <2>1
  <2> HIDE DEF s
  <2>4. /\ Append(s, loc[last]) \in Seq(Int)
        /\ Len(Append(s, loc[last])) = next
        /\ \A i \in Placed : Append(s, loc[last])[i] = s[i]
        /\ Append(s, loc[last])[next] = loc[last]
    <3>1. loc[last] \in Int /\ next \in Nat \ {0}
      BY <1>1, <1>4
    <3> QED
      BY <2>2, <3>1, AppendPlace
  <2>5. loc' = Append(s, loc[last])
    BY <1>2 DEF s
  <2> QED
    BY <1>4, <2>3, <2>4, <2>5
<1>6. Shape'
  <2>1. active' \subseteq Placed'
    BY <1>0, <1>1, <1>2 DEF Shape
  <2>2. next' \in 1 .. (Len(problem'.ivs) + 1)
    BY <1>0, <1>1, Intervals
  <2>3. slots' \in Nat
    BY <1>3
  <2>4. WellPosed'
    BY <1>0, <1>1 DEF Shape, WellPosed
  <2> QED
    BY <1>0, <1>1, <1>3, <1>5, <2>1, <2>2, <2>3, <2>4 DEF Shape
<1>7. ActiveOwn'
  <2>1. \A i, j \in active : i /= j => loc[i] /= loc[j]
    BY DEF ScanInv, ActiveOwn
  <2>2. \A i \in active' : (i \in active \ {last} /\ loc'[i] = loc[i]) \/ (i = next /\ loc'[i] = loc[last])
    <3>1. \A i \in active \ {last} : loc'[i] = loc[i]
      BY <1>4, <1>5
    <3>2. active' = (active \ {last}) \cup {next} /\ loc'[next] = loc[last]
      BY <1>2, <1>5
    <3> QED
      BY <3>1, <3>2
  <2>3. \A i \in active' : loc'[i] \in Regs' /\ loc'[i] \notin free'
    BY <1>1, <1>3, <1>4, <2>2
  <2> QED
    BY <2>1, <2>2, <2>3 DEF ActiveOwn
<1>8. \A i \in Placed : i \notin active' /\ i /= last /\ loc[i] >= 0 => Iv(i).to < Iv(next).from
  BY <1>0, <1>2, EndedBefore
<1>9. OthersEnded'
  <2>1. next' - 1 = next
    BY <1>1
  <2>2. \A i \in Placed' \ active' : i \in Placed
    BY <1>1, <1>2
  <2>3. \A i : Iv(i)' = Iv(i)
    BY <1>1 DEF Iv
  <2>4. Iv(next - 1)' = Iv(next)
    BY <1>1, <2>1 DEF Iv
  <2>5. ~ loc'[last] >= 0
    BY <1>3, <1>5
  <2> QED
    BY <1>5, <1>8, <2>1, <2>2, <2>3, <2>4, <2>5 DEF OthersEnded, Iv
<1>10. \A i \in Placed : loc[i] >= -slots
  BY DEF ScanInv, SlotsOnce
<1>11. SlotsOnce'
  <2>1. \A i, j \in Placed : i /= j /\ loc[i] < 0 => loc[i] /= loc[j]
    BY DEF ScanInv, SlotsOnce
  <2>2. \A i \in Placed' : loc'[i] >= -slots'
    BY <1>1, <1>3, <1>4, <1>5, <1>10
  <2>3. ASSUME NEW i \in Placed', NEW j \in Placed', i /= j, loc'[i] < 0 PROVE loc'[i] /= loc'[j]
    <3>1. i \in Placed
      BY <1>1, <1>4, <1>5, <2>3
    <3>2. CASE i = last
      BY <1>1, <1>3, <1>4, <1>5, <1>10, <2>3, <3>2
    <3>3. CASE i /= last
      BY <1>1, <1>3, <1>4, <1>5, <1>10, <2>1, <2>3, <3>1, <3>3
    <3> QED
      BY <3>2, <3>3
  <2> QED
    BY <2>2, <2>3 DEF SlotsOnce
<1>12. NoSharing'
  <2>1. \A i, j : Overlap(i, j)' <=> Overlap(i, j)
    BY <1>1 DEF Overlap, Iv
  <2>2. \A i, j \in Placed : i /= j /\ Overlap(i, j) => loc[i] /= loc[j]
    BY DEF ScanInv, NoSharing
  <2>3. ASSUME NEW i \in Placed, i /= last, loc[i] = loc[last] PROVE ~ Overlap(i, next) /\ ~ Overlap(next, i)
    <3>1. i \notin active' /\ loc[i] >= 0
      BY <1>1, <1>2, <1>4, <2>3 DEF ScanInv, ActiveOwn
    <3>2. Iv(i).to < Iv(next).from
      BY <1>8, <2>3, <3>1
    <3>3. i \in 1 .. Len(problem.ivs)
      BY <1>0, <1>1, Intervals DEF Placed
    <3>4. Iv(i).to \in Nat /\ Iv(next).from \in Nat
      BY <1>0, <1>1, <3>3, Intervals
    <3> QED
      BY <3>2, <3>4 DEF Overlap
  <2>4. \A i \in Placed : i /= last => loc'[i] /= loc'[last]
    BY <1>3, <1>5, <1>10
  <2>5. loc'[next] /= loc'[last] /\ last \in Placed
    BY <1>3, <1>4, <1>5
  <2>6. ASSUME NEW i \in Placed', NEW j \in Placed', i /= j, Overlap(i, j) PROVE loc'[i] /= loc'[j]
    <3>1. CASE i = last \/ j = last
      BY <1>1, <2>4, <2>5, <2>6, <3>1
    <3>2. CASE i \in Placed \ {last} /\ j \in Placed \ {last}
      BY <1>5, <2>2, <2>6, <3>2
    <3>3. CASE i = next /\ j \in Placed \ {last}
      BY <1>5, <2>3, <2>6, <3>3
    <3>4. CASE j = next /\ i \in Placed \ {last}
      BY <1>5, <2>3, <2>6, <3>4
    <3> QED
      BY <1>1, <2>6, <3>1, <3>2, <3>3, <3>4
  <2> QED
    BY <2>1, <2>6 DEF NoSharing
<1> QED
  BY <1>6, <1>7, <1>9, <1>11, <1>12 DEF ScanInv

LEMMA SpillSelfStep == ASSUME ScanInv, SpillSelf PROVE ScanInv'
<1>0. Shape /\ Advance
  BY DEF ScanInv, SpillSelf
<1>1. /\ next \in 1 .. Len(problem.ivs) /\ problem' = problem /\ next' = next + 1
      /\ Placed' = Placed \cup {next} /\ next \notin Placed /\ Regs' = Regs /\ next \in Nat
  BY <1>0, Steps
<1>2. /\ loc' = Append(loc, -(slots + 1)) /\ slots' = slots + 1 /\ active' = active /\ free' = free
      /\ slots \in Nat
  BY <1>0 DEF SpillSelf, Shape
<1>3. /\ loc' \in Seq(Int) /\ Len(loc') = next
      /\ \A i \in Placed : loc'[i] = loc[i] /\ loc[i] \in Int
      /\ loc'[next] = -(slots + 1)
  <2>1. loc \in Seq(Int) /\ Len(loc) = next - 1 /\ next \in Nat \ {0} /\ -(slots + 1) \in Int
    BY <1>0, <1>1, <1>2 DEF Shape
  <2> QED
    BY <1>2, <2>1, AppendPlace
<1>4. Shape'
  <2>1. active' \subseteq Placed'
    BY <1>0, <1>1, <1>2 DEF Shape
  <2>2. next' \in 1 .. (Len(problem'.ivs) + 1) /\ slots' \in Nat
    BY <1>0, <1>1, <1>2, Intervals
  <2>3. WellPosed'
    BY <1>0, <1>1 DEF Shape, WellPosed
  <2> QED
    BY <1>0, <1>1, <1>2, <1>3, <2>1, <2>2, <2>3 DEF Shape
<1>5. ActiveOwn'
  <2>1. active \subseteq Placed
    BY <1>0 DEF Shape
  <2> QED
    <3>1. \A i \in active : loc[i] \in Regs /\ loc[i] \notin free
      BY DEF ScanInv, ActiveOwn
    <3>2. \A i, j \in active : i /= j => loc[i] /= loc[j]
      BY DEF ScanInv, ActiveOwn
    <3>3. active' = active /\ free' = free /\ Regs' = Regs /\ \A i \in active : loc'[i] = loc[i]
      BY <1>1, <1>2, <1>3, <2>1
    <3> QED
      BY <3>1, <3>2, <3>3 DEF ActiveOwn
<1>6. OthersEnded'
  <2>1. \A i \in Placed \ active : loc[i] >= 0 => Iv(i).to < Iv(next).from
    BY <1>0, EndedBefore
  <2>2. next' - 1 = next
    BY <1>1
  <2>3. \A i : Iv(i)' = Iv(i)
    BY <1>1 DEF Iv
  <2>4. Iv(next - 1)' = Iv(next)
    BY <1>1, <2>2 DEF Iv
  <2>5. ~ loc'[next] >= 0
    BY <1>2, <1>3
  <2> QED
    BY <1>1, <1>2, <1>3, <2>1, <2>2, <2>3, <2>4, <2>5 DEF OthersEnded, Iv
<1>7. \A i \in Placed : loc[i] >= -slots
  BY DEF ScanInv, SlotsOnce
<1>8. \A i \in Placed : loc'[i] /= loc'[next]
  <2>1. slots \in Nat /\ loc'[next] = -(slots + 1)
    BY <1>2, <1>3
  <2>2. ASSUME NEW i \in Placed PROVE loc[i] \in Int /\ loc'[i] = loc[i] /\ loc[i] >= -slots
    BY <1>3, <1>7
  <2> QED
    BY <2>1, <2>2
<1>9. SlotsOnce'
  <2>1. \A i \in Placed' : loc'[i] >= -slots'
    <3>1. slots \in Nat /\ slots' = slots + 1 /\ loc'[next] = -(slots + 1)
      BY <1>2, <1>3
    <3>2. \A i \in Placed : loc'[i] \in Int /\ loc'[i] >= -slots
      BY <1>3, <1>7
    <3>3. \A i \in Placed : loc'[i] >= -slots'
      BY <3>1, <3>2
    <3> QED
      BY <1>1, <3>1, <3>3
  <2>2. \A i, j \in Placed' : i /= j /\ loc'[i] < 0 => loc'[i] /= loc'[j]
    BY <1>1, <1>3, <1>8 DEF ScanInv, SlotsOnce
  <2> QED
    BY <2>1, <2>2 DEF SlotsOnce
<1>10. NoSharing'
  <2>1. \A i, j : Overlap(i, j)' <=> Overlap(i, j)
    BY <1>1 DEF Overlap, Iv
  <2>2. \A i, j \in Placed : i /= j /\ Overlap(i, j) => loc[i] /= loc[j]
    BY DEF ScanInv, NoSharing
  <2>3. \A i, j \in Placed' : i /= j /\ Overlap(i, j) => loc'[i] /= loc'[j]
    BY <1>1, <1>3, <1>8, <2>2
  <2> QED
    BY <2>1, <2>3 DEF NoSharing
<1> QED
  BY <1>4, <1>5, <1>6, <1>9, <1>10 DEF ScanInv

LEMMA ScanStep == ASSUME ScanInv, [ScanNext]_scanVars PROVE ScanInv'
<1>1. CASE UNCHANGED scanVars
  BY <1>1 DEF ScanInv, Shape, WellPosed, ActiveOwn, OthersEnded, SlotsOnce, NoSharing, Overlap, scanVars, Iv, Placed, Regs
<1> QED
  BY <1>1, TakeFreeStep, EvictStep, SpillSelfStep DEF ScanNext

-----------------------------------------------------------------------------
\* Liveness, intervals and the run.
Lines == DOMAIN code

\* What line i holds is what the lines after it say.
LineAgrees(i) == liveOut[i] = Out(i) /\ liveIn[i] = In(i, liveOut[i])

LiveInv == /\ code \in Codes
           /\ doing \in {"live", "spans", "scan", "run"}
           /\ line \in 0 .. Len(code) /\ same \in BOOLEAN
           /\ liveIn \in [Lines -> SUBSET Nat] /\ liveOut \in [Lines -> SUBSET Nat]
           /\ doing = "live" /\ same => \A i \in Lines : i > line => LineAgrees(i)
           /\ doing /= "live" => \A i \in Lines : LineAgrees(i)

\* What is listed holds every line that touches its register, and starts no later than the rest.
SpanInv == /\ problem \in [ivs : Seq([v : Nat, from : Nat, to : Nat]), k : Nat]
           /\ Sorted(problem.ivs)
           /\ doing = "live" => problem.ivs = <<>>
           /\ \A j \in DOMAIN problem.ivs : \A i \in Touches(Iv(j).v) : Iv(j).from <= i /\ i <= Iv(j).to
           /\ \A j \in DOMAIN problem.ivs : \A w \in Unlisted : \A i \in Touches(w) : Iv(j).from <= i
           /\ doing \in {"scan", "run"} => Unlisted = {}

\* Before the scan, nothing is placed; before the run, nothing runs.
Before == next = 1 /\ active = {} /\ slots = 0 /\ loc = <<>>

PhaseInv == /\ doing \in {"live", "spans"} => Before
            /\ doing \in {"scan", "run"} => ScanInv
            /\ doing = "run" => ~ Scanning
            /\ doing /= "run" => NoRun

-----------------------------------------------------------------------------
\* The run. Where a virtual register lives, and that its value is there.
HomeOf(v) == PlaceOf(V(v))
Holds(v) == HomeOf(v) \in DOMAIN mem /\ mem[HomeOf(v)] = vregs[v]

\* What is live and known is in its place.
Sim == \A v \in liveIn[pc] : v \in DOMAIN vregs => Holds(v)
\* So it is but for what shares the place of the register the instruction defines.
SimBut ==
  \A v \in liveIn[pc] :
     v \in DOMAIN vregs => \/ Holds(v)
                           \/ /\ code[pc].op \in Defining
                              /\ HomeOf(v) = HomeOf(code[pc].d)

\* The arguments stay where the run found them.
ArgsKept == \A i \in DOMAIN args : Arg(i) \in DOMAIN mem /\ mem[Arg(i)] = args[i]

\* A place holds a value.
Keeps(o, x) == o \in DOMAIN mem /\ mem[o] = x

\* Once the destination holds the left operand, what shared its place is gone.
Halfway == IF upc = 2 /\ code[pc].op \in Arith /\ Asm[1][2] = HomeOf(code[pc].d)
           THEN SimBut /\ Keeps(HomeOf(code[pc].d), Val(code[pc].a))
           ELSE Sim

\* What the lines so far have computed for the next one.
Temp == upc > 1 => /\ Instr[1] \in Arith \cup {"cmp"} /\ Instr[2] = Scratch => Keeps(Scratch, Val(code[pc].a))
                   /\ Instr[1] = "mov" /\ Instr[3] = Scratch => Keeps(Scratch, Outcome(code[pc]))
                   /\ Instr[1] = "jge" => ge = (Val(code[pc].a) >= Val(code[pc].b))
                   /\ Instr[1] = "ret" => Keeps(Result, Val(code[pc].a))

\* The instruction is done: what is live after it is in its place.
Done == \A v \in liveOut[pc] :
          IF code[pc].op \in Defining /\ v = code[pc].d THEN Keeps(HomeOf(v), Outcome(code[pc]))
                                                        ELSE v \in DOMAIN vregs => Holds(v)

\* At each turn of the run.
RunInv == /\ ArgsKept
          /\ turn \in {"fetch", "asm", "store", "done"}
          /\ pc \in Lines
          /\ turn = "fetch" => epc = pc /\ upc = 1 /\ result = <<>> /\ Sim
          /\ turn = "asm" => /\ epc = pc /\ result = <<>> /\ upc \in 1 .. Len(Asm)
                             /\ \A o \in Operands(code[pc]) : Known(o)
                             /\ Halfway /\ Temp
          /\ turn = "store" => IF code[pc].op = "ret" THEN result = <<Val(code[pc].a)>>
                               ELSE epc = NextPc(code[pc]) /\ upc = 1 /\ result = <<>> /\ Done
          /\ turn = "done" => result = answer

\* The inductive invariant of the back end.
AllocInv == LiveInv /\ SpanInv /\ PhaseInv /\ (doing = "run" => RunInv)

-----------------------------------------------------------------------------
\* A set of numbers that is not empty has a least element.
LEMMA Least ==
  ASSUME NEW S \in SUBSET Nat, S # {}
  PROVE  \E n \in S : \A m \in S : n <= m
<1>1. PICK n \in S : \A m \in S : ~(<<m, n>> \in OpToRel(<, Nat))
  BY NatLessThanWellFounded, WFMin
<1>2. ASSUME NEW m \in S, m < n PROVE FALSE
  <2>1. <<m, n>> \in Nat \X Nat
    OBVIOUS
  <2>2. <<m, n>> \in OpToRel(<, Nat)
    BY <1>2, <2>1 DEF OpToRel
  <2>. QED
    BY <1>1, <2>2
<1>3. S \subseteq Nat
  OBVIOUS
<1>. QED
  BY <1>2, <1>3

\* A program of the instance: every line has its followers among the lines.
LEMMA CodeTypes ==
  ASSUME code \in Codes
  PROVE  /\ Len(code) \in Nat \ {0} /\ Lines = 1 .. Len(code)
         /\ \A i \in Lines : code[i] \in Tacs
         /\ \A i \in Lines : code[i].op \in {"jmp", "jge"} => LabelAt(code[i].l) \in Lines
         /\ \A i \in Lines : code[i].op \notin {"jmp", "ret"} => i + 1 \in Lines
<1>1. /\ code \in Seq(Tacs) /\ code /= <<>>
      /\ code[Len(code)].op \in {"jmp", "ret"}
      /\ \A i \in DOMAIN code : code[i].op \in {"jmp", "jge"} => Labels(code, code[i].l) /= {}
  BY CodesAssumption
<1>2. Len(code) \in Nat \ {0} /\ Lines = 1 .. Len(code)
  <2>1. \A S, q : q \in Seq(S) /\ q /= <<>> => Len(q) \in Nat \ {0} /\ DOMAIN q = 1 .. Len(q)
    OBVIOUS
  <2> QED
    BY <1>1, <2>1 DEF Lines
<1>3. \A i \in Lines : code[i] \in Tacs
  <2>1. \A S, q : q \in Seq(S) => \A i \in DOMAIN q : q[i] \in S
    OBVIOUS
  <2> QED
    BY <1>1, <2>1 DEF Lines
<1>4. ASSUME NEW i \in Lines, code[i].op \in {"jmp", "jge"} PROVE LabelAt(code[i].l) \in Lines
  <2> DEFINE L == Labels(code, code[i].l)
  <2>1. L /= {}
    BY <1>1, <1>4 DEF Lines
  <2>2. L \subseteq Lines
    BY DEF Labels, Lines
  <2>3. L \in SUBSET Nat
    BY <1>2, <2>2
  <2>4. \E h \in L : \A j \in L : h <= j
    BY <2>1, <2>3, Least
  <2>5. LabelAt(code[i].l) \in L
    BY <2>4 DEF LabelAt
  <2> QED
    BY <2>2, <2>5
<1>5. ASSUME NEW i \in Lines, code[i].op \notin {"jmp", "ret"} PROVE i + 1 \in Lines
  <2>1. i /= Len(code)
    BY <1>1, <1>5
  <2> QED
    BY <1>2, <2>1
<1> QED
  BY <1>2, <1>3, <1>4, <1>5

LEMMA Following ==
  ASSUME code \in Codes, NEW i \in Lines
  PROVE  Follows(i) \subseteq Lines
<1>1. code[i].op \in {"jmp", "jge"} => LabelAt(code[i].l) \in Lines
  BY CodeTypes
<1>2. code[i].op \notin {"jmp", "ret"} => i + 1 \in Lines
  BY CodeTypes
<1>3. CASE code[i].op = "jmp"
  BY <1>1, <1>3 DEF Follows
<1>4. CASE code[i].op = "jge"
  BY <1>1, <1>2, <1>4 DEF Follows
<1>5. CASE code[i].op = "ret"
  BY <1>5 DEF Follows
<1>6. CASE code[i].op \notin {"jmp", "jge", "ret"}
  BY <1>2, <1>6 DEF Follows
<1> QED
  BY <1>3, <1>4, <1>5, <1>6

\* The operands of a line are operands, what it uses are registers among them.
LEMMA OperandTypes ==
  ASSUME code \in Codes, NEW i \in Lines
  PROVE  /\ code[i].d \in Nat /\ code[i].l \in Nat
         /\ code[i].op \in {"+", "-", "*", "copy", "label", "jge", "jmp", "ret"}
         /\ code[i].a \in Operand /\ code[i].b \in Operand
         /\ \A o \in Operands(code[i]) : o \in Operand
         /\ \A o \in Operands(code[i]) : o[1] = "v" => o[2] \in Uses(code[i]) /\ o = V(o[2])
         /\ Uses(code[i]) \subseteq Nat /\ Defs(code[i]) \subseteq Nat
<1>1. code[i] \in Tacs
  BY CodeTypes
<1>2. /\ code[i].d \in Nat /\ code[i].l \in Nat /\ code[i].a \in Operand /\ code[i].b \in Operand
      /\ code[i].op \in {"+", "-", "*", "copy", "label", "jge", "jmp", "ret"}
  BY <1>1 DEF Tacs, Defining, Arith
<1>3. \A o \in Operands(code[i]) : o \in {code[i].a, code[i].b}
  BY <1>2 DEF Operands, Arith
<1>4. \A o \in Operands(code[i]) : o \in Operand
  BY <1>2, <1>3
<1>5. \A o \in Operand : o[1] = "v" => o[2] \in Nat /\ o = V(o[2])
  BY DEF Operand, V
<1>6. \A o \in Operands(code[i]) : o[1] = "v" => o[2] \in Uses(code[i])
  BY DEF Uses
<1>7. Uses(code[i]) \subseteq Nat
  BY <1>4, <1>5 DEF Uses
<1>8. Defs(code[i]) \subseteq Nat
  BY <1>2 DEF Defs
<1> QED
  BY <1>2, <1>4, <1>5, <1>6, <1>7, <1>8

LEMMA OutTypes ==
  ASSUME LiveInv, NEW i \in Lines
  PROVE  Out(i) \in SUBSET Nat /\ In(i, Out(i)) \in SUBSET Nat
<1>1. Follows(i) \subseteq Lines
  BY Following DEF LiveInv
<1>2. \A s \in Follows(i) : liveIn[s] \in SUBSET Nat
  BY <1>1 DEF LiveInv
<1>3. Out(i) \in SUBSET Nat
  BY <1>2 DEF Out
<1>4. Uses(code[i]) \subseteq Nat
  BY OperandTypes DEF LiveInv
<1> QED
  BY <1>3, <1>4 DEF In

\* What follows a line depends on the code alone.
LEMMA SameCode ==
  ASSUME code' = code
  PROVE  /\ Lines' = Lines
         /\ \A i : Follows(i)' = Follows(i)
         /\ \A l : LabelAt(l)' = LabelAt(l)
<1>1. \A l : LabelAt(l)' = LabelAt(l)
  BY DEF LabelAt
<1> QED
  BY <1>1 DEF Lines, Follows

LEMMA LiveLineStep == ASSUME LiveInv, LiveLine PROVE LiveInv'
<1>1. /\ doing = "live" /\ doing' = doing /\ code' = code /\ line \in Lines
      /\ line' = line - 1
  <2>1. Lines = 1 .. Len(code) /\ Len(code) \in Nat
    BY CodeTypes DEF LiveInv
  <2> QED
    BY <2>1 DEF LiveInv, LiveLine
<1>2. /\ liveOut' = [liveOut EXCEPT ![line] = Out(line)]
      /\ liveIn'  = [liveIn EXCEPT ![line] = In(line, Out(line))]
      /\ same' <=> (same /\ liveIn' = liveIn /\ liveOut' = liveOut)
      /\ same' \in BOOLEAN
  BY DEF LiveLine, LiveInv
<1>3. liveIn' \in [Lines' -> SUBSET Nat] /\ liveOut' \in [Lines' -> SUBSET Nat]
  <2>1. Out(line) \in SUBSET Nat /\ In(line, Out(line)) \in SUBSET Nat
    BY <1>1, OutTypes
  <2> QED
    BY <1>1, <1>2, <2>1, SameCode DEF LiveInv
<1>4. line' \in 0 .. Len(code')
  BY <1>1, CodeTypes DEF LiveInv
<1>5. ASSUME same', NEW i \in Lines, i > line' PROVE LineAgrees(i)'
  <2>1. same /\ liveIn' = liveIn /\ liveOut' = liveOut
    BY <1>2, <1>5
  <2>2. LineAgrees(i)
    <3>1. CASE i = line
      <4>1. liveOut[line] = Out(line) /\ liveIn[line] = In(line, Out(line))
        BY <1>1, <1>2, <2>1 DEF LiveInv
      <4> QED
        BY <3>1, <4>1 DEF LineAgrees
    <3>2. CASE i /= line
      <4>1. i > line
        BY <1>1, <1>5, <3>2, CodeTypes DEF LiveInv
      <4> QED
        BY <1>1, <2>1, <4>1 DEF LiveInv
    <3> QED
      BY <3>1, <3>2
  <2>3. Out(i)' = Out(i)
    BY <1>1, <2>1, SameCode DEF Out
  <2> QED
    BY <1>1, <2>1, <2>2, <2>3 DEF LineAgrees, In
<1> QED
  BY <1>1, <1>2, <1>3, <1>4, <1>5, SameCode DEF LiveInv

\* A round without a change: every line agrees with the lines after it.
LEMMA LiveRoundStep == ASSUME LiveInv, LiveRound PROVE LiveInv'
<1>1. /\ doing = "live" /\ line = 0 /\ code' = code /\ liveIn' = liveIn /\ liveOut' = liveOut
  BY DEF LiveRound
<1>2. Lines = 1 .. Len(code) /\ Len(code) \in Nat
  BY CodeTypes DEF LiveInv
<1>3. \A i \in Lines : LineAgrees(i)' <=> LineAgrees(i)
  <2>1. \A i : Out(i)' = Out(i)
    BY <1>1, SameCode DEF Out
  <2> QED
    BY <1>1, <2>1 DEF LineAgrees, In
<1>4. CASE same
  <2>1. doing' = "spans" /\ line' = line /\ same' = same
    BY <1>4 DEF LiveRound
  <2>2. \A i \in Lines : LineAgrees(i)
    BY <1>1, <1>2, <1>4 DEF LiveInv
  <2> QED
    BY <1>1, <1>3, <2>1, <2>2, SameCode DEF LiveInv
<1>5. CASE ~ same
  <2>1. doing' = doing /\ line' = Len(code) /\ same' = TRUE
    BY <1>5 DEF LiveRound
  <2>2. \A i \in Lines : ~ i > line'
    BY <1>2, <2>1
  <2> QED
    BY <1>1, <1>2, <2>1, <2>2, SameCode DEF LiveInv
<1> QED
  BY <1>4, <1>5

\* After it, nothing touches what liveness found.
LEMMA LiveKept ==
  ASSUME LiveInv, code' = code, line' = line, same' = same, liveIn' = liveIn, liveOut' = liveOut,
         doing /= "live", doing' \in {"spans", "scan", "run"}
  PROVE  LiveInv'
<1>1. \A i \in Lines : LineAgrees(i)' <=> LineAgrees(i)
  <2>1. \A i : Out(i)' = Out(i)
    BY SameCode DEF Out
  <2> QED
    BY <2>1 DEF LineAgrees, In
<1> QED
  BY <1>1, SameCode DEF LiveInv

-----------------------------------------------------------------------------
\* Registers and lines are numbers.
LEMMA TouchTypes ==
  ASSUME LiveInv
  PROVE  /\ \A i \in Lines : Touched(i) \subseteq Nat
         /\ \A v : Touches(v) \subseteq Nat
         /\ Unlisted \subseteq Nat
<1>1. ASSUME NEW i \in Lines PROVE Touched(i) \subseteq Nat
  <2>1. Uses(code[i]) \subseteq Nat /\ Defs(code[i]) \subseteq Nat
    BY OperandTypes DEF LiveInv
  <2>2. liveOut[i] \subseteq Nat
    BY DEF LiveInv
  <2> QED
    BY <2>1, <2>2 DEF Touched
<1>2. Lines \subseteq Nat
  BY CodeTypes DEF LiveInv
<1> QED
  BY <1>1, <1>2 DEF Touches, Unlisted, Lines

\* One more interval: the list before it, and it at the end.
LEMMA AppendSpan ==
  ASSUME NEW S, NEW q \in Seq(S), NEW e \in S
  PROVE  /\ Append(q, e) \in Seq(S)
         /\ Len(q) \in Nat
         /\ DOMAIN q = 1 .. Len(q)
         /\ DOMAIN Append(q, e) = 1 .. (Len(q) + 1)
         /\ \A i \in DOMAIN q : Append(q, e)[i] = q[i]
         /\ Append(q, e)[Len(q) + 1] = e
OBVIOUS

LEMMA ListSpanStep == ASSUME LiveInv, SpanInv, ListSpan PROVE SpanInv'
<1> DEFINE Spans == [v : Nat, from : Nat, to : Nat]
<1>1. PICK v \in Unlisted : \E from, to \in Touches(v) :
        /\ \A i \in Touches(v) : from <= i /\ i <= to
        /\ \A w \in Unlisted \ {v} : \A i \in Touches(w) : from < i \/ (from = i /\ v < w)
        /\ problem' = [problem EXCEPT !.ivs = Append(@, [v |-> v, from |-> from, to |-> to])]
  BY DEF ListSpan
<1>2. PICK from \in Touches(v), to \in Touches(v) :
        /\ \A i \in Touches(v) : from <= i /\ i <= to
        /\ \A w \in Unlisted \ {v} : \A i \in Touches(w) : from < i \/ (from = i /\ v < w)
        /\ problem' = [problem EXCEPT !.ivs = Append(@, [v |-> v, from |-> from, to |-> to])]
  BY <1>1
<1>3. doing = "spans" /\ doing' = doing /\ code' = code /\ liveOut' = liveOut
  BY DEF ListSpan, liveVars
<1>4. v \in Nat /\ from \in Nat /\ to \in Nat
  BY <1>1, <1>2, TouchTypes
<1>5. PICK e : e = [v |-> v, from |-> from, to |-> to]
  OBVIOUS
<1>6. PICK q : q = problem.ivs
  OBVIOUS
<1>7. PICK r : r = Append(q, e)
  OBVIOUS
<1>8. e \in Spans /\ e.v = v /\ e.from = from /\ e.to = to
  BY <1>4, <1>5
<1>9. q \in Seq(Spans)
  BY <1>6 DEF SpanInv
<1>10. PICK n \in Nat : /\ r \in Seq(Spans) /\ DOMAIN q = 1 .. n /\ DOMAIN r = 1 .. (n + 1)
                        /\ \A i \in 1 .. n : r[i] = q[i]
                        /\ r[n + 1] = e
  <2> HIDE DEF Spans
  <2> QED
    BY <1>7, <1>8, <1>9, AppendSpan
<1>11. problem' \in [ivs : Seq(Spans), k : Nat] /\ problem'.ivs = r
  <2>1. problem \in [ivs : Seq(Spans), k : Nat]
    BY DEF SpanInv
  <2>2. problem' = [problem EXCEPT !.ivs = r]
    BY <1>2, <1>5, <1>6, <1>7
  <2> HIDE DEF Spans
  <2> QED
    BY <1>10, <2>1, <2>2
<1>12. /\ \A w : Touches(w)' = Touches(w)
       /\ \A i : Touched(i)' = Touched(i)
  BY <1>3 DEF Touches, Touched
<1>13. Listed = {q[j].v : j \in 1 .. n} /\ Listed' = {r[j].v : j \in 1 .. (n + 1)}
  BY <1>6, <1>10, <1>11 DEF Listed
<1>14. v \notin Listed
  BY <1>1 DEF Unlisted
<1>15. \A w \in Unlisted' : w \in Unlisted \ {v}
  <2>1. Listed \subseteq Listed' /\ v \in Listed'
    BY <1>8, <1>10, <1>13
  <2> QED
    BY <1>3, <1>12, <2>1 DEF Unlisted
<1>16. \A j \in 1 .. n : q[j] \in Spans /\ q[j].v \in Nat /\ q[j].from \in Nat /\ q[j].v /= v
  <2>1. \A j \in 1 .. n : q[j] \in Spans
    <3> HIDE DEF Spans
    <3> QED
      BY <1>9, <1>10
  <2> QED
    BY <1>13, <1>14, <2>1
<1>17. /\ \A i, j \in 1 .. n : i < j => q[i].from <= q[j].from /\ q[i].v /= q[j].v
       /\ \A j \in 1 .. n : \A i \in Touches(q[j].v) : q[j].from <= i /\ i <= q[j].to
       /\ \A j \in 1 .. n : \A w \in Unlisted : \A i \in Touches(w) : q[j].from <= i
  BY <1>6, <1>10 DEF SpanInv, Sorted, Iv
<1>18. Sorted(r)
  <2>1. ASSUME NEW i \in 1 .. (n + 1), NEW j \in 1 .. (n + 1), i < j
        PROVE  r[i].from <= r[j].from /\ r[i].v /= r[j].v
    <3>1. i \in 1 .. n
      BY <2>1
    <3>2. CASE j \in 1 .. n
      BY <1>10, <1>17, <2>1, <3>1, <3>2
    <3>3. CASE j = n + 1
      BY <1>1, <1>2, <1>8, <1>10, <1>16, <1>17, <3>1, <3>3
    <3> QED
      BY <3>2, <3>3
  <2> QED
    BY <1>10, <2>1 DEF Sorted
<1>19. \A j \in DOMAIN r : \A i \in Touches(r[j].v) : r[j].from <= i /\ i <= r[j].to
  <2>1. ASSUME NEW j \in 1 .. (n + 1), NEW i \in Touches(r[j].v) PROVE r[j].from <= i /\ i <= r[j].to
    <3>1. CASE j \in 1 .. n
      BY <1>10, <1>17, <2>1, <3>1
    <3>2. CASE j = n + 1
      BY <1>2, <1>8, <1>10, <2>1, <3>2
    <3> QED
      BY <3>1, <3>2
  <2> QED
    BY <1>10, <2>1
<1>20. \A j \in DOMAIN r : \A w \in Unlisted' : \A i \in Touches(w) : r[j].from <= i
  <2>1. ASSUME NEW j \in 1 .. (n + 1), NEW w \in Unlisted', NEW i \in Touches(w) PROVE r[j].from <= i
    <3>1. CASE j \in 1 .. n
      BY <1>10, <1>15, <1>17, <2>1, <3>1
    <3>2. CASE j = n + 1
      <4>1. from < i \/ from = i
        BY <1>2, <1>15, <2>1
      <4>2. i \in Nat
        BY TouchTypes, <2>1
      <4> QED
        BY <1>4, <1>8, <1>10, <3>2, <4>1, <4>2
    <3> QED
      BY <3>1, <3>2
  <2> QED
    BY <1>10, <2>1
<1>21. \A j : Iv(j)' = r[j]
  BY <1>11 DEF Iv
<1> QED
  BY <1>3, <1>11, <1>12, <1>18, <1>19, <1>20, <1>21 DEF SpanInv

\* A step that leaves the code, its liveness and the list alone keeps what is known of them.
LEMMA SpanKept ==
  ASSUME SpanInv, code' = code, liveOut' = liveOut, problem'.ivs = problem.ivs,
         problem' \in [ivs : Seq([v : Nat, from : Nat, to : Nat]), k : Nat],
         doing /= "live" \/ doing' \in {"live", "spans"}, doing' = "live" => doing = "live",
         doing' \in {"scan", "run"} => Unlisted = {}
  PROVE  SpanInv'
<1>1. /\ \A w : Touches(w)' = Touches(w)
      /\ \A i : Touched(i)' = Touched(i)
  BY DEF Touches, Touched
<1>2. Unlisted' = Unlisted
  BY <1>1 DEF Unlisted, Listed
<1>3. \A j : Iv(j)' = Iv(j)
  BY DEF Iv
<1> QED
  BY <1>1, <1>2, <1>3 DEF SpanInv

\* During liveness the list is empty.
LEMMA SpanEmpty ==
  ASSUME SpanInv, doing = "live", doing' = "live", problem' = problem
  PROVE  SpanInv'
<1>1. problem.ivs = <<>> /\ problem'.ivs = <<>> /\ DOMAIN problem'.ivs = {}
  BY DEF SpanInv
<1> QED
  BY <1>1 DEF SpanInv, Sorted

-----------------------------------------------------------------------------
\* Registers of the machine and slots.
Homes == {"reg"} \X Nat \cup {"slot"} \X Nat

\* What holds of the allocation once it is complete.
Complete == LiveInv /\ SpanInv /\ ScanInv /\ doing = "run" /\ ~ Scanning

\* A register touched at a line has an interval that holds the line.
LEMMA IndexOf ==
  ASSUME Complete, NEW i \in Lines, NEW v \in Touched(i)
  PROVE  \E j \in Placed : /\ LocOf(v) = loc[j] /\ Iv(j).v = v
                           /\ Iv(j).from <= i /\ i <= Iv(j).to
                           /\ loc[j] \in Int /\ Iv(j).from \in Nat /\ Iv(j).to \in Nat
<1>1. v \in Listed
  BY DEF Complete, SpanInv, Unlisted, Lines
<1>2. PICK j : j = CHOOSE h \in DOMAIN problem.ivs : Iv(h).v = v
  OBVIOUS
<1>3. \E h \in DOMAIN problem.ivs : Iv(h).v = v
  BY <1>1 DEF Listed, Iv
<1>4. j \in DOMAIN problem.ivs /\ Iv(j).v = v
  BY <1>2, <1>3
<1>5. LocOf(v) = loc[j]
  BY <1>2 DEF LocOf
<1>6. Placed = DOMAIN problem.ivs /\ Placed = 1 .. Len(problem.ivs) /\ Placed = DOMAIN loc
  <2>1. Len(problem.ivs) \in Nat /\ next \in 1 .. (Len(problem.ivs) + 1) /\ DOMAIN problem.ivs = 1 .. Len(problem.ivs)
    BY Intervals DEF Complete, ScanInv, Shape, WellPosed
  <2>2. next = Len(problem.ivs) + 1
    BY <2>1 DEF Complete, Scanning
  <2>3. DOMAIN loc = 1 .. Len(loc) /\ Len(loc) = next - 1
    BY DEF Complete, ScanInv, Shape
  <2> QED
    BY <2>1, <2>2, <2>3 DEF Placed
<1>7. i \in Touches(v)
  BY DEF Touches, Lines
<1>8. Iv(j).from <= i /\ i <= Iv(j).to
  BY <1>4, <1>7 DEF Complete, SpanInv
<1>9. loc[j] \in Int
  <2>1. \A S, q : q \in Seq(S) => \A h \in DOMAIN q : q[h] \in S
    OBVIOUS
  <2> QED
    BY <1>4, <1>6, <2>1 DEF Complete, ScanInv, Shape
<1>10. Iv(j).from \in Nat /\ Iv(j).to \in Nat
  BY <1>4, <1>6, Intervals DEF Complete, ScanInv
<1> QED
  BY <1>4, <1>5, <1>6, <1>8, <1>9, <1>10

LEMMA HomeIs ==
  ASSUME NEW v
  PROVE  HomeOf(v) = IF LocOf(v) >= 0 THEN <<"reg", LocOf(v)>> ELSE <<"slot", -LocOf(v)>>
BY DEF HomeOf, PlaceOf, V

\* What a line touches has a place, two registers that it touches have two.
LEMMA HomeTypes ==
  ASSUME Complete, NEW i \in Lines, NEW v \in Touched(i)
  PROVE  HomeOf(v) \in Homes
<1>1. LocOf(v) \in Int
  BY IndexOf
<1> QED
  BY <1>1, HomeIs DEF Homes

LEMMA HomesApart ==
  ASSUME Complete, NEW i \in Lines, NEW v \in Touched(i), NEW w \in Touched(i), v /= w
  PROVE  HomeOf(v) /= HomeOf(w)
<1>1. PICK j \in Placed : /\ LocOf(v) = loc[j] /\ Iv(j).v = v
                          /\ Iv(j).from <= i /\ i <= Iv(j).to
                          /\ loc[j] \in Int /\ Iv(j).from \in Nat /\ Iv(j).to \in Nat
  BY IndexOf
<1>2. PICK h \in Placed : /\ LocOf(w) = loc[h] /\ Iv(h).v = w
                          /\ Iv(h).from <= i /\ i <= Iv(h).to
                          /\ loc[h] \in Int /\ Iv(h).from \in Nat /\ Iv(h).to \in Nat
  BY IndexOf
<1>3. i \in Nat
  BY CodeTypes DEF Complete, LiveInv
<1>4. Overlap(j, h)
  BY <1>1, <1>2, <1>3 DEF Overlap
<1>5. LocOf(v) /= LocOf(w)
  BY <1>1, <1>2, <1>4 DEF Complete, ScanInv, NoSharing
<1>6. LocOf(v) \in Int /\ LocOf(w) \in Int
  BY <1>1, <1>2
<1>7. CASE LocOf(v) >= 0
  BY <1>5, <1>6, <1>7, HomeIs
<1>8. CASE ~ LocOf(v) >= 0
  BY <1>5, <1>6, <1>8, HomeIs
<1> QED
  BY <1>7, <1>8

\* What a line does to what is live.
LEMMA LiveFacts ==
  ASSUME Complete, NEW i \in Lines
  PROVE  /\ \A v \in liveIn[i] : v \in Touched(i)
         /\ \A v \in liveOut[i] : v \in Touched(i) /\ (v \notin Defs(code[i]) => v \in liveIn[i])
         /\ Uses(code[i]) \subseteq liveIn[i]
         /\ code[i].op \in Defining => code[i].d \in Touched(i) /\ Defs(code[i]) = {code[i].d}
         /\ code[i].op \notin Defining => Defs(code[i]) = {}
         /\ \A s \in Follows(i) : liveIn[s] \subseteq liveOut[i]
<1>1. liveIn[i] = (liveOut[i] \ Defs(code[i])) \cup Uses(code[i]) /\ liveOut[i] = Out(i)
  BY DEF Complete, LiveInv, LineAgrees, In
<1> QED
  BY <1>1 DEF Touched, Defs, Out

\* What nothing touches at a line.
LEMMA Elsewhere ==
  ASSUME NEW h \in Homes
  PROVE  /\ h /= Scratch /\ h /= Result /\ h[1] \notin {"imm", "arg", "v"}
         /\ \A i : h /= Arg(i)
BY DEF Homes, Scratch, Result, Arg

\* An operand is read in the machine as the interpreter reads it.
LEMMA OperandHeld ==
  ASSUME Complete, pc \in Lines, ArgsKept, NEW o \in Operands(code[pc]), Known(o), o[1] = "v" => Holds(o[2])
  PROVE  /\ Written(PlaceOf(o)) /\ Read(PlaceOf(o)) = Val(o)
         /\ PlaceOf(o) /= Scratch /\ PlaceOf(o) /= Result
<1>1. o \in Operand /\ (o[1] = "v" => o[2] \in Uses(code[pc]) /\ o = V(o[2]))
  BY OperandTypes DEF Complete, LiveInv
<1>2. CASE o[1] = "imm"
  BY <1>1, <1>2 DEF PlaceOf, Written, Read, Val, Scratch, Result
<1>3. CASE o[1] = "arg"
  <2>1. o = Arg(o[2]) /\ o[2] \in DOMAIN args
    BY <1>1, <1>3 DEF Operand, Arg, Known
  <2>2. o \in DOMAIN mem /\ mem[o] = args[o[2]]
    BY <2>1 DEF ArgsKept
  <2>3. o /= Scratch /\ o /= Result
    BY <1>3 DEF Scratch, Result
  <2> QED
    BY <1>3, <2>2, <2>3 DEF PlaceOf, Written, Read, Val
<1>4. CASE o[1] = "v"
  <2>1. PlaceOf(o) = HomeOf(o[2])
    BY <1>1, <1>4 DEF HomeOf
  <2>2. HomeOf(o[2]) \in Homes
    <3>1. o[2] \in Touched(pc)
      BY <1>1, <1>4 DEF Touched
    <3> QED
      BY <3>1, HomeTypes
  <2>3. HomeOf(o[2]) \in DOMAIN mem /\ mem[HomeOf(o[2])] = vregs[o[2]]
    BY <1>4 DEF Holds
  <2> QED
    BY <1>4, <2>1, <2>2, <2>3, Elsewhere DEF Written, Read, Val
<1> QED
  BY <1>1, <1>2, <1>3, <1>4 DEF Operand

-----------------------------------------------------------------------------
\* Steps of the emulator leave the allocation and the interpreter alone.
Calm == UNCHANGED <<scanVars, code, doing, liveVars, args, pc, vregs>>

LEMMA Frame ==
  ASSUME Calm
  PROVE  /\ Lines' = Lines
         /\ \A o : PlaceOf(o)' = PlaceOf(o)
         /\ \A v : HomeOf(v)' = HomeOf(v)
         /\ \A t : SelectOne(t)' = SelectOne(t)
         /\ \A o : Val(o)' = Val(o)
         /\ \A o : Known(o)' = Known(o)
         /\ \A t : Outcome(t)' = Outcome(t)
         /\ \A t : NextPc(t)' = NextPc(t)
<1>1. /\ problem' = problem /\ loc' = loc /\ code' = code /\ args' = args /\ vregs' = vregs /\ pc' = pc
  BY DEF Calm, scanVars
<1>2. \A v : LocOf(v)' = LocOf(v)
  BY <1>1 DEF LocOf, Iv
<1>3. \A o : PlaceOf(o)' = PlaceOf(o)
  BY <1>2 DEF PlaceOf
<1>4. \A v : HomeOf(v)' = HomeOf(v)
  BY <1>3 DEF HomeOf
<1>5. \A t : SelectOne(t)' = SelectOne(t)
  BY <1>3 DEF SelectOne
<1>6. (\A o : Val(o)' = Val(o)) /\ (\A o : Known(o)' = Known(o))
  BY <1>1 DEF Val, Known
<1>7. \A t : Outcome(t)' = Outcome(t)
  BY <1>6 DEF Outcome
<1>8. \A l : LabelAt(l)' = LabelAt(l)
  BY <1>1, SameCode
<1>9. \A t : NextPc(t)' = NextPc(t)
  BY <1>1, <1>6, <1>8 DEF NextPc
<1> QED
  BY <1>1, <1>3, <1>4, <1>5, <1>6, <1>7, <1>9 DEF Lines

\* One more place is written.
LEMMA PutIs ==
  ASSUME NEW f, NEW x, NEW v
  PROVE  /\ x \in DOMAIN Put(f, x, v) /\ Put(f, x, v)[x] = v
         /\ \A y \in DOMAIN f : y \in DOMAIN Put(f, x, v) /\ (y /= x => Put(f, x, v)[y] = f[y])
BY DEF Put

\* A write to the scratch register or to rax loses nothing.
LEMMA ScratchWrite ==
  ASSUME Complete, RunInv, Calm, NEW o \in {Scratch, Result}, NEW x, mem' = Put(mem, o, x)
  PROVE  /\ ArgsKept'
         /\ Sim => Sim'
         /\ SimBut => SimBut'
         /\ Keeps(o, x)'
<1>1. pc \in Lines
  BY DEF RunInv
<1>2. \A v \in liveIn[pc] : HomeOf(v) /= o
  <2>1. \A v \in liveIn[pc] : HomeOf(v) \in Homes
    BY <1>1, LiveFacts, HomeTypes
  <2> QED
    BY <2>1, Elsewhere
<1>3. \A v \in liveIn[pc] : Holds(v) => Holds(v)'
  BY <1>2, PutIs, Frame DEF Holds, Calm
<1>4. /\ liveIn' = liveIn /\ pc' = pc /\ code' = code /\ vregs' = vregs /\ args' = args
  BY DEF Calm, liveVars
<1>5. ArgsKept'
  <2>1. \A i : Arg(i) /= o
    BY DEF Arg, Scratch, Result
  <2> QED
    BY <1>4, <2>1, PutIs DEF ArgsKept, RunInv
<1>6. Sim => Sim'
  BY <1>3, <1>4 DEF Sim
<1>7. SimBut => SimBut'
  BY <1>3, <1>4, Frame DEF SimBut
<1>8. Keeps(o, x)'
  BY PutIs DEF Keeps
<1> QED
  BY <1>5, <1>6, <1>7, <1>8

\* A write to the place of the register the instruction defines loses only what shares it.
LEMMA HomeWrite ==
  ASSUME Complete, RunInv, Calm, code[pc].op \in Defining, SimBut,
         NEW x, mem' = Put(mem, HomeOf(code[pc].d), x)
  PROVE  /\ ArgsKept'
         /\ SimBut'
         /\ Keeps(HomeOf(code[pc].d), x)'
         /\ x = Outcome(code[pc]) => Done'
<1>1. pc \in Lines
  BY DEF RunInv
<1>2. PICK d : d = code[pc].d
  OBVIOUS
<1>3. HomeOf(d) \in Homes /\ d \in Touched(pc) /\ Defs(code[pc]) = {d}
  BY <1>1, <1>2, LiveFacts, HomeTypes
<1>4. /\ liveIn' = liveIn /\ liveOut' = liveOut /\ pc' = pc /\ code' = code /\ vregs' = vregs /\ args' = args
  BY DEF Calm, liveVars
<1>5. \A v : HomeOf(v) /= HomeOf(d) /\ Holds(v) => Holds(v)'
  BY <1>2, PutIs, Frame DEF Holds, Calm
<1>6. Keeps(HomeOf(d), x)'
  BY <1>2, PutIs, Frame DEF Keeps
<1>7. ArgsKept'
  <2>1. \A i : Arg(i) /= HomeOf(d)
    BY <1>3, Elsewhere
  <2> QED
    BY <1>2, <1>4, <2>1, PutIs DEF ArgsKept, RunInv
<1>8. SimBut'
  BY <1>2, <1>4, <1>5, Frame DEF SimBut
<1>9. ASSUME x = Outcome(code[pc]) PROVE Done'
  <2>1. Keeps(HomeOf(d), Outcome(code[pc]))'
    <3>1. Outcome(code[pc])' = x
      BY <1>4, <1>9, Frame
    <3> QED
      BY <1>6, <3>1 DEF Keeps
  <2>2. ASSUME NEW v \in liveOut[pc], v /= d, v \in DOMAIN vregs PROVE Holds(v)'
    <3>1. v \in Touched(pc) /\ v \in liveIn[pc]
      BY <1>1, <1>3, <2>2, LiveFacts
    <3>2. HomeOf(v) /= HomeOf(d)
      BY <1>1, <1>3, <2>2, <3>1, HomesApart
    <3>3. Holds(v)
      BY <1>2, <2>2, <3>1, <3>2 DEF SimBut
    <3> QED
      BY <1>5, <3>2, <3>3
  <2> QED
    BY <1>2, <1>4, <2>1, <2>2 DEF Done
<1> QED
  BY <1>2, <1>4, <1>6, <1>7, <1>8, <1>9

\* The emulator goes on within what the instruction became.
LEMMA GoesOn ==
  ASSUME Complete, RunInv, turn = "asm", Calm, Len(Asm) \in Nat, upc < Len(Asm), upc' = upc + 1, epc' = epc, turn' = turn,
         result' = result, ArgsKept', Halfway', Temp'
  PROVE  RunInv'
<1>1. /\ epc = pc /\ result = <<>> /\ upc \in 1 .. Len(Asm) /\ \A o \in Operands(code[pc]) : Known(o)
      /\ pc \in Lines
  BY DEF RunInv
<1>2. pc' = pc /\ code' = code
  BY DEF Calm
<1>3. Asm' = Asm
  BY <1>2, Frame DEF Asm
<1>4. upc' \in 1 .. Len(Asm')
  <2>1. PICK n : n = Len(Asm)
    OBVIOUS
  <2>2. upc \in 1 .. n /\ upc < n /\ n \in Nat
    BY <1>1, <2>1
  <2>3. upc + 1 \in 1 .. n
    BY <2>2
  <2> QED
    BY <1>3, <2>1, <2>3
<1>5. \A o \in Operands(code'[pc']) : Known(o)'
  BY <1>1, <1>2, Frame
<1> QED
  BY <1>1, <1>2, <1>4, <1>5, Frame DEF RunInv

\* It ends where the interpreter goes.
LEMMA LeavesIt ==
  ASSUME Complete, RunInv, turn = "asm", Calm, code[pc].op /= "ret", upc' = 1, epc' = NextPc(code[pc]),
         turn' = "store", result' = result, ArgsKept', Done'
  PROVE  RunInv'
<1>1. result = <<>> /\ pc \in Lines
  BY DEF RunInv
<1>2. pc' = pc /\ code' = code /\ NextPc(code[pc])' = NextPc(code[pc])
  <2>1. pc' = pc /\ code' = code
    BY DEF Calm
  <2> QED
    BY <2>1, Frame
<1> QED
  BY <1>1, <1>2, Frame DEF RunInv

\* When the instruction defines nothing, what was in place still is.
LEMMA NothingDone ==
  ASSUME Complete, RunInv, Calm, code[pc].op \notin Defining, Sim'
  PROVE  Done'
<1>1. /\ liveIn' = liveIn /\ liveOut' = liveOut /\ pc' = pc /\ code' = code /\ vregs' = vregs
  BY DEF Calm, liveVars
<1>2. pc \in Lines
  BY DEF RunInv
<1>3. \A v \in liveOut[pc] : v \in liveIn[pc]
  BY <1>2, LiveFacts
<1> QED
  BY <1>1, <1>3 DEF Done, Sim

AsmStep == AsmMove \/ AsmCompare \/ AsmLabel \/ AsmJump \/ AsmRet

-----------------------------------------------------------------------------
\* What each mnemonic does.
LEMMA CalmStep == ASSUME AsmStep PROVE Calm /\ turn = "asm" /\ doing = "run"
BY DEF AsmStep, AsmMove, AsmCompare, AsmLabel, AsmJump, AsmRet, Executes, Turn, Calm

LEMMA MovEffect ==
  ASSUME AsmStep, NEW x, NEW y, Instr = <<"mov", x, y>>
  PROVE  mem' = Put(mem, x, Read(y)) /\ NextLine /\ result' = result
<1>1. AsmMove
  BY DEF AsmStep, AsmCompare, AsmLabel, AsmJump, AsmRet, Executes
<1> QED
  BY <1>1 DEF AsmMove

LEMMA ArithEffect ==
  ASSUME AsmStep, NEW op \in Arith, NEW x, NEW y, Instr = <<op, x, y>>
  PROVE  mem' = Put(mem, x, Compute(op, Read(x), Read(y))) /\ NextLine /\ result' = result
<1>1. AsmMove
  BY DEF AsmStep, AsmCompare, AsmLabel, AsmJump, AsmRet, Executes, Arith
<1>2. op /= "mov"
  BY DEF Arith
<1> QED
  BY <1>1, <1>2 DEF AsmMove

LEMMA CmpEffect ==
  ASSUME AsmStep, NEW x, NEW y, Instr = <<"cmp", x, y>>
  PROVE  ge' = (Read(x) >= Read(y)) /\ mem' = mem /\ NextLine /\ result' = result
<1>1. AsmCompare
  BY DEF AsmStep, AsmMove, AsmLabel, AsmJump, AsmRet, Executes, Arith
<1> QED
  BY <1>1 DEF AsmCompare

LEMMA JumpEffect ==
  ASSUME AsmStep, NEW op \in {"jmp", "jge"}, NEW l, Instr = <<op, Imm(l), Imm(0)>>
  PROVE  /\ mem' = mem /\ result' = result
         /\ op = "jmp" \/ ge => epc' = LabelAt(l) /\ upc' = 1 /\ turn' = "store"
         /\ ~ (op = "jmp" \/ ge) => NextLine
<1>1. AsmJump
  BY DEF AsmStep, AsmMove, AsmCompare, AsmLabel, AsmRet, Executes, Arith
<1>2. Instr[2][2] = l /\ Instr[1] = op
  BY DEF Imm
<1> QED
  BY <1>1, <1>2 DEF AsmJump

LEMMA LabelEffect ==
  ASSUME AsmStep, NEW x, NEW y, Instr = <<"label", x, y>>
  PROVE  mem' = mem /\ NextLine /\ result' = result
<1>1. AsmLabel
  BY DEF AsmStep, AsmMove, AsmCompare, AsmJump, AsmRet, Executes, Arith
<1> QED
  BY <1>1 DEF AsmLabel

LEMMA RetEffect ==
  ASSUME AsmStep, NEW x, NEW y, Instr = <<"ret", x, y>>
  PROVE  mem' = mem /\ result' = <<mem[Result]>> /\ turn' = "store" /\ epc' = epc /\ upc' = upc
<1>1. AsmRet
  BY DEF AsmStep, AsmMove, AsmCompare, AsmJump, AsmLabel, Executes, Arith
<1> QED
  BY <1>1 DEF AsmRet

-----------------------------------------------------------------------------
\* The emulator is within an instruction, and takes a step.
Inside == Complete /\ RunInv /\ turn = "asm"
Within == Inside /\ AsmStep

LEMMA InsideIs ==
  ASSUME Inside
  PROVE  /\ Complete /\ RunInv /\ turn = "asm" /\ pc \in Lines
         /\ epc = pc /\ result = <<>> /\ upc \in 1 .. Len(Asm)
         /\ \A o \in Operands(code[pc]) : Known(o)
         /\ Halfway /\ Temp /\ ArgsKept
         /\ Asm = SelectOne(code[pc])
         /\ Sim => SimBut
BY DEF Inside, RunInv, Asm, Sim, SimBut

LEMMA WithinIs ==
  ASSUME Within
  PROVE  /\ Complete /\ RunInv /\ Calm /\ turn = "asm" /\ pc \in Lines
         /\ epc = pc /\ result = <<>> /\ upc \in 1 .. Len(Asm)
         /\ \A o \in Operands(code[pc]) : Known(o)
         /\ Halfway /\ Temp /\ ArgsKept
         /\ Asm = SelectOne(code[pc])
         /\ Sim => SimBut
         /\ code' = code /\ pc' = pc
         /\ Inside
BY InsideIs, CalmStep DEF Within, Calm

\* Before the first line of it, everything is in its place.
LEMMA Started ==
  ASSUME Inside, upc = 1
  PROVE  /\ Sim
         /\ \A o \in Operands(code[pc]) : Written(PlaceOf(o)) /\ Read(PlaceOf(o)) = Val(o)
<1>1. Sim
  BY InsideIs DEF Halfway
<1>2. ASSUME NEW o \in Operands(code[pc]) PROVE Written(PlaceOf(o)) /\ Read(PlaceOf(o)) = Val(o)
  <2>1. ASSUME o[1] = "v" PROVE Holds(o[2])
    <3>1. o[2] \in Uses(code[pc])
      BY <2>1, InsideIs, OperandTypes DEF Complete, LiveInv
    <3>2. o[2] \in liveIn[pc]
      BY <3>1, InsideIs, LiveFacts
    <3>3. o[2] \in DOMAIN vregs
      BY <2>1, InsideIs DEF Known
    <3> QED
      BY <1>1, <3>2, <3>3 DEF Sim
  <2> QED
    BY <2>1, InsideIs, OperandHeld
<1> QED
  BY <1>1, <1>2

\* The same while everything is in its place, at a later line.
LEMMA StillHeld ==
  ASSUME Inside, SimBut, NEW o \in Operands(code[pc]), Sim \/ PlaceOf(o) /= HomeOf(code[pc].d)
  PROVE  Written(PlaceOf(o)) /\ Read(PlaceOf(o)) = Val(o)
<1>1. ASSUME o[1] = "v" PROVE Holds(o[2])
  <2>1. o[2] \in Uses(code[pc]) /\ o = V(o[2])
    BY <1>1, InsideIs, OperandTypes DEF Complete, LiveInv
  <2>2. o[2] \in liveIn[pc]
    BY <2>1, InsideIs, LiveFacts
  <2>3. o[2] \in DOMAIN vregs
    BY <1>1, InsideIs DEF Known
  <2>4. PlaceOf(o) = HomeOf(o[2])
    BY <2>1 DEF HomeOf
  <2> QED
    BY <2>2, <2>3, <2>4 DEF Sim, SimBut
<1> QED
  BY <1>1, InsideIs, OperandHeld

\* The last line stores the outcome.
LEMMA Finish ==
  ASSUME Within, code[pc].op \in Defining, SimBut, mem' = Put(mem, HomeOf(code[pc].d), Outcome(code[pc])),
         ~ upc < Len(Asm), NextLine, result' = result
  PROVE  RunInv'
<1>1. upc' = 1 /\ epc' = epc + 1 /\ turn' = "store"
  BY DEF NextLine
<1>2. ArgsKept' /\ Done'
  BY WithinIs, HomeWrite
<1>3. NextPc(code[pc]) = pc + 1 /\ code[pc].op /= "ret"
  BY DEF NextPc, Defining, Arith
<1>4. epc' = NextPc(code[pc])
  BY <1>1, <1>3, WithinIs
<1> QED
  BY <1>1, <1>2, <1>3, <1>4, WithinIs, LeavesIt

\* A first line that loads the left operand into the scratch register.
LEMMA ScratchFirst ==
  ASSUME Within, upc = 1, Len(Asm) \in {2, 3}, Instr = <<"mov", Scratch, PlaceOf(code[pc].a)>>,
         code[pc].a \in Operands(code[pc]),
         Asm[2][1] \in {"mov", "cmp"} \cup Arith, Asm[2][1] = "mov" => code[pc].op = "copy"
  PROVE  RunInv'
<1>1. Read(PlaceOf(code[pc].a)) = Val(code[pc].a) /\ Sim
  BY WithinIs, Started
<1>2. mem' = Put(mem, Scratch, Val(code[pc].a)) /\ NextLine /\ result' = result
  BY <1>1, MovEffect DEF Within
<1>3. upc' = 2 /\ epc' = epc /\ turn' = turn
  BY <1>2 DEF NextLine
<1>4. PICK x : x = Val(code[pc].a)
  OBVIOUS
<1>5. ArgsKept' /\ Sim' /\ Keeps(Scratch, x)'
  BY <1>1, <1>2, <1>4, WithinIs, ScratchWrite
<1>6. Asm' = Asm
  BY <1>3, WithinIs, Frame DEF Asm
<1>7. PICK I : I = Asm[2]
  OBVIOUS
<1>8. Instr' = I
  BY <1>3, <1>6, <1>7 DEF Instr
<1>9. Val(code[pc].a)' = x /\ (code[pc].op = "copy" => Outcome(code[pc])' = x)
  <2>1. code[pc].op = "copy" => Outcome(code[pc]) = x
    BY <1>4 DEF Outcome
  <2>2. Val(code[pc].a)' = Val(code[pc].a) /\ Outcome(code[pc])' = Outcome(code[pc])
    BY WithinIs, Frame
  <2> QED
    BY <1>4, <2>1, <2>2
<1>10. Temp'
  <2>1. I[1] = "mov" => code[pc].op = "copy"
    BY <1>7
  <2>2. I[1] \notin {"jge", "ret"}
    BY <1>7 DEF Arith
  <2> QED
    BY <1>5, <1>8, <1>9, <2>1, <2>2 DEF Temp
<1>11. Halfway'
  <2>1. Asm[1][2] = Scratch
    BY DEF Instr
  <2>2. code[pc].op \in Arith => HomeOf(code[pc].d) /= Scratch
    <3>1. code[pc].op \in Arith => code[pc].d \in Touched(pc)
      BY WithinIs, LiveFacts DEF Defining
    <3> QED
      BY <3>1, WithinIs, HomeTypes, Elsewhere
  <2>3. HomeOf(code[pc].d)' = HomeOf(code[pc].d) /\ code'[pc'].op = code[pc].op
    BY WithinIs, Frame
  <2> QED
    BY <1>5, <1>6, <2>1, <2>2, <2>3 DEF Halfway
<1> QED
  BY <1>3, <1>5, <1>10, <1>11, <1>2, WithinIs, GoesOn

-----------------------------------------------------------------------------
\* What the register an instruction defines becomes is a place of its own.
LEMMA DefinedHome ==
  ASSUME Inside, code[pc].op \in Defining
  PROVE  HomeOf(code[pc].d) /= Scratch /\ HomeOf(code[pc].d)[1] /= "imm" /\ PlaceOf(V(code[pc].d)) = HomeOf(code[pc].d)
<1>1. HomeOf(code[pc].d) \in Homes
  BY InsideIs, LiveFacts, HomeTypes
<1> QED
  BY <1>1, Elsewhere DEF HomeOf

\* What each instruction becomes.
LEMMA SelectCopy ==
  ASSUME NEW t, t.op = "copy"
  PROVE  \/ SelectOne(t) = <<<<"mov", Scratch, PlaceOf(t.a)>>, <<"mov", PlaceOf(V(t.d)), Scratch>>>>
         \/ SelectOne(t) = <<<<"mov", PlaceOf(V(t.d)), PlaceOf(t.a)>>>>
BY DEF SelectOne, Arith

LEMMA SelectArith ==
  ASSUME NEW t, t.op \in Arith
  PROVE  SelectOne(t) = SelectBin(t.op, PlaceOf(V(t.d)), PlaceOf(t.a), PlaceOf(t.b))
BY DEF SelectOne, Arith

LEMMA CopyStep == ASSUME Within, code[pc].op = "copy" PROVE RunInv'
<1> DEFINE t == code[pc]
<1>1. PICK d, a : d = HomeOf(t.d) /\ a = PlaceOf(t.a)
  OBVIOUS
<1>2. t.op \in Defining /\ t.a \in Operands(t) /\ d /= Scratch /\ t.op \notin Arith
  BY <1>1, WithinIs, DefinedHome DEF Defining, Operands, Arith
<1>3. \/ Asm = <<<<"mov", Scratch, a>>, <<"mov", d, Scratch>>>>
      \/ Asm = <<<<"mov", d, a>>>>
  <2>1. PlaceOf(V(t.d)) = d
    BY <1>1, <1>2, WithinIs, DefinedHome
  <2> QED
    BY <1>1, <2>1, WithinIs, SelectCopy
<1>4. CASE Asm = <<<<"mov", Scratch, a>>, <<"mov", d, Scratch>>>>
  <2>1. upc \in {1, 2} /\ Len(Asm) = 2
    BY <1>4, WithinIs
  <2>2. CASE upc = 1
    <3>1. Instr = <<"mov", Scratch, a>> /\ Asm[2][1] = "mov"
      BY <1>4, <2>2 DEF Instr
    <3> QED
      BY <1>1, <1>2, <2>1, <2>2, <3>1, ScratchFirst
  <2>3. CASE upc = 2
    <3>1. Instr = <<"mov", d, Scratch>>
      BY <1>4, <2>3 DEF Instr
    <3>2. Keeps(Scratch, Outcome(t))
      BY <2>3, <3>1, WithinIs DEF Temp
    <3>3. Read(Scratch) = Outcome(t)
      BY <3>2 DEF Read, Keeps, Scratch
    <3>4. mem' = Put(mem, d, Outcome(t)) /\ NextLine /\ result' = result
      BY <3>1, <3>3, MovEffect DEF Within
    <3>5. SimBut
      BY <1>2, WithinIs DEF Halfway
    <3> QED
      BY <1>1, <1>2, <2>1, <2>3, <3>4, <3>5, Finish
  <2> QED
    BY <2>1, <2>2, <2>3
<1>5. CASE Asm = <<<<"mov", d, a>>>>
  <2>1. upc = 1 /\ Len(Asm) = 1
    BY <1>5, WithinIs
  <2>2. Instr = <<"mov", d, a>>
    BY <1>5, <2>1 DEF Instr
  <2>3. Read(a) = Val(t.a) /\ Sim
    BY <1>1, <1>2, <2>1, WithinIs, Started
  <2>4. Val(t.a) = Outcome(t)
    BY DEF Outcome
  <2>5. mem' = Put(mem, d, Outcome(t)) /\ NextLine /\ result' = result
    BY <2>2, <2>3, <2>4, MovEffect DEF Within
  <2> QED
    BY <1>1, <1>2, <2>1, <2>3, <2>5, WithinIs, Finish
<1> QED
  BY <1>3, <1>4, <1>5

LEMMA BinStep == ASSUME Within, code[pc].op \in Arith PROVE RunInv'
<1> DEFINE t == code[pc]
<1>1. PICK d, a, b, op : d = HomeOf(t.d) /\ a = PlaceOf(t.a) /\ b = PlaceOf(t.b) /\ op = t.op
  OBVIOUS
<1>2. /\ t.op \in Defining /\ t.a \in Operands(t) /\ t.b \in Operands(t) /\ d /= Scratch /\ d[1] /= "imm"
      /\ op \in Arith /\ op /= "mov" /\ op /= "copy"
      /\ Outcome(t) = Compute(op, Val(t.a), Val(t.b))
  <2>1. t.op \in Defining
    BY DEF Defining
  <2>2. t.op /= "mov" /\ t.op /= "copy"
    BY DEF Arith
  <2>3. t.a \in Operands(t) /\ t.b \in Operands(t)
    BY DEF Operands, Arith
  <2>4. Outcome(t) = Compute(op, Val(t.a), Val(t.b))
    BY <1>1, <2>2 DEF Outcome
  <2> QED
    BY <1>1, <2>1, <2>2, <2>3, <2>4, WithinIs, DefinedHome
<1>3. \/ Asm = <<<<"mov", Scratch, a>>, <<op, Scratch, b>>, <<"mov", d, Scratch>>>>
      \/ Asm = <<<<op, d, b>>>> /\ d = a
      \/ Asm = <<<<"mov", d, a>>, <<op, d, b>>>> /\ d /= b
  <2>1. PlaceOf(V(t.d)) = d
    BY <1>1, <1>2, WithinIs, DefinedHome
  <2>2. Asm = SelectBin(op, d, a, b)
    BY <1>1, <2>1, WithinIs, SelectArith
  <2> QED
    BY <2>2 DEF SelectBin
<1>4. CASE Asm = <<<<"mov", Scratch, a>>, <<op, Scratch, b>>, <<"mov", d, Scratch>>>>
  <2>1. upc \in {1, 2, 3} /\ Len(Asm) = 3
    BY <1>4, WithinIs
  <2>2. CASE upc = 1
    <3>1. Instr = <<"mov", Scratch, a>> /\ Asm[2][1] = op
      BY <1>4, <2>2 DEF Instr
    <3> QED
      BY <1>1, <1>2, <2>1, <2>2, <3>1, ScratchFirst
  <2>3. CASE upc = 2
    <3>1. Instr = <<op, Scratch, b>> /\ Instr[1] = op /\ Instr[2] = Scratch
      BY <1>4, <2>3 DEF Instr
    <3>2. Keeps(Scratch, Val(t.a))
      BY <1>2, <2>3, <3>1, WithinIs DEF Temp
    <3>3. Read(Scratch) = Val(t.a)
      BY <3>2 DEF Read, Keeps, Scratch
    <3>4. Sim /\ SimBut
      <4>1. Asm[1][2] = Scratch
        BY <1>4
      <4> QED
        BY <1>1, <1>2, <4>1, WithinIs DEF Halfway
    <3>5. Read(b) = Val(t.b)
      BY <1>1, <1>2, <3>4, WithinIs, StillHeld
    <3>6. PICK x : x = Outcome(t)
      OBVIOUS
    <3>7. mem' = Put(mem, Scratch, x) /\ NextLine /\ result' = result
      BY <1>2, <3>1, <3>3, <3>5, <3>6, ArithEffect DEF Within
    <3>8. ArgsKept' /\ Sim' /\ Keeps(Scratch, x)'
      BY <3>4, <3>7, WithinIs, ScratchWrite
    <3>9. upc' = 3 /\ epc' = epc /\ turn' = turn
      BY <2>1, <2>3, <3>7 DEF NextLine
    <3>10. Asm' = Asm /\ Outcome(t)' = x
      BY <3>6, <3>9, WithinIs, Frame DEF Asm
    <3>11. Instr' = <<"mov", d, Scratch>>
      BY <1>4, <3>9, <3>10 DEF Instr
    <3>12. Temp'
      BY <3>8, <3>10, <3>11 DEF Temp, Arith
    <3>13. Halfway'
      BY <3>8, <3>9 DEF Halfway
    <3> QED
      BY <2>1, <2>3, <3>7, <3>8, <3>9, <3>12, <3>13, WithinIs, GoesOn
  <2>4. CASE upc = 3
    <3>1. Instr = <<"mov", d, Scratch>>
      BY <1>4, <2>4 DEF Instr
    <3>2. Keeps(Scratch, Outcome(t))
      BY <2>4, <3>1, WithinIs DEF Temp
    <3>3. Read(Scratch) = Outcome(t)
      BY <3>2 DEF Read, Keeps, Scratch
    <3>4. mem' = Put(mem, d, Outcome(t)) /\ NextLine /\ result' = result
      BY <3>1, <3>3, MovEffect DEF Within
    <3>5. SimBut
      BY <2>4, WithinIs DEF Halfway
    <3> QED
      BY <1>1, <1>2, <2>1, <2>4, <3>4, <3>5, Finish
  <2> QED
    BY <2>1, <2>2, <2>3, <2>4
<1>5. CASE Asm = <<<<op, d, b>>>> /\ d = a
  <2>1. upc = 1 /\ Len(Asm) = 1
    BY <1>5, WithinIs
  <2>2. Instr = <<op, d, b>>
    BY <1>5, <2>1 DEF Instr
  <2>3. Read(d) = Val(t.a) /\ Read(b) = Val(t.b) /\ Sim
    BY <1>1, <1>2, <1>5, <2>1, WithinIs, Started
  <2>4. mem' = Put(mem, d, Outcome(t)) /\ NextLine /\ result' = result
    BY <1>2, <2>2, <2>3, ArithEffect DEF Within
  <2> QED
    BY <1>1, <1>2, <2>1, <2>3, <2>4, WithinIs, Finish
<1>6. CASE Asm = <<<<"mov", d, a>>, <<op, d, b>>>> /\ d /= b
  <2>1. upc \in {1, 2} /\ Len(Asm) = 2 /\ Asm[1][2] = d
    BY <1>6, WithinIs
  <2>2. CASE upc = 1
    <3>1. Instr = <<"mov", d, a>>
      BY <1>6, <2>2 DEF Instr
    <3>2. Read(a) = Val(t.a) /\ Sim /\ SimBut
      BY <1>1, <1>2, <2>2, Started, WithinIs
    <3>3. PICK x : x = Val(t.a)
      OBVIOUS
    <3>4. mem' = Put(mem, d, x) /\ NextLine /\ result' = result
      BY <3>1, <3>2, <3>3, MovEffect DEF Within
    <3>5. ArgsKept' /\ SimBut' /\ Keeps(HomeOf(t.d), x)'
      BY <1>1, <1>2, <3>2, <3>4, WithinIs, HomeWrite
    <3>6. upc' = 2 /\ epc' = epc /\ turn' = turn
      BY <2>1, <2>2, <3>4 DEF NextLine
    <3>7. Asm' = Asm /\ Val(t.a)' = x /\ HomeOf(t.d)' = d
      BY <1>1, <3>3, <3>6, WithinIs, Frame DEF Asm
    <3>8. Instr' = <<op, d, b>>
      BY <1>6, <3>6, <3>7 DEF Instr
    <3>9. Temp'
      BY <1>2, <3>8 DEF Temp, Arith
    <3>10. Halfway'
      BY <1>2, <2>1, <3>5, <3>6, <3>7, WithinIs DEF Halfway
    <3> QED
      BY <2>1, <2>2, <3>4, <3>5, <3>6, <3>9, <3>10, WithinIs, GoesOn
  <2>3. CASE upc = 2
    <3>1. Instr = <<op, d, b>>
      BY <1>6, <2>3 DEF Instr
    <3>2. SimBut /\ Keeps(d, Val(t.a))
      BY <1>1, <1>2, <2>1, <2>3, WithinIs DEF Halfway
    <3>3. Read(d) = Val(t.a)
      BY <1>2, <3>2 DEF Read, Keeps
    <3>4. Read(b) = Val(t.b)
      BY <1>1, <1>2, <1>6, <3>2, WithinIs, StillHeld
    <3>5. mem' = Put(mem, d, Outcome(t)) /\ NextLine /\ result' = result
      BY <1>2, <3>1, <3>3, <3>4, ArithEffect DEF Within
    <3> QED
      BY <1>1, <1>2, <2>1, <2>3, <3>2, <3>5, Finish
  <2> QED
    BY <2>1, <2>2, <2>3
<1> QED
  BY <1>3, <1>4, <1>5, <1>6

LEMMA SelectJge ==
  ASSUME NEW t, t.op = "jge"
  PROVE  \/ SelectOne(t) = <<<<"mov", Scratch, PlaceOf(t.a)>>, <<"cmp", Scratch, PlaceOf(t.b)>>, <<"jge", Imm(t.l), Imm(0)>>>>
         \/ SelectOne(t) = <<<<"cmp", PlaceOf(t.a), PlaceOf(t.b)>>, <<"jge", Imm(t.l), Imm(0)>>>>
BY DEF SelectOne, Arith

LEMMA SelectRet ==
  ASSUME NEW t, t.op = "ret"
  PROVE  SelectOne(t) = <<<<"mov", Result, PlaceOf(t.a)>>, <<"ret", Imm(0), Imm(0)>>>>
BY DEF SelectOne, Arith

LEMMA SelectOther ==
  ASSUME NEW t, t.op \in {"jmp", "label"}
  PROVE  SelectOne(t) = <<<<t.op, Imm(t.l), Imm(0)>>>>
BY DEF SelectOne, Arith

\* Steps that write no place keep every value in its place.
LEMMA NoWrite ==
  ASSUME Within, Sim, mem' = mem
  PROVE  ArgsKept' /\ Sim'
<1>1. /\ liveIn' = liveIn /\ pc' = pc /\ vregs' = vregs /\ args' = args
  BY WithinIs DEF Calm, liveVars
<1>2. ArgsKept'
  BY <1>1, WithinIs DEF ArgsKept
<1>3. \A v : Holds(v) => Holds(v)'
  BY <1>1, WithinIs, Frame DEF Holds
<1> QED
  BY <1>1, <1>2, <1>3 DEF Sim

\* A comparison sets the flag the jump after it needs.
LEMMA Compared ==
  ASSUME Within, code[pc].op = "jge", Sim, NEW x, Instr = <<"cmp", x, PlaceOf(code[pc].b)>>, Read(x) = Val(code[pc].a),
         Len(Asm) \in Nat, upc < Len(Asm), Asm[upc + 1] = <<"jge", Imm(code[pc].l), Imm(0)>>
  PROVE  RunInv'
<1> DEFINE t == code[pc]
<1>1. t.b \in Operands(t) /\ t.op \notin Arith
  BY DEF Operands, Arith
<1>2. Read(PlaceOf(t.b)) = Val(t.b)
  BY <1>1, WithinIs, StillHeld
<1>3. ge' = (Val(t.a) >= Val(t.b)) /\ mem' = mem /\ NextLine /\ result' = result
  BY <1>2, CmpEffect DEF Within
<1>4. upc' = upc + 1 /\ epc' = epc /\ turn' = turn
  BY <1>3 DEF NextLine
<1>5. ArgsKept' /\ Sim'
  BY <1>3, NoWrite
<1>6. Asm' = Asm /\ Val(t.a)' = Val(t.a) /\ Val(t.b)' = Val(t.b) /\ t'.op = t.op
  BY <1>4, WithinIs, Frame DEF Asm
<1>7. Halfway'
  BY <1>1, <1>5, <1>6 DEF Halfway
<1>8. PICK I : I = <<"jge", Imm(t.l), Imm(0)>>
  OBVIOUS
<1>9. Instr' = I
  BY <1>4, <1>6, <1>8 DEF Instr
<1>10. Temp'
  <2>1. I[1] = "jge"
    BY <1>8
  <2>2. I[1] \notin Arith
    BY <2>1 DEF Arith
  <2> QED
    BY <1>3, <1>6, <1>9, <2>1, <2>2 DEF Temp
<1> QED
  BY <1>3, <1>4, <1>5, <1>7, <1>10, WithinIs, GoesOn

LEMMA JgeStep == ASSUME Within, code[pc].op = "jge" PROVE RunInv'
<1> DEFINE t == code[pc]
<1>1. PICK a, b, j : a = PlaceOf(t.a) /\ b = PlaceOf(t.b) /\ j = <<"jge", Imm(t.l), Imm(0)>>
  OBVIOUS
<1>2. t.a \in Operands(t) /\ t.op \notin Arith /\ t.op \notin Defining /\ t.op /= "ret"
  BY DEF Operands, Arith, Defining
<1>3. Sim
  BY <1>2, WithinIs DEF Halfway
<1>4. ASSUME Instr = j, ~ upc < Len(Asm), upc > 1 PROVE RunInv'
  <2>1. ge = (Val(t.a) >= Val(t.b))
    BY <1>1, <1>4, WithinIs DEF Temp
  <2>2. /\ mem' = mem /\ result' = result
        /\ ge => epc' = LabelAt(t.l) /\ upc' = 1 /\ turn' = "store"
        /\ ~ ge => NextLine
    BY <1>1, <1>4, JumpEffect DEF Within
  <2>3. upc' = 1 /\ turn' = "store" /\ epc' = NextPc(t)
    BY <1>4, <2>1, <2>2, WithinIs DEF NextLine, NextPc
  <2>4. ArgsKept' /\ Sim'
    BY <1>3, <2>2, NoWrite
  <2>5. Done'
    BY <1>2, <2>4, WithinIs, NothingDone
  <2> QED
    BY <1>2, <2>2, <2>3, <2>4, <2>5, WithinIs, LeavesIt
<1>5. \/ Asm = <<<<"mov", Scratch, a>>, <<"cmp", Scratch, b>>, j>>
      \/ Asm = <<<<"cmp", a, b>>, j>>
  BY <1>1, WithinIs, SelectJge
<1>6. CASE Asm = <<<<"mov", Scratch, a>>, <<"cmp", Scratch, b>>, j>>
  <2>1. upc \in {1, 2, 3} /\ Len(Asm) = 3
    BY <1>6, WithinIs
  <2>2. CASE upc = 1
    <3>1. Instr = <<"mov", Scratch, a>> /\ Asm[2][1] = "cmp"
      BY <1>6, <2>2 DEF Instr
    <3> QED
      BY <1>1, <1>2, <2>1, <2>2, <3>1, ScratchFirst
  <2>3. CASE upc = 2
    <3>1. Instr = <<"cmp", Scratch, b>> /\ Asm[upc + 1] = j
      BY <1>6, <2>3 DEF Instr
    <3>2. Keeps(Scratch, Val(t.a))
      BY <2>3, <3>1, WithinIs DEF Temp
    <3>3. Read(Scratch) = Val(t.a)
      BY <3>2 DEF Read, Keeps, Scratch
    <3> QED
      BY <1>1, <1>3, <2>1, <2>3, <3>1, <3>3, Compared
  <2>4. CASE upc = 3
    <3>1. Instr = j
      BY <1>6, <2>4 DEF Instr
    <3> QED
      BY <1>4, <2>1, <2>4, <3>1
  <2> QED
    BY <2>1, <2>2, <2>3, <2>4
<1>7. CASE Asm = <<<<"cmp", a, b>>, j>>
  <2>1. upc \in {1, 2} /\ Len(Asm) = 2
    BY <1>7, WithinIs
  <2>2. CASE upc = 1
    <3>1. Instr = <<"cmp", a, b>> /\ Asm[upc + 1] = j
      BY <1>7, <2>2 DEF Instr
    <3>2. Read(a) = Val(t.a)
      BY <1>1, <1>2, <2>2, WithinIs, Started
    <3> QED
      BY <1>1, <1>3, <2>1, <2>2, <3>1, <3>2, Compared
  <2>3. CASE upc = 2
    <3>1. Instr = j
      BY <1>7, <2>3 DEF Instr
    <3> QED
      BY <1>4, <2>1, <2>3, <3>1
  <2> QED
    BY <2>1, <2>2, <2>3
<1> QED
  BY <1>5, <1>6, <1>7

LEMMA OtherStep == ASSUME Within, code[pc].op \in {"jmp", "label"} PROVE RunInv'
<1> DEFINE t == code[pc]
<1>1. t.op \notin Arith /\ t.op \notin Defining /\ t.op /= "ret"
  BY DEF Arith, Defining
<1>2. Sim
  BY <1>1, WithinIs DEF Halfway
<1>3. Asm = <<<<t.op, Imm(t.l), Imm(0)>>>>
  BY WithinIs, SelectOther
<1>4. upc = 1 /\ Len(Asm) = 1
  BY <1>3, WithinIs
<1>5. Instr = <<t.op, Imm(t.l), Imm(0)>>
  BY <1>3, <1>4 DEF Instr
<1>6. mem' = mem /\ result' = result /\ upc' = 1 /\ turn' = "store" /\ epc' = NextPc(t)
  <2>1. CASE t.op = "jmp"
    <3>1. mem' = mem /\ result' = result /\ epc' = LabelAt(t.l) /\ upc' = 1 /\ turn' = "store"
      BY <1>5, <2>1, JumpEffect DEF Within
    <3> QED
      BY <2>1, <3>1 DEF NextPc
  <2>2. CASE t.op = "label"
    <3>1. mem' = mem /\ result' = result /\ NextLine
      BY <1>5, <2>2, LabelEffect DEF Within
    <3> QED
      BY <1>4, <2>2, <3>1, WithinIs DEF NextLine, NextPc
  <2> QED
    BY <2>1, <2>2
<1>7. ArgsKept' /\ Sim'
  BY <1>2, <1>6, NoWrite
<1>8. Done'
  BY <1>1, <1>7, WithinIs, NothingDone
<1> QED
  BY <1>1, <1>6, <1>7, <1>8, WithinIs, LeavesIt

LEMMA RetStep == ASSUME Within, code[pc].op = "ret" PROVE RunInv'
<1> DEFINE t == code[pc]
<1>1. t.a \in Operands(t) /\ t.op \notin Arith
  BY DEF Operands, Arith
<1>2. Sim
  BY <1>1, WithinIs DEF Halfway
<1>3. PICK a, r : a = PlaceOf(t.a) /\ r = <<"ret", Imm(0), Imm(0)>>
  OBVIOUS
<1>4. Asm = <<<<"mov", Result, a>>, r>> /\ r[1] = "ret"
  BY <1>3, WithinIs, SelectRet
<1>5. upc \in {1, 2} /\ Len(Asm) = 2
  BY <1>4, WithinIs
<1>6. CASE upc = 1
  <2>1. Instr = <<"mov", Result, a>>
    BY <1>4, <1>6 DEF Instr
  <2>2. PICK x : x = Val(t.a)
    OBVIOUS
  <2>3. Read(a) = x
    BY <1>1, <1>3, <1>6, <2>2, WithinIs, Started
  <2>4. mem' = Put(mem, Result, x) /\ NextLine /\ result' = result
    BY <2>1, <2>3, MovEffect DEF Within
  <2>5. upc' = 2 /\ epc' = epc /\ turn' = turn
    BY <1>5, <1>6, <2>4 DEF NextLine
  <2>6. ArgsKept' /\ Sim' /\ Keeps(Result, x)'
    BY <1>2, <2>4, WithinIs, ScratchWrite
  <2>7. Asm' = Asm /\ Val(t.a)' = x /\ t'.op = t.op
    BY <2>2, <2>5, WithinIs, Frame DEF Asm
  <2>8. Instr' = r
    BY <1>4, <2>5, <2>7 DEF Instr
  <2>9. Temp'
    BY <1>4, <2>6, <2>7, <2>8 DEF Temp, Arith
  <2>10. Halfway'
    BY <1>1, <2>6, <2>7 DEF Halfway
  <2> QED
    BY <1>5, <1>6, <2>4, <2>5, <2>6, <2>9, <2>10, WithinIs, GoesOn
<1>7. CASE upc = 2
  <2>1. Instr = r
    BY <1>4, <1>7 DEF Instr
  <2>2. Keeps(Result, Val(t.a))
    BY <1>4, <1>7, <2>1, WithinIs DEF Temp
  <2>3. mem' = mem /\ result' = <<mem[Result]>> /\ turn' = "store" /\ epc' = epc /\ upc' = upc
    BY <1>3, <2>1, RetEffect DEF Within
  <2>4. result' = <<Val(t.a)>>
    BY <2>2, <2>3 DEF Keeps
  <2>5. ArgsKept'
    BY <1>2, <2>3, NoWrite
  <2>6. code' = code /\ pc' = pc /\ Val(t.a)' = Val(t.a) /\ Lines' = Lines /\ pc \in Lines
    BY WithinIs, Frame
  <2> QED
    BY <2>3, <2>4, <2>5, <2>6 DEF RunInv
<1> QED
  BY <1>5, <1>6, <1>7

LEMMA AsmSteps == ASSUME Within PROVE RunInv'
<1>1. code[pc].op \in {"+", "-", "*", "copy", "label", "jge", "jmp", "ret"}
  BY WithinIs, OperandTypes DEF Complete, LiveInv
<1> QED
  BY <1>1, CopyStep, BinStep, JgeStep, OtherStep, RetStep DEF Arith

-----------------------------------------------------------------------------
\* What the emulator is about to read is written.
LEMMA Readable == ASSUME Inside PROVE \A o \in Reads(Instr) : Written(o)
<1> DEFINE t == code[pc]
<1>1. PICK d, a, b : d = HomeOf(t.d) /\ a = PlaceOf(t.a) /\ b = PlaceOf(t.b)
  OBVIOUS
<1>2. t.op \in {"+", "-", "*", "copy", "label", "jge", "jmp", "ret"}
  BY InsideIs, OperandTypes DEF Complete, LiveInv
<1>3. \A o, x : Keeps(o, x) => Written(o)
  BY DEF Keeps, Written
<1>4. \A x, y : Instr = <<"mov", x, y>> => Reads(Instr) = {y}
  BY DEF Reads, Arith
<1>5. \A op, x, y : op \in Arith \cup {"cmp"} /\ Instr = <<op, x, y>> => Reads(Instr) = {x, y}
  BY DEF Reads, Arith
<1>6. CASE t.op = "copy"
  <2>1. t.a \in Operands(t) /\ PlaceOf(V(t.d)) = d
    BY <1>1, <1>6, InsideIs, DefinedHome DEF Operands, Arith, Defining
  <2>2. CASE Asm = <<<<"mov", Scratch, a>>, <<"mov", d, Scratch>>>>
    <3>1. upc \in {1, 2}
      BY <2>2, InsideIs
    <3>2. CASE upc = 1
      <4>1. Instr = <<"mov", Scratch, a>>
        BY <2>2, <3>2 DEF Instr
      <4> QED
        BY <1>1, <1>4, <2>1, <3>2, <4>1, Started
    <3>3. CASE upc = 2
      <4>1. Instr = <<"mov", d, Scratch>>
        BY <2>2, <3>3 DEF Instr
      <4>2. Keeps(Scratch, Outcome(t))
        BY <3>3, <4>1, InsideIs DEF Temp
      <4> QED
        BY <1>3, <1>4, <4>1, <4>2
    <3> QED
      BY <3>1, <3>2, <3>3
  <2>3. CASE Asm = <<<<"mov", d, a>>>>
    <3>1. upc = 1
      BY <2>3, InsideIs
    <3>2. Instr = <<"mov", d, a>>
      BY <2>3, <3>1 DEF Instr
    <3> QED
      BY <1>1, <1>4, <2>1, <3>1, <3>2, Started
  <2> QED
    BY <1>1, <1>6, <2>1, <2>2, <2>3, InsideIs, SelectCopy
<1>7. CASE t.op \in Arith
  <2>1. t.a \in Operands(t) /\ t.b \in Operands(t)
    BY <1>7 DEF Operands, Arith
  <2>2. t.op \in Defining
    BY <1>7 DEF Defining
  <2>3. PlaceOf(V(t.d)) = d /\ d /= Scratch
    BY <1>1, <2>2, DefinedHome
  <2>4. PICK op : op = t.op /\ op \in Arith /\ op /= "mov"
    BY <1>7 DEF Arith
  <2>5. Asm = SelectBin(op, d, a, b)
    BY <1>1, <1>7, <2>3, <2>4, InsideIs, SelectArith
  <2>6. CASE Asm = <<<<"mov", Scratch, a>>, <<op, Scratch, b>>, <<"mov", d, Scratch>>>>
    <3>1. upc \in {1, 2, 3}
      BY <2>6, InsideIs
    <3>2. CASE upc = 1
      <4>1. Instr = <<"mov", Scratch, a>>
        BY <2>6, <3>2 DEF Instr
      <4> QED
        BY <1>1, <1>4, <2>1, <3>2, <4>1, Started
    <3>3. CASE upc = 2
      <4>1. Instr = <<op, Scratch, b>> /\ Instr[1] = op /\ Instr[2] = Scratch
        BY <2>6, <3>3 DEF Instr
      <4>2. Keeps(Scratch, Val(t.a))
        BY <2>4, <3>3, <4>1, InsideIs DEF Temp
      <4>3. Sim /\ SimBut
        <5>1. Asm[1][2] = Scratch
          BY <2>6
        <5> QED
          BY <1>1, <2>3, <5>1, InsideIs DEF Halfway
      <4>4. Written(b)
        BY <1>1, <2>1, <4>3, StillHeld
      <4> QED
        BY <1>3, <1>5, <2>4, <4>1, <4>2, <4>4
    <3>4. CASE upc = 3
      <4>1. Instr = <<"mov", d, Scratch>>
        BY <2>6, <3>4 DEF Instr
      <4>2. Keeps(Scratch, Outcome(t))
        BY <3>4, <4>1, InsideIs DEF Temp
      <4> QED
        BY <1>3, <1>4, <4>1, <4>2
    <3> QED
      BY <3>1, <3>2, <3>3, <3>4
  <2>7. CASE Asm = <<<<op, d, b>>>> /\ d = a
    <3>1. upc = 1
      BY <2>7, InsideIs
    <3>2. Instr = <<op, d, b>>
      BY <2>7, <3>1 DEF Instr
    <3> QED
      BY <1>1, <1>5, <2>1, <2>4, <2>7, <3>1, <3>2, Started
  <2>8. CASE Asm = <<<<"mov", d, a>>, <<op, d, b>>>> /\ d /= b
    <3>1. upc \in {1, 2} /\ Asm[1][2] = d
      BY <2>8, InsideIs
    <3>2. CASE upc = 1
      <4>1. Instr = <<"mov", d, a>>
        BY <2>8, <3>2 DEF Instr
      <4> QED
        BY <1>1, <1>4, <2>1, <3>2, <4>1, Started
    <3>3. CASE upc = 2
      <4>1. Instr = <<op, d, b>>
        BY <2>8, <3>3 DEF Instr
      <4>2. SimBut /\ Keeps(d, Val(t.a))
        BY <1>1, <1>7, <3>1, <3>3, InsideIs DEF Halfway
      <4>3. Written(b)
        BY <1>1, <2>1, <2>8, <4>2, StillHeld
      <4> QED
        BY <1>3, <1>5, <2>4, <4>1, <4>2, <4>3
    <3> QED
      BY <3>1, <3>2, <3>3
  <2> QED
    BY <2>5, <2>6, <2>7, <2>8 DEF SelectBin
<1>8. CASE t.op = "jge"
  <2>1. t.a \in Operands(t) /\ t.b \in Operands(t) /\ t.op \notin Arith
    BY <1>8 DEF Operands, Arith
  <2>2. PICK j : j = <<"jge", Imm(t.l), Imm(0)>>
    OBVIOUS
  <2>3. Instr = j => Reads(Instr) = {}
    <3>1. j[1] = "jge"
      BY <2>2
    <3> QED
      BY <3>1 DEF Reads, Arith
  <2>4. Sim /\ SimBut
    BY <2>1, InsideIs DEF Halfway
  <2>5. Written(b)
    BY <1>1, <2>1, <2>4, StillHeld
  <2>6. CASE Asm = <<<<"mov", Scratch, a>>, <<"cmp", Scratch, b>>, j>>
    <3>1. upc \in {1, 2, 3}
      BY <2>6, InsideIs
    <3>2. CASE upc = 1
      <4>1. Instr = <<"mov", Scratch, a>>
        BY <2>6, <3>2 DEF Instr
      <4> QED
        BY <1>1, <1>4, <2>1, <3>2, <4>1, Started
    <3>3. CASE upc = 2
      <4>1. Instr = <<"cmp", Scratch, b>>
        BY <2>6, <3>3 DEF Instr
      <4>2. Keeps(Scratch, Val(t.a))
        BY <3>3, <4>1, InsideIs DEF Temp
      <4> QED
        BY <1>3, <1>5, <2>5, <4>1, <4>2
    <3>4. CASE upc = 3
      <4>1. Instr = j
        BY <2>6, <3>4 DEF Instr
      <4> QED
        BY <2>3, <4>1
    <3> QED
      BY <3>1, <3>2, <3>3, <3>4
  <2>7. CASE Asm = <<<<"cmp", a, b>>, j>>
    <3>1. upc \in {1, 2}
      BY <2>7, InsideIs
    <3>2. CASE upc = 1
      <4>1. Instr = <<"cmp", a, b>>
        BY <2>7, <3>2 DEF Instr
      <4>2. Written(a)
        BY <1>1, <2>1, <3>2, Started
      <4> QED
        BY <1>5, <2>5, <4>1, <4>2
    <3>3. CASE upc = 2
      <4>1. Instr = j
        BY <2>7, <3>3 DEF Instr
      <4> QED
        BY <2>3, <4>1
    <3> QED
      BY <3>1, <3>2, <3>3
  <2> QED
    BY <1>1, <1>8, <2>2, <2>6, <2>7, InsideIs, SelectJge
<1>9. CASE t.op = "ret"
  <2>1. t.a \in Operands(t)
    BY <1>9 DEF Operands, Arith
  <2>2. PICK r : r = <<"ret", Imm(0), Imm(0)>>
    OBVIOUS
  <2>0. r[1] = "ret"
    BY <2>2
  <2>3. Asm = <<<<"mov", Result, a>>, r>>
    BY <1>1, <1>9, <2>2, InsideIs, SelectRet
  <2>4. upc \in {1, 2}
    BY <2>3, InsideIs
  <2>5. CASE upc = 1
    <3>1. Instr = <<"mov", Result, a>>
      BY <2>3, <2>5 DEF Instr
    <3> QED
      BY <1>1, <1>4, <2>1, <2>5, <3>1, Started
  <2>6. CASE upc = 2
    <3>1. Instr = r
      BY <2>3, <2>6 DEF Instr
    <3>2. Keeps(Result, Val(t.a))
      BY <2>0, <2>6, <3>1, InsideIs DEF Temp
    <3>3. Reads(Instr) = {Result}
      BY <2>0, <3>1 DEF Reads, Arith
    <3> QED
      BY <1>3, <3>2, <3>3
  <2> QED
    BY <2>4, <2>5, <2>6
<1>10. CASE t.op \in {"jmp", "label"}
  <2>1. Asm = <<<<t.op, Imm(t.l), Imm(0)>>>>
    BY <1>10, InsideIs, SelectOther
  <2>2. upc = 1
    BY <2>1, InsideIs
  <2>3. Instr[1] = t.op
    BY <2>1, <2>2 DEF Instr
  <2>4. Reads(Instr) = {}
    BY <1>10, <2>3 DEF Reads, Arith
  <2> QED
    BY <2>4
<1> QED
  BY <1>2, <1>6, <1>7, <1>8, <1>9, <1>10 DEF Arith

-----------------------------------------------------------------------------
\* Every instruction becomes at least one line.
LEMMA AsmLength ==
  ASSUME code \in Codes, pc \in Lines
  PROVE  Len(SelectOne(code[pc])) \in {1, 2, 3}
<1> DEFINE t == code[pc]
<1>1. t.op \in {"+", "-", "*", "copy", "label", "jge", "jmp", "ret"}
  BY OperandTypes
<1>2. CASE t.op = "copy"
  BY <1>2, SelectCopy
<1>3. CASE t.op \in Arith
  <2>1. \A op, d, a, b : Len(SelectBin(op, d, a, b)) \in {1, 2, 3}
    BY DEF SelectBin
  <2> QED
    BY <1>3, <2>1, SelectArith
<1>4. CASE t.op = "jge"
  BY <1>4, SelectJge
<1>5. CASE t.op = "ret"
  BY <1>5, SelectRet
<1>6. CASE t.op \in {"jmp", "label"}
  BY <1>6, SelectOther
<1> QED
  BY <1>1, <1>2, <1>3, <1>4, <1>5, <1>6 DEF Arith

\* The operands are looked up: the emulator starts on the instruction.
LEMMA FetchStep == ASSUME Complete, RunInv, Fetch PROVE RunInv'
<1>1. /\ turn = "fetch" /\ turn' = "asm" /\ epc = pc /\ upc = 1 /\ result = <<>> /\ Sim /\ ArgsKept /\ pc \in Lines
      /\ \A o \in Operands(code[pc]) : Known(o)
  BY DEF Fetch, Turn, RunInv
<1>2. Calm /\ pc' = pc /\ code' = code /\ epc' = epc /\ upc' = upc /\ mem' = mem /\ result' = result
      /\ liveIn' = liveIn /\ vregs' = vregs /\ args' = args
  BY DEF Fetch, Turn, Calm, liveVars
<1>3. Lines' = Lines /\ \A o : Known(o)' = Known(o)
  BY <1>2, Frame
<1>4. ArgsKept'
  BY <1>1, <1>2 DEF ArgsKept
<1>5. Sim'
  <2>1. \A v : Holds(v)' <=> Holds(v)
    BY <1>2, Frame DEF Holds
  <2> QED
    BY <1>1, <1>2, <2>1 DEF Sim
<1>6. Halfway' /\ Temp'
  BY <1>1, <1>2, <1>5 DEF Halfway, Temp
<1>7. upc' \in 1 .. Len(Asm')
  <2>1. Asm' = SelectOne(code[pc])
    BY <1>1, <1>2, Frame DEF Asm
  <2>2. Len(SelectOne(code[pc])) \in {1, 2, 3}
    BY <1>1, AsmLength DEF Complete, LiveInv
  <2> QED
    BY <1>1, <1>2, <2>1, <2>2
<1> QED
  BY <1>1, <1>2, <1>3, <1>4, <1>6, <1>7 DEF RunInv

\* The interpreter stores its outcome, which is in its place already.
LEMMA StoreStep == ASSUME Complete, RunInv, Store PROVE RunInv'
<1>1. PICK t : t = code[pc]
  OBVIOUS
<1>2. /\ turn = "store" /\ turn' = "fetch" /\ t.op /= "ret" /\ pc \in Lines /\ ArgsKept
      /\ epc = NextPc(t) /\ upc = 1 /\ result = <<>> /\ Done
  BY <1>1 DEF Store, Turn, RunInv
<1>3. /\ pc' = NextPc(t)
      /\ vregs' = IF t.op \in Defining THEN Put(vregs, t.d, Outcome(t)) ELSE vregs
      /\ epc' = epc /\ upc' = upc /\ mem' = mem /\ result' = result
  BY <1>1 DEF Store
<1>4. code' = code /\ liveIn' = liveIn /\ args' = args /\ problem' = problem /\ loc' = loc
  BY DEF Store, Turn, scanVars, liveVars
<1>5. \A v : HomeOf(v)' = HomeOf(v)
  BY <1>4 DEF HomeOf, PlaceOf, LocOf, Iv
<1>6. NextPc(t) \in Follows(pc)
  <2>1. CASE t.op = "jmp"
    BY <1>1, <2>1 DEF NextPc, Follows
  <2>2. CASE t.op = "jge"
    BY <1>1, <2>2 DEF NextPc, Follows
  <2>3. CASE t.op \notin {"jmp", "jge"}
    BY <1>1, <1>2, <2>3 DEF NextPc, Follows
  <2> QED
    BY <2>1, <2>2, <2>3
<1>7. pc' \in Lines'
  BY <1>2, <1>3, <1>4, <1>6, Following DEF Complete, LiveInv, Lines
<1>8. ArgsKept'
  BY <1>2, <1>3, <1>4 DEF ArgsKept
<1>9. Sim'
  <2>1. \A v \in liveIn'[pc'] : v \in liveOut[pc]
    BY <1>2, <1>3, <1>4, <1>6, LiveFacts
  <2>2. ASSUME NEW v \in liveOut[pc], v \in DOMAIN vregs' PROVE HomeOf(v) \in DOMAIN mem /\ mem[HomeOf(v)] = vregs'[v]
    <3>1. CASE t.op \in Defining /\ v = t.d
      <4>1. Keeps(HomeOf(v), Outcome(t))
        BY <1>1, <1>2, <3>1 DEF Done
      <4>2. vregs'[v] = Outcome(t)
        BY <1>3, <3>1, PutIs
      <4> QED
        BY <4>1, <4>2 DEF Keeps
    <3>2. CASE ~ (t.op \in Defining /\ v = t.d)
      <4>1. v \in DOMAIN vregs /\ vregs'[v] = vregs[v]
        BY <1>3, <2>2, <3>2 DEF Put
      <4>2. Holds(v)
        BY <1>1, <1>2, <3>2, <4>1 DEF Done
      <4> QED
        BY <4>1, <4>2 DEF Holds
    <3> QED
      BY <3>1, <3>2
  <2>3. \A v : Holds(v)' <=> (HomeOf(v) \in DOMAIN mem /\ mem[HomeOf(v)] = vregs'[v])
    BY <1>3, <1>5 DEF Holds
  <2> QED
    BY <2>1, <2>2, <2>3 DEF Sim
<1> QED
  BY <1>2, <1>3, <1>7, <1>8, <1>9 DEF RunInv

LEMMA StoreRetStep == ASSUME Complete, RunInv, StoreRet PROVE RunInv'
<1>1. /\ turn = "store" /\ turn' = "done" /\ pc \in Lines /\ ArgsKept
      /\ result = <<Val(code[pc].a)>> /\ answer' = <<Val(code[pc].a)>>
      /\ result' = result /\ mem' = mem /\ pc' = pc /\ code' = code /\ args' = args
  BY DEF StoreRet, Turn, RunInv
<1>2. ArgsKept'
  BY <1>1 DEF ArgsKept
<1> QED
  BY <1>1, <1>2 DEF RunInv, Lines

\* A run begins with the arguments and nothing else.
LEMMA StartRunStep == ASSUME LiveInv, NoRun, StartRun PROVE RunInv'
<1>1. /\ turn' = "fetch" /\ pc' = 1 /\ vregs' = <<>> /\ epc' = 1 /\ upc' = 1 /\ result' = <<>> /\ code' = code
  BY DEF StartRun, NoRun
<1>2. 1 \in Lines'
  BY <1>1, CodeTypes DEF LiveInv, Lines
<1>3. ArgsKept'
  <2>1. mem' = [o \in {Arg(i) : i \in DOMAIN args'} |-> args'[o[2]]]
    BY DEF StartRun
  <2>2. \A i : Arg(i)[2] = i
    BY DEF Arg
  <2> QED
    BY <2>1, <2>2 DEF ArgsKept
<1>4. Sim'
  <2>1. DOMAIN vregs' = {}
    BY <1>1
  <2> QED
    BY <2>1 DEF Sim
<1> QED
  BY <1>1, <1>2, <1>3, <1>4 DEF RunInv

-----------------------------------------------------------------------------
\* The scan begins with every register free.
LEMMA StartScanStep == ASSUME LiveInv, SpanInv, PhaseInv, StartScan PROVE SpanInv' /\ ScanInv'
<1>1. PICK k \in RegisterCounts : problem' = [problem EXCEPT !.k = k] /\ free' = 0 .. (k - 1)
  BY DEF StartScan
<1>2. /\ doing = "spans" /\ doing' = "scan" /\ Unlisted = {} /\ code' = code /\ liveOut' = liveOut
      /\ next' = next /\ active' = active /\ slots' = slots /\ loc' = loc
  BY DEF StartScan, liveVars
<1>3. k \in Nat \ {0}
  BY CountsAssumption
<1>4. /\ problem'.ivs = problem.ivs /\ problem'.k = k
      /\ problem' \in [ivs : Seq([v : Nat, from : Nat, to : Nat]), k : Nat]
  <2> DEFINE S == Seq([v : Nat, from : Nat, to : Nat])
  <2>1. problem \in [ivs : S, k : Nat]
    BY DEF SpanInv
  <2> HIDE DEF S
  <2>2. problem'.ivs = problem.ivs /\ problem'.k = k /\ problem' \in [ivs : S, k : Nat]
    BY <1>1, <1>3, <2>1
  <2> QED
    BY <2>2 DEF S
<1>5. SpanInv'
  BY <1>2, <1>4, SpanKept
<1>6. WellPosed'
  BY <1>3, <1>4 DEF WellPosed, SpanInv
<1>7. next = 1 /\ active = {} /\ slots = 0 /\ loc = <<>>
  BY <1>2 DEF PhaseInv, Before
<1>8. Regs' = free'
  BY <1>1, <1>4 DEF Regs
<1>9. Len(problem'.ivs) \in Nat
  BY <1>6 DEF WellPosed
<1>10. Placed' = {}
  BY <1>2, <1>7 DEF Placed
<1>11. Shape'
  BY <1>2, <1>6, <1>7, <1>8, <1>9, <1>10 DEF Shape
<1>12. ScanInv'
  BY <1>2, <1>7, <1>10, <1>11 DEF ScanInv, ActiveOwn, OthersEnded, SlotsOnce, NoSharing
<1> QED
  BY <1>5, <1>12

LEMMA AllocInitInv == ASSUME AllocInit PROVE AllocInv
<1>1. /\ code \in Codes /\ doing = "live" /\ line = Len(code) /\ same = TRUE
      /\ liveIn = [i \in Lines |-> {}] /\ liveOut = [i \in Lines |-> {}]
  BY DEF AllocInit, Lines
<1>2. Len(code) \in Nat \ {0} /\ Lines = 1 .. Len(code)
  BY <1>1, CodeTypes
<1>3. LiveInv
  BY <1>1, <1>2 DEF LiveInv
<1>4. problem = [ivs |-> <<>>, k |-> 0] /\ problem.ivs = <<>> /\ DOMAIN problem.ivs = {}
  BY DEF AllocInit
<1>5. SpanInv
  <2>1. <<>> \in Seq([v : Nat, from : Nat, to : Nat])
    OBVIOUS
  <2>2. problem \in [ivs : Seq([v : Nat, from : Nat, to : Nat]), k : Nat]
    BY <1>4, <2>1
  <2> QED
    BY <1>1, <1>4, <2>2 DEF SpanInv, Sorted
<1>6. PhaseInv
  BY <1>1 DEF PhaseInv, Before, AllocInit
<1> QED
  BY <1>1, <1>3, <1>5, <1>6 DEF AllocInv

\* Steps of the two runs leave what was computed before them alone.
LEMMA RunFrame ==
  ASSUME AllocInv, doing = "run", UNCHANGED <<scanVars, code, doing, liveVars>>, RunInv'
  PROVE  AllocInv'
<1>1. /\ code' = code /\ doing' = doing /\ line' = line /\ same' = same /\ liveIn' = liveIn /\ liveOut' = liveOut
      /\ problem' = problem /\ next' = next
  BY DEF scanVars, liveVars
<1>2. LiveInv /\ SpanInv /\ PhaseInv /\ ScanInv /\ ~ Scanning
  BY DEF AllocInv, PhaseInv
<1>3. LiveInv'
  BY <1>1, <1>2, LiveKept
<1>4. SpanInv'
  <2>1. Unlisted = {} /\ problem \in [ivs : Seq([v : Nat, from : Nat, to : Nat]), k : Nat]
    BY <1>2 DEF SpanInv
  <2> QED
    BY <1>1, <1>2, <2>1, SpanKept
<1>5. ScanInv'
  BY <1>2, ScanStep
<1>6. PhaseInv'
  BY <1>1, <1>2, <1>5 DEF PhaseInv, Scanning
<1> QED
  BY <1>3, <1>4, <1>6 DEF AllocInv

LEMMA AllocStutter == ASSUME AllocInv, UNCHANGED allocVars PROVE AllocInv'
<1>1. /\ code' = code /\ doing' = doing /\ line' = line /\ same' = same /\ liveIn' = liveIn /\ liveOut' = liveOut
      /\ problem' = problem /\ next' = next /\ active' = active /\ slots' = slots /\ loc' = loc
      /\ UNCHANGED scanVars /\ UNCHANGED runVars /\ Calm
  BY DEF allocVars, scanVars, liveVars, Calm, runVars
<1>2. /\ args' = args /\ turn' = turn /\ pc' = pc /\ vregs' = vregs /\ answer' = answer
      /\ epc' = epc /\ upc' = upc /\ mem' = mem /\ ge' = ge /\ result' = result
  BY <1>1 DEF runVars
<1>3. LiveInv'
  <2>1. \A i : LineAgrees(i)' <=> LineAgrees(i)
    <3>1. \A i : Out(i)' = Out(i)
      BY <1>1, SameCode DEF Out
    <3> QED
      BY <1>1, <3>1 DEF LineAgrees, In
  <2> QED
    BY <1>1, <2>1, SameCode DEF AllocInv, LiveInv
<1>4. SpanInv'
  <2>1. problem \in [ivs : Seq([v : Nat, from : Nat, to : Nat]), k : Nat]
    BY DEF AllocInv, SpanInv
  <2>2. doing \in {"scan", "run"} => Unlisted = {}
    BY DEF AllocInv, SpanInv
  <2>3. doing \in {"live", "spans", "scan", "run"}
    BY DEF AllocInv, LiveInv
  <2> QED
    BY <1>1, <2>1, <2>2, <2>3, SpanKept DEF AllocInv
<1>5. PhaseInv'
  <2>1. ScanInv => ScanInv'
    BY <1>1, ScanStep
  <2> QED
    BY <1>1, <1>2, <2>1 DEF AllocInv, PhaseInv, Before, NoRun, Scanning
<1>6. ASSUME RunInv PROVE RunInv'
  <2>1. \A v : Holds(v)' <=> Holds(v)
    BY <1>1, <1>2, Frame DEF Holds
  <2>2. \A o, x : Keeps(o, x)' <=> Keeps(o, x)
    BY <1>2 DEF Keeps
  <2>3. (ArgsKept' <=> ArgsKept) /\ (Sim' <=> Sim) /\ (SimBut' <=> SimBut)
    BY <1>1, <1>2, <2>1, Frame DEF ArgsKept, Sim, SimBut
  <2>4. Asm' = Asm
    BY <1>1, <1>2, Frame DEF Asm
  <2>5. Instr' = Instr
    BY <1>2, <2>4 DEF Instr
  <2>6. PICK d, a, b, o : d = HomeOf(code[pc].d) /\ a = Val(code[pc].a) /\ b = Val(code[pc].b) /\ o = Outcome(code[pc])
    OBVIOUS
  <2>7. HomeOf(code[pc].d)' = d /\ Val(code[pc].a)' = a /\ Val(code[pc].b)' = b /\ Outcome(code[pc])' = o
    BY <1>1, <1>2, <2>6, Frame
  <2>8. \A v : HomeOf(v)' = HomeOf(v)
    BY <1>1, Frame
  <2>9. (Halfway' <=> Halfway) /\ (Temp' <=> Temp)
    <3>1. Keeps(HomeOf(code[pc].d), Val(code[pc].a))' <=> Keeps(HomeOf(code[pc].d), Val(code[pc].a))
      BY <1>2, <2>6, <2>7 DEF Keeps
    <3>2. Halfway' <=> Halfway
      BY <1>1, <1>2, <2>3, <2>4, <2>6, <2>7, <3>1 DEF Halfway
    <3>3. Keeps(Scratch, Val(code[pc].a))' <=> Keeps(Scratch, Val(code[pc].a))
      BY <1>2, <2>6, <2>7 DEF Keeps
    <3>4. Keeps(Scratch, Outcome(code[pc]))' <=> Keeps(Scratch, Outcome(code[pc]))
      BY <1>2, <2>6, <2>7 DEF Keeps
    <3>5. Keeps(Result, Val(code[pc].a))' <=> Keeps(Result, Val(code[pc].a))
      BY <1>2, <2>6, <2>7 DEF Keeps
    <3>6. Temp' <=> Temp
      BY <1>2, <2>5, <2>6, <2>7, <3>3, <3>4, <3>5 DEF Temp
    <3> QED
      BY <3>2, <3>6
  <2>10. Done => Done'
    <3>1. \A v : Keeps(HomeOf(v), Outcome(code[pc])) => Keeps(HomeOf(v), Outcome(code[pc]))'
      BY <1>2, <2>6, <2>7, <2>8 DEF Keeps
    <3> QED
      BY <1>1, <1>2, <2>1, <3>1 DEF Done
  <2>11. /\ Lines' = Lines /\ NextPc(code[pc])' = NextPc(code[pc]) /\ \A o1 : Known(o1)' = Known(o1)
    BY <1>1, <1>2, Frame
  <2> QED
    BY <1>1, <1>2, <1>6, <2>3, <2>4, <2>6, <2>7, <2>9, <2>10, <2>11 DEF RunInv
<1> QED
  BY <1>1, <1>3, <1>4, <1>5, <1>6 DEF AllocInv

LEMMA AllocStep == ASSUME AllocInv, [AllocNext]_allocVars PROVE AllocInv'
<1>0. LiveInv /\ SpanInv /\ PhaseInv /\ (doing = "run" => RunInv)
  BY DEF AllocInv
<1>1. doing = "run" => Complete
  BY <1>0 DEF Complete, PhaseInv
<1>2. CASE LiveLine
  <2>1. /\ doing = "live" /\ doing' = doing /\ problem' = problem /\ UNCHANGED scanVars /\ UNCHANGED runVars
    BY <1>2 DEF LiveLine, scanVars
  <2>2. PhaseInv'
    BY <1>0, <2>1 DEF PhaseInv, Before, NoRun, scanVars, runVars
  <2> QED
    BY <1>0, <1>2, <2>1, <2>2, LiveLineStep, SpanEmpty DEF AllocInv
<1>3. CASE LiveRound
  <2>1. /\ doing = "live" /\ doing' \in {"live", "spans"} /\ UNCHANGED scanVars /\ UNCHANGED runVars
        /\ code' = code /\ liveOut' = liveOut /\ problem' = problem
    BY <1>3 DEF LiveRound, scanVars
  <2>2. PhaseInv'
    BY <1>0, <2>1 DEF PhaseInv, Before, NoRun, scanVars, runVars
  <2>3. SpanInv'
    <3>1. problem \in [ivs : Seq([v : Nat, from : Nat, to : Nat]), k : Nat]
      BY <1>0 DEF SpanInv
    <3> QED
      BY <1>0, <2>1, <3>1, SpanKept
  <2> QED
    BY <1>0, <1>3, <2>1, <2>2, <2>3, LiveRoundStep DEF AllocInv
<1>4. CASE ListSpan
  <2>1. /\ doing = "spans" /\ doing' = doing /\ code' = code
        /\ line' = line /\ same' = same /\ liveIn' = liveIn /\ liveOut' = liveOut
        /\ next' = next /\ active' = active /\ slots' = slots /\ loc' = loc /\ UNCHANGED runVars
    BY <1>4 DEF ListSpan, liveVars
  <2>2. PhaseInv'
    BY <1>0, <2>1 DEF PhaseInv, Before, NoRun, runVars
  <2> QED
    BY <1>0, <1>4, <2>1, <2>2, ListSpanStep, LiveKept DEF AllocInv
<1>5. CASE StartScan
  <2>1. /\ doing = "spans" /\ doing' = "scan" /\ code' = code
        /\ line' = line /\ same' = same /\ liveIn' = liveIn /\ liveOut' = liveOut /\ UNCHANGED runVars
    BY <1>5 DEF StartScan, liveVars
  <2>2. SpanInv' /\ ScanInv'
    BY <1>0, <1>5, StartScanStep
  <2>3. PhaseInv'
    BY <1>0, <2>1, <2>2 DEF PhaseInv, NoRun, runVars
  <2> QED
    BY <1>0, <2>1, <2>2, <2>3, LiveKept DEF AllocInv
<1>6. CASE Scan
  <2>1. /\ doing = "scan" /\ doing' = doing /\ code' = code /\ ScanNext
        /\ line' = line /\ same' = same /\ liveIn' = liveIn /\ liveOut' = liveOut /\ UNCHANGED runVars
    BY <1>6 DEF Scan, liveVars
  <2>2. ScanInv'
    BY <1>0, <2>1, ScanStep DEF PhaseInv
  <2>3. problem' = problem
    BY <2>1 DEF ScanNext, TakeFree, Evict, SpillSelf, Advance
  <2>4. PhaseInv'
    BY <1>0, <2>1, <2>2 DEF PhaseInv, NoRun, runVars
  <2>5. SpanInv'
    <3>1. Unlisted = {} /\ problem \in [ivs : Seq([v : Nat, from : Nat, to : Nat]), k : Nat]
      BY <1>0, <2>1 DEF SpanInv
    <3> QED
      BY <1>0, <2>1, <2>3, <3>1, SpanKept
  <2> QED
    BY <1>0, <2>1, <2>4, <2>5, LiveKept DEF AllocInv
<1>7. CASE StartRun
  <2>1. /\ doing = "scan" /\ doing' = "run" /\ code' = code /\ UNCHANGED scanVars /\ ~ Scanning
        /\ line' = line /\ same' = same /\ liveIn' = liveIn /\ liveOut' = liveOut
        /\ problem' = problem /\ next' = next
    BY <1>7 DEF StartRun, liveVars, scanVars
  <2>2. ScanInv' /\ NoRun
    BY <1>0, <2>1, ScanStep DEF PhaseInv
  <2>3. PhaseInv'
    BY <1>0, <2>1, <2>2 DEF PhaseInv, Scanning
  <2>4. SpanInv'
    <3>1. Unlisted = {} /\ problem \in [ivs : Seq([v : Nat, from : Nat, to : Nat]), k : Nat]
      BY <1>0, <2>1 DEF SpanInv
    <3> QED
      BY <1>0, <2>1, <3>1, SpanKept
  <2> QED
    BY <1>0, <1>7, <2>1, <2>2, <2>3, <2>4, LiveKept, StartRunStep DEF AllocInv
<1>8. CASE Fetch
  BY <1>0, <1>1, <1>8, FetchStep, RunFrame DEF Fetch, Turn
<1>9. CASE AsmMove \/ AsmCompare \/ AsmLabel \/ AsmJump \/ AsmRet
  <2>1. AsmStep
    BY <1>9 DEF AsmStep
  <2>2. Calm /\ turn = "asm" /\ doing = "run"
    BY <2>1, CalmStep
  <2>3. Within
    BY <1>0, <1>1, <2>1, <2>2 DEF Within, Inside
  <2>4. RunInv'
    BY <2>3, AsmSteps
  <2> QED
    BY <2>2, <2>4, RunFrame DEF Calm
<1>10. CASE Store
  BY <1>0, <1>1, <1>10, StoreStep, RunFrame DEF Store, Turn
<1>11. CASE StoreRet
  BY <1>0, <1>1, <1>11, StoreRetStep, RunFrame DEF StoreRet, Turn
<1>12. CASE UNCHANGED allocVars
  BY <1>12, AllocStutter
<1> QED
  BY <1>2, <1>3, <1>4, <1>5, <1>6, <1>7, <1>8, <1>9, <1>10, <1>11, <1>12 DEF AllocNext

-----------------------------------------------------------------------------
\* From liveness to the end of a run: what is live after an instruction is what the
\* lines after it need, every interval holds the lines that touch its register,
\* intervals that overlap have two places, and what is live is in its place.
THEOREM AllocInvariant == AllocSpec => []AllocInv
<1>1. AllocInit => AllocInv
  BY AllocInitInv
<1>2. AllocInv /\ [AllocNext]_allocVars => AllocInv'
  BY AllocStep
<1> QED
  BY <1>1, <1>2, PTL DEF AllocSpec

\* linear_scan never gives two virtual registers that are live together one
\* place, through every expiry and eviction.
THEOREM NeverShares == AllocSpec => []NoSharing
<1>1. AllocInv => NoSharing
  <2> SUFFICES ASSUME AllocInv PROVE NoSharing
    OBVIOUS
  <2>1. CASE doing \in {"live", "spans"}
    <3>1. next = 1
      BY <2>1 DEF AllocInv, PhaseInv, Before
    <3>2. Placed = {}
      BY <3>1 DEF Placed
    <3> QED
      BY <3>2 DEF NoSharing
  <2>2. CASE doing \in {"scan", "run"}
    BY <2>2 DEF AllocInv, PhaseInv, ScanInv
  <2> QED
    BY <2>1, <2>2 DEF AllocInv, LiveInv
<1> QED
  BY <1>1, AllocInvariant, PTL

\* The emulator of the selected code stays where the interpreter of the input is,
\* never reads a place nothing wrote, and returns the same value, for every program,
\* every number of registers and all arguments.
THEOREM AllocationIsSound == AllocSpec => []AllocationSound
<1>1. AllocInv => AllocationSound
  <2> SUFFICES ASSUME AllocInv, doing = "run" PROVE AllocationSound
    BY DEF AllocationSound
  <2>1. RunInv /\ Complete
    BY DEF AllocInv, PhaseInv, Complete
  <2>2. turn = "asm" => \A o \in Reads(Instr) : Written(o)
    BY <2>1, Readable DEF Inside
  <2> QED
    BY <2>1, <2>2 DEF RunInv, AllocationSound
<1> QED
  BY <1>1, AllocInvariant, PTL

-----------------------------------------------------------------------------
\* Dataflow. Paths: Spread is defined as a least set; it is what paths reach.

\* A way from block a to block b that goes on only from blocks of through.
Way(path, a, b, through) ==
  /\ path \in Seq(Nodes) /\ path # <<>>
  /\ path[1] = a /\ path[Len(path)] = b
  /\ \A i \in 1 .. (Len(path) - 1) : path[i] \in through /\ path[i + 1] \in graph.succs[path[i]]

\* A graph of the instance.
LEMMA GraphTypes ==
  ASSUME graph \in FlowGraphs
  PROVE  /\ Nodes = 1 .. Cardinality(Nodes) /\ Cardinality(Nodes) \in Nat
         /\ \A b \in Nodes : graph.succs[b] \in SUBSET Nodes /\ graph.events[b] \in Seq({"def", "use"})
         /\ graph.param \in BOOLEAN
<1>1. /\ graph.events \in Seq(Seq({"def", "use"}))
      /\ graph.succs \in [DOMAIN graph.events -> SUBSET DOMAIN graph.events]
      /\ graph.param \in BOOLEAN
  BY FlowGraphsAssumption
<1>2. PICK n \in Nat : Nodes = 1 .. n
  BY <1>1 DEF Nodes
<1>3. Cardinality(1 .. n) = n
  <2>1. 1 \in Int /\ n \in Int
    BY <1>2
  <2>2. Cardinality(1 .. n) = IF 1 > n THEN 0 ELSE n - 1 + 1
    BY <2>1, FS_Interval
  <2>. QED
    BY <1>2, <2>2
<1>4. \A b \in Nodes : graph.succs[b] \in SUBSET Nodes /\ graph.events[b] \in Seq({"def", "use"})
  BY <1>1 DEF Nodes
<1>. QED
  BY <1>1, <1>2, <1>3, <1>4

\* Where one starts is reached.
LEMMA SpreadStarts ==
  ASSUME NEW succs, NEW bs, NEW through, NEW b \in bs, b \in DOMAIN succs
  PROVE  b \in Spread(succs, bs, through)
BY DEF Spread, ClosedFrom

\* From a block that is reached and may be gone through, its successors are.
LEMMA SpreadGoesOn ==
  ASSUME NEW succs, NEW bs, NEW through, NEW b \in Spread(succs, bs, through), b \in through,
         NEW s \in succs[b], s \in DOMAIN succs
  PROVE  s \in Spread(succs, bs, through)
BY DEF Spread, ClosedFrom

\* Nothing else is reached.
LEMMA SpreadIsLeast ==
  ASSUME NEW succs, NEW bs, NEW through, NEW T \in SUBSET DOMAIN succs, bs \subseteq T,
         \A b \in T \cap through : succs[b] \subseteq T
  PROVE  Spread(succs, bs, through) \subseteq T
BY DEF Spread, ClosedFrom

\* What is reached from a block that is reached is reached.
LEMMA SpreadChains ==
  ASSUME NEW succs, NEW through, NEW b, NEW s \in Spread(succs, {b}, through),
         NEW u \in Spread(succs, {s}, through)
  PROVE  u \in Spread(succs, {b}, through)
BY DEF Spread, ClosedFrom

\* What a path leads to is reached.
LEMMA WaysSpread ==
  ASSUME graph \in FlowGraphs, NEW a \in Nodes, NEW b, NEW through, NEW path,
         Way(path, a, b, through)
  PROVE  b \in Spread(graph.succs, {a}, through)
<1>. DEFINE Missed == {i \in 1 .. Len(path) : path[i] \notin Spread(graph.succs, {a}, through)}
<1>1. /\ Len(path) \in Nat /\ Len(path) >= 1 /\ \A i \in 1 .. Len(path) : path[i] \in Nodes
      /\ path[1] = a /\ path[Len(path)] = b
  BY DEF Way
<1>2. SUFFICES ASSUME Missed # {} PROVE FALSE
  <2>1. Len(path) \in 1 .. Len(path)
    BY <1>1
  <2>2. ASSUME Missed = {} PROVE path[Len(path)] \in Spread(graph.succs, {a}, through)
    BY <2>1, <2>2
  <2>. HIDE DEF Missed
  <2>. QED
    BY <1>1, <2>2
<1>3. PICK i \in Missed : \A j \in Missed : i <= j
  <2>1. Missed \in SUBSET Nat
    OBVIOUS
  <2>. HIDE DEF Missed
  <2>. QED
    BY <1>2, <2>1, Least
<1>4. i \in 1 .. Len(path) /\ path[i] \notin Spread(graph.succs, {a}, through)
  BY <1>3
<1>5. i # 1
  BY <1>1, <1>4, SpreadStarts DEF Nodes
<1>6. PICK j \in Nat : i = j + 1
  <2>1. i - 1 \in Nat /\ i = (i - 1) + 1
    BY <1>1, <1>4
  <2>. QED
    BY <2>1
<1>7. j \in 1 .. (Len(path) - 1) /\ j \notin Missed
  <2>1. Len(path) \in Nat /\ i \in 1 .. Len(path)
    BY <1>1, <1>4
  <2>2. j \in 1 .. (Len(path) - 1) /\ ~(i <= j)
    BY <1>5, <1>6, <2>1
  <2>3. j \notin Missed
    <3>. HIDE DEF Missed
    <3>. QED
      BY <1>3, <2>2
  <2>. QED
    BY <2>2, <2>3
<1>8. path[j] \in Spread(graph.succs, {a}, through) /\ path[j] \in through /\ path[i] \in graph.succs[path[j]]
  <2>1. j \in 1 .. Len(path)
    BY <1>1, <1>7
  <2>2. path[j] \in through /\ path[j + 1] \in graph.succs[path[j]]
    BY <1>7 DEF Way
  <2>. QED
    BY <1>6, <1>7, <2>1, <2>2
<1>. QED
  BY <1>1, <1>4, <1>8, SpreadGoesOn DEF Nodes

\* What is reached is reached by a path.
LEMMA SpreadHasWays ==
  ASSUME graph \in FlowGraphs, NEW a \in Nodes, NEW through, NEW b \in Spread(graph.succs, {a}, through)
  PROVE  \E path : Way(path, a, b, through)
<1>. DEFINE Ends == {n \in Nodes : \E path : Way(path, a, n, through)}
<1>1. a \in Ends
  <2>1. PICK path : path = <<a>>
    OBVIOUS
  <2>2. path \in Seq(Nodes) /\ Len(path) = 1 /\ path[1] = a /\ path # <<>>
    BY <2>1
  <2>3. Way(path, a, a, through)
    BY <2>2 DEF Way
  <2>. QED
    BY <2>3
<1>2. ASSUME NEW n \in Ends, n \in through, NEW s \in graph.succs[n] PROVE s \in Ends
  <2>0. s \in Nodes
    BY <1>2, GraphTypes
  <2>1. PICK path : Way(path, a, n, through)
    BY <1>2
  <2>2. PICK m \in Nat : m = Len(path)
    BY <2>1 DEF Way
  <2>3. PICK longer : longer = Append(path, s)
    OBVIOUS
  <2>4. /\ path \in Seq(Nodes) /\ path # <<>> /\ m >= 1 /\ path[1] = a /\ path[m] = n
        /\ \A i \in 1 .. (m - 1) : path[i] \in through /\ path[i + 1] \in graph.succs[path[i]]
    BY <2>1, <2>2 DEF Way
  <2>5. /\ longer \in Seq(Nodes) /\ Len(longer) = m + 1 /\ longer # <<>>
        /\ longer[m + 1] = s /\ \A i \in 1 .. m : longer[i] = path[i]
    BY <2>0, <2>2, <2>3, <2>4
  <2>6. ASSUME NEW i \in 1 .. m
        PROVE  longer[i] \in through /\ longer[i + 1] \in graph.succs[longer[i]]
    <3>1. CASE i = m
      BY <1>2, <2>4, <2>5, <3>1
    <3>2. CASE i # m
      <4>1. i \in 1 .. (m - 1) /\ i + 1 \in 1 .. m
        BY <2>2, <3>2
      <4>. QED
        BY <2>4, <2>5, <4>1
    <3>. QED
      BY <3>1, <3>2
  <2>7. longer[1] = a
    BY <2>4, <2>5
  <2>8. Way(longer, a, s, through)
    <3>1. Len(longer) - 1 = m
      BY <2>2, <2>5
    <3>. QED
      BY <2>5, <2>6, <2>7, <3>1 DEF Way
  <2>. QED
    BY <2>0, <2>8
<1>3. Spread(graph.succs, {a}, through) \subseteq Ends
  <2>1. Ends \in SUBSET Nodes /\ {a} \subseteq Ends
    BY <1>1
  <2>2. \A n \in Ends \cap through : graph.succs[n] \subseteq Ends
    BY <1>2
  <2>. HIDE DEF Ends
  <2>. QED
    BY <2>1, <2>2, SpreadIsLeast DEF Nodes
<1>. QED
  BY <1>3

-----------------------------------------------------------------------------
\* Dataflow. The analyses.

LastNode == Cardinality(Nodes)

FlowTyped ==
  /\ graph \in FlowGraphs /\ analysis \in {"assigned", "live"}
  /\ fact \in [Nodes -> BOOLEAN] /\ changed \in BOOLEAN /\ settled \in BOOLEAN
  /\ block \in IF analysis = "assigned" THEN 1 .. (LastNode + 1) ELSE 0 .. LastNode

\* The blocks this round has visited.
Swept(b) == IF analysis = "assigned" THEN b < block ELSE b > block

\* A round without a change has found every block it visited to agree with its
\* neighbours; the analysis settles after such a round.
Agrees ==
  /\ ~changed => \A b \in Nodes : Swept(b) => fact[b] = Transfer(b)
  /\ settled => block \notin Nodes /\ ~changed

\* Whatever was moved away from the optimistic (or pessimistic) start has a
\* path that shows it.
Shown ==
  IF analysis = "assigned"
  THEN \A b \in Nodes : ~fact[b] => b \in UnassignedAt \cap DefFree
  ELSE \A b \in Nodes : fact[b] => LiveOnAPath(b)

FlowInv == FlowTyped /\ Agrees /\ Shown

LEMMA FlowStarts ==
  ASSUME FlowInit
  PROVE  FlowInv
<1>1. graph \in FlowGraphs /\ LastNode \in Nat /\ Nodes = 1 .. LastNode
  BY GraphTypes DEF FlowInit, LastNode
<1>2. fact \in [Nodes -> BOOLEAN] /\ \A b \in Nodes : fact[b] = (analysis = "assigned")
  BY DEF FlowInit, Initial
<1>3. FlowTyped
  <2>1. block \in IF analysis = "assigned" THEN 1 .. (LastNode + 1) ELSE 0 .. LastNode
    <3>1. block = IF analysis = "assigned" THEN 1 ELSE LastNode
      BY DEF FlowInit, LastNode
    <3>. QED
      BY <1>1, <3>1
  <2>2. analysis \in {"assigned", "live"} /\ changed \in BOOLEAN /\ settled \in BOOLEAN
    BY DEF FlowInit
  <2>. QED
    BY <1>1, <1>2, <2>1, <2>2 DEF FlowTyped
<1>4. Agrees
  BY <1>1 DEF FlowInit, Agrees, Swept, LastNode
<1>5. Shown
  BY <1>2 DEF FlowInit, Shown
<1>. QED
  BY <1>3, <1>4, <1>5 DEF FlowInv

\* A fact that a block derives from facts that are shown is shown.
LEMMA TransferIsShown ==
  ASSUME FlowTyped, Shown, NEW b \in Nodes
  PROVE  IF analysis = "assigned"
         THEN ~Transfer(b) => b \in UnassignedAt \cap DefFree
         ELSE Transfer(b) => LiveOnAPath(b)
<1>0. graph \in FlowGraphs /\ \A n \in Nodes : graph.succs[n] \in SUBSET Nodes
  BY GraphTypes DEF FlowTyped
<1>1. ASSUME analysis = "assigned", ~Transfer(b) PROVE b \in UnassignedAt \cap DefFree
  <2>1. ~AssignedIn(b) /\ ~HasDef(b)
    BY <1>1 DEF Transfer
  <2>2. CASE b = 1
    <3>1. ~graph.param
      BY <2>1, <2>2 DEF AssignedIn
    <3>2. b \in Spread(graph.succs, {1}, DefFree)
      BY <2>2, SpreadStarts DEF Nodes
    <3>. QED
      BY <2>1, <3>1, <3>2 DEF UnassignedAt, DefFree
  <2>3. CASE b # 1
    <3>1. PICK p \in PredsOf(b) : ~fact[p]
      BY <2>1, <2>3 DEF AssignedIn
    <3>2. p \in Nodes /\ b \in graph.succs[p]
      BY <3>1 DEF PredsOf
    <3>3. p \in UnassignedAt /\ p \in DefFree
      BY <1>1, <3>1, <3>2 DEF Shown
    <3>4. ~graph.param /\ p \in Spread(graph.succs, {1}, DefFree)
      BY <3>3 DEF UnassignedAt
    <3>5. b \in Spread(graph.succs, {1}, DefFree)
      BY <3>2, <3>3, <3>4, SpreadGoesOn DEF Nodes
    <3>. QED
      BY <2>1, <3>4, <3>5 DEF UnassignedAt, DefFree
  <2>. QED
    BY <2>2, <2>3
<1>2. ASSUME analysis # "assigned", Transfer(b) PROVE LiveOnAPath(b)
  <2>1. CASE First(b) = "use"
    <3>1. b \in Spread(graph.succs, {b}, Silent)
      BY SpreadStarts DEF Nodes
    <3>. QED
      BY <2>1, <3>1 DEF LiveOnAPath
  <2>2. CASE First(b) # "use"
    <3>1. First(b) = "none" /\ \E s \in graph.succs[b] : fact[s]
      BY <1>2, <2>2 DEF Transfer
    <3>2. PICK s \in graph.succs[b] : fact[s]
      BY <3>1
    <3>3. s \in Nodes
      BY <1>0
    <3>4. PICK u \in Spread(graph.succs, {s}, Silent) : First(u) = "use"
      BY <1>2, <3>2, <3>3 DEF Shown, LiveOnAPath
    <3>5. u \in Spread(graph.succs, {b}, Silent)
      <4>1. b \in Spread(graph.succs, {b}, Silent) /\ b \in Silent
        BY <3>1, SpreadStarts DEF Silent, Nodes
      <4>2. s \in Spread(graph.succs, {b}, Silent)
        BY <3>3, <4>1, SpreadGoesOn DEF Nodes
      <4>. QED
        BY <4>2, SpreadChains
    <3>. QED
      BY <3>4, <3>5 DEF LiveOnAPath
  <2>. QED
    BY <2>1, <2>2
<1>. QED
  BY <1>1, <1>2

\* What the paths say depends on the graph alone.
LEMMA PathsStay ==
  ASSUME UNCHANGED <<graph, analysis>>
  PROVE  /\ Nodes' = Nodes /\ LastNode' = LastNode /\ UnassignedAt' = UnassignedAt /\ DefFree' = DefFree
         /\ \A b : LiveOnAPath(b)' = LiveOnAPath(b)
BY DEF Nodes, LastNode, UnassignedAt, DefFree, LiveOnAPath, Spread, ClosedFrom, Silent, HasDef, First

\* One block is visited.
LEMMA UpdateStep ==
  ASSUME FlowInv, Update
  PROVE  FlowInv'
<1>0. graph \in FlowGraphs /\ LastNode \in Nat /\ Nodes = 1 .. LastNode
  BY GraphTypes DEF FlowInv, FlowTyped, LastNode
<1>1. /\ block \in Nodes /\ UNCHANGED <<graph, analysis, settled>>
      /\ fact' = [fact EXCEPT ![block] = Transfer(block)]
      /\ changed' = (changed \/ fact' /= fact)
      /\ block' = IF analysis = "assigned" THEN block + 1 ELSE block - 1
  BY DEF Update
<1>2. /\ Nodes' = Nodes /\ LastNode' = LastNode /\ UnassignedAt' = UnassignedAt /\ DefFree' = DefFree
      /\ \A b : LiveOnAPath(b)' = LiveOnAPath(b)
  BY <1>1, PathsStay
<1>3. fact \in [Nodes -> BOOLEAN] /\ Transfer(block) \in BOOLEAN
  BY DEF FlowInv, FlowTyped, Transfer
<1>4. FlowTyped'
  <2>1. fact' \in [Nodes -> BOOLEAN] /\ changed' \in BOOLEAN
    BY <1>1, <1>3 DEF FlowInv, FlowTyped
  <2>2. block' \in IF analysis = "assigned" THEN 1 .. (LastNode + 1) ELSE 0 .. LastNode
    BY <1>0, <1>1
  <2>. QED
    BY <1>1, <1>2, <2>1, <2>2 DEF FlowInv, FlowTyped
<1>5. Shown'
  <2>1. ASSUME NEW b \in Nodes
        PROVE  IF analysis = "assigned" THEN ~fact'[b] => b \in UnassignedAt \cap DefFree
               ELSE fact'[b] => LiveOnAPath(b)
    <3>1. CASE b = block
      <4>1. fact'[b] = Transfer(b)
        BY <1>1, <1>3, <3>1
      <4>. QED
        BY <4>1, TransferIsShown DEF FlowInv
    <3>2. CASE b # block
      <4>1. fact'[b] = fact[b]
        BY <1>1, <1>3, <3>2
      <4>. QED
        BY <4>1 DEF FlowInv, Shown
    <3>. QED
      BY <3>1, <3>2
  <2>. QED
    BY <1>1, <1>2, <2>1 DEF Shown
<1>6. Agrees'
  <2>1. ~settled
    BY <1>1 DEF FlowInv, Agrees
  <2>2. ASSUME ~changed', NEW b \in Nodes, Swept(b)' PROVE fact'[b] = Transfer(b)'
    <3>1. fact' = fact /\ ~changed
      BY <1>1, <2>2
    <3>2. Transfer(b)' = Transfer(b)
      BY <1>1, <3>1 DEF Transfer, AssignedIn, PredsOf, HasDef, First, Nodes
    <3>3. CASE b = block
      BY <1>1, <1>3, <3>1, <3>2, <3>3
    <3>4. CASE b # block
      <4>1. Swept(b)
        BY <1>0, <1>1, <2>2, <3>4 DEF Swept
      <4>. QED
        BY <3>1, <3>2, <4>1 DEF FlowInv, Agrees
    <3>. QED
      BY <3>3, <3>4
  <2>. QED
    BY <1>1, <1>2, <2>1, <2>2 DEF Agrees
<1>. QED
  BY <1>4, <1>5, <1>6 DEF FlowInv

\* A round ends: another begins, or the analysis has settled.
LEMMA NextRoundStep ==
  ASSUME FlowInv, NextRound
  PROVE  FlowInv'
<1>0. graph \in FlowGraphs /\ LastNode \in Nat /\ Nodes = 1 .. LastNode
  BY GraphTypes DEF FlowInv, FlowTyped, LastNode
<1>1. /\ block \notin Nodes /\ UNCHANGED <<graph, analysis, fact>>
      /\ settled' = ~changed /\ ~changed'
      /\ block' = IF ~changed THEN block ELSE IF analysis = "assigned" THEN 1 ELSE LastNode
  BY DEF NextRound, LastNode
<1>2. /\ Nodes' = Nodes /\ LastNode' = LastNode /\ UnassignedAt' = UnassignedAt /\ DefFree' = DefFree
      /\ \A b : LiveOnAPath(b)' = LiveOnAPath(b)
  BY <1>1, PathsStay
<1>3. \A b \in Nodes : Transfer(b)' = Transfer(b)
  BY <1>1 DEF Transfer, AssignedIn, PredsOf, HasDef, First, Nodes
<1>4. FlowTyped'
  <2>1. block' \in IF analysis = "assigned" THEN 1 .. (LastNode + 1) ELSE 0 .. LastNode
    BY <1>0, <1>1 DEF FlowInv, FlowTyped
  <2>2. settled' \in BOOLEAN /\ changed' \in BOOLEAN
    BY DEF NextRound
  <2>. QED
    BY <1>1, <1>2, <2>1, <2>2 DEF FlowInv, FlowTyped
<1>5. Shown'
  BY <1>1, <1>2 DEF FlowInv, Shown
<1>6. Agrees'
  <2>1. CASE changed
    <3>1. ~settled' /\ \A b \in Nodes : ~Swept(b)'
      <4>1. ~settled'
        BY <1>1, <2>1
      <4>2. block' = IF analysis = "assigned" THEN 1 ELSE LastNode
        BY <1>1, <2>1
      <4>3. ASSUME NEW b \in Nodes PROVE ~Swept(b)'
        <5>1. b \in 1 .. LastNode /\ analysis' = analysis
          BY <1>0, <1>1
        <5>. QED
          BY <1>0, <4>2, <5>1 DEF Swept
      <4>. QED
        BY <4>1, <4>3
    <3>. QED
      BY <1>2, <3>1 DEF Agrees
  <2>2. CASE ~changed
    <3>1. block' = block
      BY <1>1, <2>2
    <3>2. \A b \in Nodes : Swept(b) => fact[b] = Transfer(b)
      BY <2>2 DEF FlowInv, Agrees
    <3>3. \A b \in Nodes : Swept(b)' = Swept(b)
      BY <1>1, <3>1 DEF Swept
    <3>. QED
      BY <1>1, <1>2, <1>3, <3>1, <3>2, <3>3 DEF Agrees
  <2>. QED
    BY <2>1, <2>2 DEF FlowInv, FlowTyped
<1>. QED
  BY <1>4, <1>5, <1>6 DEF FlowInv

\* The invariant of both analyses.
THEOREM FlowInvariant == FlowSpec => []FlowInv
<1>1. FlowInit => FlowInv
  BY FlowStarts
<1>2. FlowInv /\ [FlowNext]_flowVars => FlowInv'
  <2>. SUFFICES ASSUME FlowInv, [FlowNext]_flowVars PROVE FlowInv'
    OBVIOUS
  <2>1. CASE UNCHANGED flowVars
    <3>1. UNCHANGED <<graph, analysis, fact, block, changed, settled>>
      BY <2>1 DEF flowVars
    <3>2. /\ Nodes' = Nodes /\ LastNode' = LastNode /\ UnassignedAt' = UnassignedAt /\ DefFree' = DefFree
          /\ \A b : LiveOnAPath(b)' = LiveOnAPath(b)
      BY <3>1, PathsStay
    <3>3. \A b : Transfer(b)' = Transfer(b) /\ Swept(b)' = Swept(b)
      BY <3>1 DEF Transfer, AssignedIn, PredsOf, HasDef, First, Nodes, Swept
    <3>4. FlowTyped'
      BY <3>1, <3>2 DEF FlowInv, FlowTyped
    <3>5. Agrees'
      BY <3>1, <3>2, <3>3 DEF FlowInv, Agrees
    <3>6. Shown'
      BY <3>1, <3>2 DEF FlowInv, Shown
    <3>. QED
      BY <3>4, <3>5, <3>6 DEF FlowInv
  <2>. QED
    BY <2>1, UpdateStep, NextRoundStep DEF FlowNext
<1>. QED
  BY <1>1, <1>2, PTL DEF FlowSpec

\* Both analyses are exact: the uses reported are those that some path reaches
\* unassigned, and a variable is live where some path reads it first, for any
\* control-flow graph, reducible or not, with or without unreachable blocks.
THEOREM DataflowIsExact == FlowSpec => []DataflowExact
<1>1. FlowInv => DataflowExact
  <2>. SUFFICES ASSUME FlowInv, settled
                PROVE  IF analysis = "assigned" THEN Reported = {b \in UnassignedAt : First(b) = "use"}
                       ELSE \A b \in Nodes : fact[b] = LiveOnAPath(b)
    BY DEF DataflowExact
  <2>0. /\ graph \in FlowGraphs /\ LastNode \in Nat /\ Nodes = 1 .. LastNode
        /\ \A n \in Nodes : graph.succs[n] \in SUBSET Nodes
    BY GraphTypes DEF FlowInv, FlowTyped, LastNode
  <2>1. \A b \in Nodes : fact[b] = Transfer(b)
    <3>1. block \notin Nodes /\ ~changed
      BY DEF FlowInv, Agrees
    <3>2. \A b \in Nodes : Swept(b)
      BY <2>0, <3>1 DEF FlowInv, FlowTyped, Swept
    <3>. QED
      BY <3>1, <3>2 DEF FlowInv, Agrees
  <2>2. ASSUME analysis = "assigned"
        PROVE  Reported = {b \in UnassignedAt : First(b) = "use"}
    <3>1. UnassignedAt \in SUBSET Nodes
      BY DEF UnassignedAt, Spread, Nodes
    <3>2. ASSUME NEW b \in Nodes, ~AssignedIn(b) PROVE b \in UnassignedAt
      <4>1. CASE b = 1
        <5>1. ~graph.param /\ b \in Spread(graph.succs, {1}, DefFree)
          BY <3>2, <4>1, SpreadStarts DEF AssignedIn, Nodes
        <5>. QED
          BY <5>1 DEF UnassignedAt
      <4>2. CASE b # 1
        <5>1. PICK p \in PredsOf(b) : ~fact[p]
          BY <3>2, <4>2 DEF AssignedIn
        <5>2. p \in Nodes /\ b \in graph.succs[p] /\ p \in UnassignedAt /\ p \in DefFree
          BY <2>2, <5>1 DEF PredsOf, FlowInv, Shown
        <5>3. ~graph.param /\ p \in Spread(graph.succs, {1}, DefFree)
          BY <5>2 DEF UnassignedAt
        <5>4. b \in Spread(graph.succs, {1}, DefFree)
          BY <5>2, <5>3, SpreadGoesOn DEF Nodes
        <5>. QED
          BY <5>3, <5>4 DEF UnassignedAt
      <4>. QED
        BY <4>1, <4>2
    <3>3. ASSUME NEW b \in UnassignedAt PROVE ~AssignedIn(b)
      <4>. DEFINE T == {n \in Nodes : ~AssignedIn(n)}
      <4>1. ~graph.param /\ b \in Spread(graph.succs, {1}, DefFree)
        BY <3>3 DEF UnassignedAt
      <4>2. b \in Nodes
        BY <3>1
      <4>3. 1 \in Nodes
        BY <2>0, <4>2
      <4>4. {1} \subseteq T /\ T \in SUBSET Nodes
        BY <4>1, <4>3 DEF AssignedIn
      <4>5. ASSUME NEW n \in T \cap DefFree, NEW s \in graph.succs[n] PROVE s \in T
        <5>1. n \in Nodes /\ s \in Nodes /\ ~AssignedIn(n) /\ ~HasDef(n)
          BY <2>0, <4>5 DEF DefFree
        <5>2. ~Transfer(n)
          BY <2>2, <5>1 DEF Transfer
        <5>3. ~fact[n] /\ n \in PredsOf(s)
          BY <2>1, <5>1, <5>2 DEF PredsOf
        <5>4. ~AssignedIn(s)
          BY <4>1, <5>3 DEF AssignedIn
        <5>. QED
          BY <5>1, <5>4
      <4>6. \A n \in T \cap DefFree : graph.succs[n] \subseteq T
        BY <4>5
      <4>7. Spread(graph.succs, {1}, DefFree) \subseteq T
        <5>. HIDE DEF T
        <5>. QED
          BY <4>4, <4>6, SpreadIsLeast DEF Nodes
      <4>. QED
        BY <4>1, <4>7
    <3>. QED
      BY <3>1, <3>2, <3>3 DEF Reported
  <2>3. ASSUME analysis # "assigned", NEW b \in Nodes
        PROVE  fact[b] = LiveOnAPath(b)
    <3>1. fact[b] \in BOOLEAN /\ LiveOnAPath(b) \in BOOLEAN
      BY DEF FlowInv, FlowTyped, LiveOnAPath
    <3>2. fact[b] => LiveOnAPath(b)
      BY <2>3 DEF FlowInv, Shown
    <3>3. ASSUME LiveOnAPath(b), ~fact[b] PROVE FALSE
      <4>. DEFINE T == {n \in Nodes : ~fact[n]}
      <4>1. PICK u \in Spread(graph.succs, {b}, Silent) : First(u) = "use"
        BY <3>3 DEF LiveOnAPath
      <4>2. {b} \subseteq T /\ T \in SUBSET Nodes
        BY <3>3
      <4>3. ASSUME NEW n \in T \cap Silent, NEW s \in graph.succs[n] PROVE s \in T
        <5>1. n \in Nodes /\ s \in Nodes /\ First(n) = "none" /\ ~fact[n]
          BY <2>0, <4>3 DEF Silent
        <5>2. ~Transfer(n)
          BY <2>1, <5>1
        <5>3. ~fact[s]
          BY <2>3, <5>1, <5>2 DEF Transfer
        <5>. QED
          BY <5>1, <5>3
      <4>4. \A n \in T \cap Silent : graph.succs[n] \subseteq T
        BY <4>3
      <4>5. Spread(graph.succs, {b}, Silent) \subseteq T
        <5>. HIDE DEF T
        <5>. QED
          BY <4>2, <4>4, SpreadIsLeast DEF Nodes
      <4>6. u \in Nodes /\ ~fact[u]
        BY <4>5
      <4>7. Transfer(u)
        BY <2>3, <4>1 DEF Transfer
      <4>. QED
        BY <2>1, <4>6, <4>7
    <3>. QED
      BY <3>1, <3>2, <3>3
  <2>. QED
    BY <2>2, <2>3
<1>. QED
  BY <1>1, FlowInvariant, PTL

\* What is exact is stated by paths: the uses reported are those at the end of
\* a path from the entry on which no block before defines the variable.
THEOREM ReportedByPaths ==
  FlowSpec => [](settled /\ analysis = "assigned" =>
                   Reported = {b \in Nodes : /\ First(b) = "use" /\ ~graph.param
                                             /\ \E path : Way(path, 1, b, DefFree)})
<1>1. FlowInv /\ DataflowExact =>
        (settled /\ analysis = "assigned" =>
           Reported = {b \in Nodes : /\ First(b) = "use" /\ ~graph.param
                                     /\ \E path : Way(path, 1, b, DefFree)})
  <2>. SUFFICES ASSUME FlowInv, DataflowExact, settled, analysis = "assigned"
                PROVE  Reported = {b \in Nodes : /\ First(b) = "use" /\ ~graph.param
                                                 /\ \E path : Way(path, 1, b, DefFree)}
    OBVIOUS
  <2>1. Reported = {b \in UnassignedAt : First(b) = "use"}
    BY DEF DataflowExact
  <2>2. graph \in FlowGraphs
    BY DEF FlowInv, FlowTyped
  <2>3. ASSUME NEW b \in Nodes
        PROVE  b \in UnassignedAt <=> ~graph.param /\ \E path : Way(path, 1, b, DefFree)
    <3>1. 1 \in Nodes
      BY <2>2, GraphTypes
    <3>2. b \in Spread(graph.succs, {1}, DefFree) <=> \E path : Way(path, 1, b, DefFree)
      BY <2>2, <3>1, WaysSpread, SpreadHasWays
    <3>. QED
      BY <3>2 DEF UnassignedAt
  <2>4. UnassignedAt \in SUBSET Nodes
    BY DEF UnassignedAt, Spread, Nodes
  <2>. QED
    BY <2>1, <2>3, <2>4
<1>. QED
  BY <1>1, FlowInvariant, DataflowIsExact, PTL

\* Likewise for liveness: a path to a read through blocks without an event.
THEOREM LiveByPaths ==
  FlowSpec => [](settled /\ analysis = "live" =>
                   \A b \in Nodes : fact[b] = \E path, u : First(u) = "use" /\ Way(path, b, u, Silent))
<1>1. FlowInv /\ DataflowExact =>
        (settled /\ analysis = "live" =>
           \A b \in Nodes : fact[b] = \E path, u : First(u) = "use" /\ Way(path, b, u, Silent))
  <2>. SUFFICES ASSUME FlowInv, DataflowExact, settled, analysis = "live", NEW b \in Nodes
                PROVE  fact[b] = \E path, u : First(u) = "use" /\ Way(path, b, u, Silent)
    OBVIOUS
  <2>1. fact[b] = LiveOnAPath(b)
    BY DEF DataflowExact
  <2>2. graph \in FlowGraphs
    BY DEF FlowInv, FlowTyped
  <2>3. LiveOnAPath(b) <=> \E path, u : First(u) = "use" /\ Way(path, b, u, Silent)
    BY <2>2, WaysSpread, SpreadHasWays DEF LiveOnAPath
  <2>4. LiveOnAPath(b) \in BOOLEAN
    BY DEF LiveOnAPath
  <2>. QED
    BY <2>1, <2>3, <2>4
<1>. QED
  BY <1>1, FlowInvariant, DataflowIsExact, PTL

-----------------------------------------------------------------------------
\* Dominance. What it means to dominate, whatever the algorithm does.

LEMMA CfgTypes ==
  ASSUME cfg \in Cfgs
  PROVE  /\ CfgBlocks = 1 .. Len(cfg) /\ Len(cfg) \in Nat /\ 1 \in CfgBlocks
         /\ \A b \in CfgBlocks : cfg[b] \subseteq CfgBlocks \ {1}
         /\ PredsIn(1) = {} /\ \A b : PredsIn(b) \subseteq CfgBlocks
         /\ Spread(cfg, {1}, CfgBlocks) = CfgBlocks
<1>1. /\ cfg # <<>> /\ cfg \in Seq(SUBSET (DOMAIN cfg \ {1}))
      /\ Spread(cfg, {1}, DOMAIN cfg) = DOMAIN cfg
  BY CfgsAssumption
<1>2. CfgBlocks = 1 .. Len(cfg) /\ Len(cfg) \in Nat
  BY <1>1 DEF CfgBlocks
<1>3. Len(cfg) # 0
  BY <1>1
<1>4. \A b \in CfgBlocks : cfg[b] \subseteq CfgBlocks \ {1}
  BY <1>1, <1>2 DEF CfgBlocks
<1>. QED
  BY <1>1, <1>2, <1>3, <1>4 DEF CfgBlocks, PredsIn

\* The entry is reached without a, if it is not a.
LEMMA FreeStarts ==
  ASSUME cfg \in Cfgs, NEW a, a # 1
  PROVE  1 \in Free(a)
BY CfgTypes, SpreadStarts DEF Free, CfgBlocks

\* An edge goes on from a block that is reached without a.
LEMMA FreeGoesOn ==
  ASSUME cfg \in Cfgs, NEW a, NEW c \in Free(a), NEW s \in cfg[c], s # a
  PROVE  s \in Free(a)
<1>1. c \in Spread(cfg, {1} \ {a}, CfgBlocks \ {a}) /\ c \in CfgBlocks \ {a}
  BY DEF Free, Spread, CfgBlocks
<1>2. s \in DOMAIN cfg
  BY <1>1, CfgTypes DEF CfgBlocks
<1>. QED
  BY <1>1, <1>2, SpreadGoesOn DEF Free

\* Nothing else is reached without a.
LEMMA FreeIsLeast ==
  ASSUME cfg \in Cfgs, NEW a \in CfgBlocks, NEW T \in SUBSET CfgBlocks, a # 1 => 1 \in T,
         \A c \in T \ {a} : cfg[c] \ {a} \subseteq T
  PROVE  Free(a) \subseteq T
<1>1. PICK U : U = T \cup {a}
  OBVIOUS
<1>2. U \in SUBSET DOMAIN cfg /\ {1} \ {a} \subseteq U
  BY <1>1, CfgTypes DEF CfgBlocks
<1>3. \A c \in U \cap (CfgBlocks \ {a}) : cfg[c] \subseteq U
  BY <1>1
<1>4. Spread(cfg, {1} \ {a}, CfgBlocks \ {a}) \subseteq U
  BY <1>2, <1>3, SpreadIsLeast
<1>. QED
  BY <1>1, <1>4 DEF Free

LEMMA DominatesTransitive ==
  ASSUME cfg \in Cfgs, NEW a \in CfgBlocks, NEW b \in CfgBlocks, NEW c \in CfgBlocks,
         Dominates(a, b), Dominates(b, c)
  PROVE  Dominates(a, c)
<1>1. CASE b = 1
  BY <1>1, FreeStarts DEF Dominates
<1>2. CASE b # 1
  <2>1. PICK T : T = Free(a) \cap Free(b)
    OBVIOUS
  <2>2. T \in SUBSET CfgBlocks
    BY <2>1 DEF Free, Spread, CfgBlocks
  <2>3. a # 1 => 1 \in T
    BY <1>2, <2>1, FreeStarts
  <2>4. ASSUME NEW d \in T \ {a}, NEW s \in cfg[d] \ {a} PROVE s \in T
    <3>1. s \in Free(a)
      BY <2>1, <2>4, FreeGoesOn
    <3>2. s # b
      BY <3>1 DEF Dominates
    <3>3. s \in Free(b)
      BY <2>1, <2>4, <3>2, FreeGoesOn
    <3>. QED
      BY <2>1, <3>1, <3>3
  <2>5. Free(a) \subseteq T
    BY <2>2, <2>3, <2>4, FreeIsLeast
  <2>. QED
    BY <2>1, <2>5 DEF Dominates
<1>. QED
  BY <1>1, <1>2

\* What dominates a block strictly dominates its predecessors.
LEMMA DominatesPreds ==
  ASSUME cfg \in Cfgs, NEW a, NEW b, Dominates(a, b), a # b, NEW p \in PredsIn(b)
  PROVE  Dominates(a, p)
BY FreeGoesOn DEF Dominates, PredsIn

\* What dominates all predecessors dominates a block, strictly.
LEMMA DominatesByPreds ==
  ASSUME cfg \in Cfgs, NEW a \in CfgBlocks, NEW b \in CfgBlocks, b # 1,
         \A p \in PredsIn(b) : Dominates(a, p)
  PROVE  Dominates(a, b) /\ a # b
<1>0. \A d \in CfgBlocks : Free(d) \in SUBSET CfgBlocks /\ d \notin Free(d)
  BY DEF Free, Spread, CfgBlocks
<1>1. a # b
  <2>. SUFFICES ASSUME a = b PROVE FALSE
    OBVIOUS
  <2>1. ASSUME NEW c \in Free(b), NEW s \in cfg[c] PROVE s \in Free(b)
    <3>1. s # b
      BY <1>0 DEF Dominates, PredsIn
    <3>. QED
      BY <3>1, FreeGoesOn
  <2>2. {1} \subseteq Free(b)
    BY FreeStarts
  <2>3. PICK T : T = Free(b)
    OBVIOUS
  <2>4. T \in SUBSET DOMAIN cfg /\ {1} \subseteq T /\ \A c \in T \cap CfgBlocks : cfg[c] \subseteq T
    BY <1>0, <2>1, <2>2, <2>3 DEF CfgBlocks
  <2>5. Spread(cfg, {1}, CfgBlocks) \subseteq T
    BY <2>4, SpreadIsLeast
  <2>. QED
    BY <1>0, <2>3, <2>5, CfgTypes
<1>2. Dominates(a, b)
  <2>1. PICK T : T = Free(a) \ {b}
    OBVIOUS
  <2>2. T \in SUBSET CfgBlocks /\ (a # 1 => 1 \in T)
    BY <1>0, <2>1, FreeStarts
  <2>3. ASSUME NEW c \in T \ {a}, NEW s \in cfg[c] \ {a} PROVE s \in T
    <3>1. s \in Free(a)
      BY <2>1, <2>3, FreeGoesOn
    <3>2. s # b
      BY <1>0, <2>1, <2>3 DEF Dominates, PredsIn
    <3>. QED
      BY <2>1, <3>1, <3>2
  <2>4. Free(a) \subseteq T
    BY <2>2, <2>3, FreeIsLeast
  <2>. QED
    BY <2>1, <2>4 DEF Dominates
<1>. QED
  BY <1>1, <1>2

\* The number of a block in the postorder.
Post(b) == CHOOSE i \in DOMAIN postorder : postorder[i] = b

\* What is needed of the postorder: the numbers are one for each block, and
\* every block but the entry has a predecessor with a greater one.
PostOrdered ==
  /\ Len(postorder) \in Nat \ {0}
  /\ \A b \in CfgBlocks : Post(b) \in 1 .. Len(postorder) /\ postorder[Post(b)] = b
  /\ \A i \in 1 .. Len(postorder) : postorder[i] \in CfgBlocks /\ Post(postorder[i]) = i
  /\ Post(1) = Len(postorder)
  /\ \A b \in CfgBlocks \ {1} : \E p \in PredsIn(b) : Post(p) > Post(b)

\* A dominator does not come later.
LEMMA DominatesInOrder ==
  ASSUME cfg \in Cfgs, PostOrdered, NEW a \in CfgBlocks, NEW b \in CfgBlocks, Dominates(a, b)
  PROVE  Post(b) <= Post(a)
<1>. SUFFICES ASSUME ~(Post(b) <= Post(a)) PROVE FALSE
  OBVIOUS
<1>. DEFINE Wrong == {n \in Nat : \E c \in CfgBlocks : /\ n = Len(postorder) - Post(c)
                                                       /\ Post(c) > Post(a) /\ c \notin Free(a)}
<1>1. Len(postorder) \in Nat /\ \A c \in CfgBlocks : Post(c) \in 1 .. Len(postorder)
  BY DEF PostOrdered
<1>2. Len(postorder) - Post(b) \in Wrong
  BY <1>1 DEF Dominates
<1>3. PICK n \in Wrong : \A m \in Wrong : n <= m
  <2>1. Wrong \in SUBSET Nat /\ Wrong # {}
    BY <1>2
  <2>. HIDE DEF Wrong
  <2>. QED
    BY <2>1, Least
<1>4. PICK c \in CfgBlocks : n = Len(postorder) - Post(c) /\ Post(c) > Post(a) /\ c \notin Free(a)
  OBVIOUS
<1>5. c # 1
  <2>1. a # 1
    BY <1>1 DEF PostOrdered
  <2>. QED
    BY <1>4, <2>1, FreeStarts
<1>6. PICK p \in PredsIn(c) : Post(p) > Post(c)
  BY <1>5 DEF PostOrdered
<1>7. p \in CfgBlocks /\ c \in cfg[p]
  BY <1>6 DEF PredsIn
<1>8. p \in Free(a)
  <2>. SUFFICES ASSUME p \notin Free(a) PROVE FALSE
    OBVIOUS
  <2>1. PICK m \in Nat : m = Len(postorder) - Post(p)
    BY <1>1, <1>7
  <2>2. m < n
    BY <1>1, <1>4, <1>6, <1>7, <2>1
  <2>3. Post(p) > Post(a)
    BY <1>1, <1>4, <1>6, <1>7
  <2>4. m \in Wrong
    BY <1>7, <2>1, <2>3
  <2>5. n <= m
    <3>. HIDE DEF Wrong
    <3>. QED
      BY <1>3, <2>4
  <2>. QED
    BY <2>1, <2>2, <2>5, <1>1, <1>4
<1>9. c # a
  BY <1>1, <1>4
<1>. QED
  BY <1>4, <1>7, <1>8, <1>9, FreeGoesOn

LEMMA DominatesAntisymmetric ==
  ASSUME cfg \in Cfgs, PostOrdered, NEW a \in CfgBlocks, NEW b \in CfgBlocks,
         Dominates(a, b), Dominates(b, a)
  PROVE  a = b
<1>1. Post(a) = Post(b)
  <2>1. Post(b) <= Post(a) /\ Post(a) <= Post(b)
    BY DominatesInOrder
  <2>2. Post(a) \in Nat /\ Post(b) \in Nat
    BY DEF PostOrdered
  <2>. QED
    BY <2>1, <2>2
<1>. QED
  BY <1>1 DEF PostOrdered

-----------------------------------------------------------------------------
\* The tree that idom is: what is above a block in it.
Up       == [b \in CfgBlocks |-> {idom[b]} \ {0}]
Chain(b) == Spread(Up, {b}, CfgBlocks)

IdomTyped == idom \in [CfgBlocks -> CfgBlocks \cup {0}] /\ idom[1] = 1 /\ 0 \notin CfgBlocks

LEMMA ChainStarts ==
  ASSUME NEW b \in CfgBlocks
  PROVE  b \in Chain(b)
BY SpreadStarts DEF Chain, Up

LEMMA ChainUp ==
  ASSUME IdomTyped, NEW b, NEW c \in Chain(b), idom[c] # 0
  PROVE  idom[c] \in Chain(b)
<1>1. c \in CfgBlocks
  BY DEF Chain, Spread, Up
<1>2. DOMAIN Up = CfgBlocks /\ idom[c] \in Up[c] /\ idom[c] \in CfgBlocks
  BY <1>1 DEF Up, IdomTyped
<1>. QED
  BY <1>1, <1>2, SpreadGoesOn DEF Chain

LEMMA ChainTransitive ==
  ASSUME NEW b, NEW c \in Chain(b), NEW d \in Chain(c)
  PROVE  d \in Chain(b)
BY SpreadChains DEF Chain

\* A set that is closed upwards holds all that is above its members.
LEMMA ChainIsLeast ==
  ASSUME NEW T \in SUBSET CfgBlocks, NEW b \in T, \A c \in T : idom[c] # 0 => idom[c] \in T
  PROVE  Chain(b) \subseteq T
<1>1. T \in SUBSET DOMAIN Up /\ {b} \subseteq T /\ \A c \in T \cap CfgBlocks : Up[c] \subseteq T
  BY DEF Up
<1>. QED
  BY <1>1, SpreadIsLeast DEF Chain

\* What is above a block is above its immediate dominator, or is the block.
LEMMA ChainSteps ==
  ASSUME IdomTyped, NEW b \in CfgBlocks, NEW a \in Chain(b), a # b
  PROVE  idom[b] # 0 /\ a \in Chain(idom[b])
<1>1. PICK T : T = {b} \cup (IF idom[b] = 0 THEN {} ELSE Chain(idom[b]))
  OBVIOUS
<1>2. T \in SUBSET CfgBlocks /\ b \in T
  BY <1>1 DEF Chain, Spread, Up
<1>3. ASSUME NEW c \in T, idom[c] # 0 PROVE idom[c] \in T
  <2>1. CASE c = b
    <3>1. idom[b] \in CfgBlocks
      BY <1>3, <2>1 DEF IdomTyped
    <3>. QED
      BY <1>1, <1>3, <2>1, <3>1, ChainStarts
  <2>2. CASE c # b
    BY <1>1, <1>3, <2>2, ChainUp
  <2>. QED
    BY <2>1, <2>2
<1>4. Chain(b) \subseteq T
  BY <1>2, <1>3, ChainIsLeast
<1>. QED
  BY <1>1, <1>4

StrictlyDominates(a, b) == Dominates(a, b) /\ a # b

\* Every immediate dominator so far has one itself, comes earlier, and is
\* dominated by what strictly dominates its block.
Climbing ==
  \A b \in CfgBlocks \ {1} :
    idom[b] # 0 => /\ idom[idom[b]] # 0 /\ Post(idom[b]) > Post(b)
                   /\ \A a \in CfgBlocks : StrictlyDominates(a, b) => Dominates(a, idom[b])

\* The equations that dominators solve.
Solved == \A b \in CfgBlocks \ {1} : idom[b] # 0 /\ \A q \in PredsIn(b) : idom[b] \in Chain(q)

\* Their solution.
ExactIdom ==
  \A b \in CfgBlocks \ {1} : /\ idom[b] \in CfgBlocks \ {b}
                             /\ \A a \in CfgBlocks : Dominates(a, idom[b]) <=> StrictlyDominates(a, b)

\* What is above a block does not come later and has been processed, too.
LEMMA ChainInOrder ==
  ASSUME cfg \in Cfgs, IdomTyped, PostOrdered, Climbing, NEW b \in CfgBlocks, NEW a \in Chain(b)
  PROVE  a \in CfgBlocks /\ Post(b) <= Post(a) /\ (idom[b] # 0 => idom[a] # 0)
<1>1. PICK T : T = {c \in CfgBlocks : Post(b) <= Post(c) /\ (idom[b] # 0 => idom[c] # 0)}
  OBVIOUS
<1>2. \A c \in CfgBlocks : Post(c) \in Nat
  BY DEF PostOrdered
<1>3. T \in SUBSET CfgBlocks /\ b \in T
  BY <1>1, <1>2
<1>4. ASSUME NEW c \in T, idom[c] # 0 PROVE idom[c] \in T
  <2>1. c \in CfgBlocks /\ idom[c] \in CfgBlocks /\ Post(b) <= Post(c)
    BY <1>1, <1>4 DEF IdomTyped
  <2>2. CASE c = 1
    BY <1>4, <2>2 DEF IdomTyped
  <2>3. CASE c # 1
    <3>1. idom[idom[c]] # 0 /\ Post(idom[c]) > Post(c)
      BY <1>4, <2>1, <2>3 DEF Climbing
    <3>2. Post(b) <= Post(idom[c])
      BY <1>2, <2>1, <3>1
    <3>. QED
      BY <1>1, <2>1, <3>1, <3>2
  <2>. QED
    BY <2>2, <2>3
<1>5. Chain(b) \subseteq T
  BY <1>3, <1>4, ChainIsLeast
<1>. QED
  BY <1>1, <1>5

\* A solution is exact: what is above every predecessor of each block that is
\* entered cannot be gone around.
LEMMA SolvedIsExact ==
  ASSUME cfg \in Cfgs, IdomTyped, PostOrdered, Climbing, Solved
  PROVE  ExactIdom
<1>. SUFFICES ASSUME NEW b \in CfgBlocks \ {1}
              PROVE  /\ idom[b] \in CfgBlocks \ {b}
                     /\ \A a \in CfgBlocks : Dominates(a, idom[b]) <=> StrictlyDominates(a, b)
  BY DEF ExactIdom
<1>1. /\ idom[b] \in CfgBlocks /\ Post(idom[b]) > Post(b) /\ Post(b) \in Nat
      /\ \A a \in CfgBlocks : StrictlyDominates(a, b) => Dominates(a, idom[b])
  BY DEF Solved, Climbing, IdomTyped, PostOrdered
<1>2. PICK d \in CfgBlocks : d = idom[b]
  BY <1>1
<1>3. d # b
  BY <1>1, <1>2
<1>4. Dominates(d, b)
  <2>1. PICK T : T = {c \in CfgBlocks : d \notin Chain(c)}
    OBVIOUS
  <2>2. d # 1 => 1 \in T
    <3>1. Chain(1) \subseteq {1}
      <4>1. {1} \in SUBSET CfgBlocks /\ 1 \in {1} /\ \A c \in {1} : idom[c] # 0 => idom[c] \in {1}
        BY CfgTypes DEF IdomTyped
      <4>. QED
        BY <4>1, ChainIsLeast
    <3>. QED
      BY <2>1, <3>1, CfgTypes
  <2>3. ASSUME NEW c \in T \ {d}, NEW s \in cfg[c] \ {d} PROVE s \in T
    <3>1. s \in CfgBlocks \ {1} /\ c \in PredsIn(s)
      BY <2>1, CfgTypes DEF PredsIn
    <3>2. SUFFICES ASSUME d \in Chain(s) PROVE FALSE
      BY <2>1, <3>1
    <3>3. idom[s] # 0 /\ d \in Chain(idom[s])
      BY <3>1, <3>2, ChainSteps
    <3>4. idom[s] \in Chain(c)
      BY <3>1 DEF Solved
    <3>. QED
      BY <2>1, <3>3, <3>4, ChainTransitive
  <2>4. Free(d) \subseteq T
    BY <2>1, <2>2, <2>3, FreeIsLeast
  <2>5. d \in Chain(b)
    <3>1. b \in Chain(b) /\ idom[b] # 0
      BY ChainStarts DEF Solved
    <3>. QED
      BY <1>2, <3>1, ChainUp
  <2>. QED
    BY <2>1, <2>4, <2>5 DEF Dominates
<1>5. ASSUME NEW a \in CfgBlocks, Dominates(a, d) PROVE StrictlyDominates(a, b)
  <2>1. Dominates(a, b)
    BY <1>4, <1>5, DominatesTransitive
  <2>2. a # b
    <3>1. Post(d) <= Post(a)
      BY <1>5, DominatesInOrder
    <3>2. Post(a) \in Nat /\ Post(d) \in Nat
      BY DEF PostOrdered
    <3>. QED
      BY <1>1, <1>2, <3>1, <3>2
  <2>. QED
    BY <2>1, <2>2 DEF StrictlyDominates
<1>. QED
  BY <1>1, <1>2, <1>3, <1>5

-----------------------------------------------------------------------------
\* The walk. The calls under way and those that have returned are of different
\* blocks; who has returned has its successors seen, and was entered from a
\* block that returns later.
Walked ==
  /\ \A i, j \in DOMAIN postorder : postorder[i] = postorder[j] => i = j
  /\ \A i, j \in DOMAIN visiting : visiting[i] = visiting[j] => i = j
  /\ \A i \in DOMAIN visiting : visiting[i] \notin ToSet(postorder)
  /\ IF visiting = <<>> THEN postorder # <<>> /\ postorder[Len(postorder)] = 1 ELSE visiting[1] = 1
  /\ \A i \in 1 .. (Len(visiting) - 1) : visiting[i + 1] \in cfg[visiting[i]]
  /\ \A i \in DOMAIN postorder : cfg[postorder[i]] \subseteq Seen
  /\ \A i \in DOMAIN postorder :
       \/ postorder[i] = 1
       \/ \E j \in DOMAIN postorder : j > i /\ postorder[i] \in cfg[postorder[j]]
       \/ \E j \in DOMAIN visiting : postorder[i] \in cfg[visiting[j]]

WalkTyped == cfg \in Cfgs /\ visiting \in Seq(CfgBlocks) /\ postorder \in Seq(CfgBlocks)

\* Another block is entered.
LEMMA DescendStep ==
  ASSUME WalkTyped, Walked, Descend
  PROVE  WalkTyped' /\ Walked'
<1>1. UNCHANGED <<cfg, postorder>> /\ visiting # <<>>
  BY DEF Descend
<1>2. PICK s \in cfg[Last(visiting)] \ Seen : visiting' = Append(visiting, s)
  BY DEF Descend
<1>3. PICK n \in Nat : n = Len(visiting) /\ n >= 1
  BY <1>1 DEF WalkTyped
<1>4. /\ DOMAIN visiting = 1 .. n /\ \A i \in 1 .. n : visiting[i] \in CfgBlocks
      /\ Last(visiting) = visiting[n]
  BY <1>3 DEF WalkTyped, Last
<1>5. s \in CfgBlocks
  BY <1>2, <1>3, <1>4, CfgTypes DEF WalkTyped
<1>6. /\ visiting' \in Seq(CfgBlocks) /\ Len(visiting') = n + 1 /\ visiting'[n + 1] = s
      /\ \A i \in 1 .. n : visiting'[i] = visiting[i]
      /\ DOMAIN visiting' = 1 .. (n + 1) /\ visiting' # <<>>
  BY <1>2, <1>3, <1>5 DEF WalkTyped
<1>7. s \notin ToSet(visiting) /\ s \notin ToSet(postorder)
  BY <1>2 DEF Seen
<1>8. \A i \in 1 .. n : visiting[i] # s
  BY <1>4, <1>7 DEF ToSet
<1>9. WalkTyped'
  BY <1>1, <1>6 DEF WalkTyped, CfgBlocks
<1>10. Walked'
  <2>1. \A i, j \in DOMAIN postorder' : postorder'[i] = postorder'[j] => i = j
    BY <1>1 DEF Walked
  <2>2. ASSUME NEW i \in DOMAIN visiting', NEW j \in DOMAIN visiting', visiting'[i] = visiting'[j]
        PROVE  i = j
    <3>1. (i \in 1 .. n \/ i = n + 1) /\ (j \in 1 .. n \/ j = n + 1)
      BY <1>3, <1>6
    <3>. QED
      BY <1>4, <1>6, <1>8, <2>2, <3>1 DEF Walked
  <2>3. ASSUME NEW i \in DOMAIN visiting' PROVE visiting'[i] \notin ToSet(postorder')
    <3>1. i \in 1 .. n \/ i = n + 1
      BY <1>3, <1>6
    <3>. QED
      BY <1>1, <1>4, <1>6, <1>7, <3>1 DEF Walked
  <2>4. visiting'[1] = 1
    BY <1>1, <1>3, <1>6 DEF Walked
  <2>5. ASSUME NEW i \in 1 .. (Len(visiting') - 1) PROVE visiting'[i + 1] \in cfg'[visiting'[i]]
    <3>1. CASE i = n
      BY <1>1, <1>2, <1>3, <1>4, <1>6, <3>1
    <3>2. CASE i # n
      <4>1. i \in 1 .. (Len(visiting) - 1) /\ i \in 1 .. n /\ i + 1 \in 1 .. n
        BY <1>3, <1>6, <3>2
      <4>. QED
        BY <1>1, <1>6, <4>1 DEF Walked
    <3>. QED
      BY <3>1, <3>2
  <2>6. \A i \in DOMAIN postorder' : cfg'[postorder'[i]] \subseteq Seen'
    <3>1. ToSet(visiting) \subseteq ToSet(visiting')
      <4>1. ASSUME NEW i \in 1 .. n PROVE visiting[i] \in ToSet(visiting')
        <5>1. i \in DOMAIN visiting' /\ visiting'[i] = visiting[i]
          BY <1>3, <1>6
        <5>. QED
          BY <5>1 DEF ToSet
      <4>. QED
        BY <1>4, <4>1 DEF ToSet
    <3>2. Seen \subseteq Seen'
      BY <1>1, <3>1 DEF Seen
    <3>. QED
      BY <1>1, <3>2 DEF Walked
  <2>7. ASSUME NEW i \in DOMAIN postorder'
        PROVE  \/ postorder'[i] = 1
               \/ \E j \in DOMAIN postorder' : j > i /\ postorder'[i] \in cfg'[postorder'[j]]
               \/ \E j \in DOMAIN visiting' : postorder'[i] \in cfg'[visiting'[j]]
    <3>1. CASE \E j \in DOMAIN visiting : postorder[i] \in cfg[visiting[j]]
      <4>1. PICK j \in 1 .. n : postorder[i] \in cfg[visiting[j]]
        BY <1>4, <3>1
      <4>2. j \in DOMAIN visiting' /\ visiting'[j] = visiting[j]
        BY <1>3, <1>6
      <4>. QED
        BY <1>1, <4>1, <4>2
    <3>2. CASE ~ \E j \in DOMAIN visiting : postorder[i] \in cfg[visiting[j]]
      BY <1>1, <3>2 DEF Walked
    <3>. QED
      BY <3>1, <3>2
  <2>. QED
    BY <1>6, <2>1, <2>2, <2>3, <2>4, <2>5, <2>6, <2>7 DEF Walked
<1>. QED
  BY <1>9, <1>10

\* A block is left.
LEMMA LeaveStep ==
  ASSUME WalkTyped, Walked, Leave
  PROVE  WalkTyped' /\ Walked'
<1>1. /\ UNCHANGED cfg /\ visiting # <<>> /\ cfg[Last(visiting)] \subseteq Seen
      /\ postorder' = Append(postorder, Last(visiting)) /\ visiting' = Front(visiting)
  BY DEF Leave
<1>2. PICK n \in Nat : n = Len(visiting) /\ n >= 1
  BY <1>1 DEF WalkTyped
<1>3. PICK m \in Nat : m = Len(postorder)
  BY DEF WalkTyped
<1>4. PICK t : t = visiting[n]
  OBVIOUS
<1>5. /\ DOMAIN visiting = 1 .. n /\ \A i \in 1 .. n : visiting[i] \in CfgBlocks
      /\ Last(visiting) = t /\ t \in CfgBlocks
  BY <1>2, <1>4 DEF WalkTyped, Last
<1>6. /\ postorder' \in Seq(CfgBlocks) /\ Len(postorder') = m + 1 /\ postorder'[m + 1] = t
      /\ \A i \in 1 .. m : postorder'[i] = postorder[i]
      /\ DOMAIN postorder = 1 .. m /\ DOMAIN postorder' = 1 .. (m + 1) /\ postorder' # <<>>
  BY <1>1, <1>3, <1>5 DEF WalkTyped
<1>7. /\ visiting' \in Seq(CfgBlocks) /\ Len(visiting') = n - 1
      /\ \A i \in 1 .. (n - 1) : visiting'[i] = visiting[i]
      /\ DOMAIN visiting' = 1 .. (n - 1)
  BY <1>1, <1>2 DEF WalkTyped, Front
<1>8. t \notin ToSet(postorder) /\ \A i \in 1 .. m : postorder[i] # t
  <2>1. t \notin ToSet(postorder)
    BY <1>2, <1>4, <1>5 DEF Walked
  <2>. QED
    BY <1>6, <2>1 DEF ToSet
<1>9. WalkTyped'
  BY <1>1, <1>6, <1>7 DEF WalkTyped, CfgBlocks
<1>10. Walked'
  <2>1. ASSUME NEW i \in DOMAIN postorder', NEW j \in DOMAIN postorder', postorder'[i] = postorder'[j]
        PROVE  i = j
    <3>1. (i \in 1 .. m \/ i = m + 1) /\ (j \in 1 .. m \/ j = m + 1)
      BY <1>3, <1>6
    <3>. QED
      BY <1>6, <1>8, <2>1, <3>1 DEF Walked
  <2>2. \A i, j \in DOMAIN visiting' : visiting'[i] = visiting'[j] => i = j
    BY <1>2, <1>5, <1>7 DEF Walked
  <2>3. ASSUME NEW i \in DOMAIN visiting' PROVE visiting'[i] \notin ToSet(postorder')
    <3>1. i \in 1 .. n /\ i # n /\ n \in 1 .. n /\ visiting'[i] = visiting[i]
      BY <1>2, <1>7
    <3>2. visiting[i] # t /\ visiting[i] \notin ToSet(postorder)
      BY <1>4, <1>5, <3>1 DEF Walked
    <3>3. \A k \in 1 .. m : postorder[k] # visiting[i]
      BY <1>6, <3>2 DEF ToSet
    <3>4. \A k \in DOMAIN postorder' : postorder'[k] # visiting[i]
      <4>1. ASSUME NEW k \in DOMAIN postorder' PROVE postorder'[k] # visiting[i]
        <5>1. k \in 1 .. m \/ k = m + 1
          BY <1>3, <1>6
        <5>. QED
          BY <1>6, <3>2, <3>3, <5>1
      <4>. QED
        BY <4>1
    <3>. QED
      BY <3>1, <3>4 DEF ToSet
  <2>4. IF visiting' = <<>> THEN postorder' # <<>> /\ postorder'[Len(postorder')] = 1 ELSE visiting'[1] = 1
    <3>0. visiting[1] = 1
      BY <1>1 DEF Walked
    <3>1. CASE n = 1
      BY <1>4, <1>6, <1>7, <3>0, <3>1
    <3>2. CASE n # 1
      <4>1. 1 \in 1 .. (n - 1) /\ visiting' # <<>>
        BY <1>2, <1>7, <3>2
      <4>. QED
        BY <1>7, <3>0, <4>1
    <3>. QED
      BY <3>1, <3>2
  <2>5. ASSUME NEW i \in 1 .. (Len(visiting') - 1) PROVE visiting'[i + 1] \in cfg'[visiting'[i]]
    <3>1. i \in 1 .. (Len(visiting) - 1) /\ i \in 1 .. (n - 1) /\ i + 1 \in 1 .. (n - 1)
      BY <1>2, <1>7
    <3>. QED
      BY <1>1, <1>7, <3>1 DEF Walked
  <2>6. \A i \in DOMAIN postorder' : cfg'[postorder'[i]] \subseteq Seen'
    <3>1. Seen \subseteq Seen'
      <4>1. ASSUME NEW i \in 1 .. m PROVE postorder[i] \in ToSet(postorder')
        <5>1. i \in DOMAIN postorder' /\ postorder'[i] = postorder[i]
          BY <1>3, <1>6
        <5>. QED
          BY <5>1 DEF ToSet
      <4>2. t \in ToSet(postorder')
        <5>1. m + 1 \in DOMAIN postorder'
          BY <1>3, <1>6
        <5>. QED
          BY <1>6, <5>1 DEF ToSet
      <4>3. ASSUME NEW i \in 1 .. n PROVE visiting[i] \in ToSet(visiting') \cup {t}
        <5>1. CASE i = n
          BY <1>4, <5>1
        <5>2. CASE i # n
          <6>1. i \in DOMAIN visiting' /\ visiting'[i] = visiting[i]
            BY <1>2, <1>7, <5>2
          <6>. QED
            BY <6>1 DEF ToSet
        <5>. QED
          BY <5>1, <5>2
      <4>4. ToSet(postorder) \subseteq ToSet(postorder')
        BY <1>6, <4>1 DEF ToSet
      <4>5. ToSet(visiting) \subseteq ToSet(visiting') \cup {t}
        BY <1>5, <4>3 DEF ToSet
      <4>. QED
        BY <4>2, <4>4, <4>5 DEF Seen
    <3>2. ASSUME NEW i \in DOMAIN postorder' PROVE cfg[postorder'[i]] \subseteq Seen
      <4>1. i \in 1 .. m \/ i = m + 1
        BY <1>3, <1>6
      <4>. QED
        BY <1>1, <1>5, <1>6, <4>1 DEF Walked
    <3>. QED
      BY <1>1, <3>1, <3>2
  <2>7. ASSUME NEW i \in DOMAIN postorder'
        PROVE  \/ postorder'[i] = 1
               \/ \E j \in DOMAIN postorder' : j > i /\ postorder'[i] \in cfg'[postorder'[j]]
               \/ \E j \in DOMAIN visiting' : postorder'[i] \in cfg'[visiting'[j]]
    <3>1. CASE i = m + 1
      <4>1. CASE n = 1
        BY <1>1, <1>4, <1>6, <3>1, <4>1 DEF Walked
      <4>2. CASE n # 1
        <5>1. PICK k : k = n - 1
          OBVIOUS
        <5>2. k \in 1 .. (Len(visiting) - 1) /\ k \in DOMAIN visiting' /\ k + 1 = n
          BY <1>2, <1>7, <4>2, <5>1
        <5>3. visiting[k + 1] \in cfg[visiting[k]]
          BY <5>2 DEF Walked
        <5>4. t \in cfg[visiting'[k]]
          BY <1>4, <1>7, <5>2, <5>3
        <5>. QED
          BY <1>1, <1>6, <3>1, <5>2, <5>4
      <4>. QED
        BY <4>1, <4>2
    <3>2. CASE i # m + 1
      <4>1. i \in 1 .. m /\ postorder'[i] = postorder[i]
        BY <1>3, <1>6, <3>2
      <4>2. CASE \E j \in DOMAIN postorder : j > i /\ postorder[i] \in cfg[postorder[j]]
        <5>1. PICK j \in 1 .. m : j > i /\ postorder[i] \in cfg[postorder[j]]
          BY <1>6, <4>2
        <5>2. j \in DOMAIN postorder' /\ postorder'[j] = postorder[j]
          BY <1>3, <1>6
        <5>. QED
          BY <1>1, <4>1, <5>1, <5>2
      <4>3. CASE \E j \in DOMAIN visiting : postorder[i] \in cfg[visiting[j]]
        <5>1. PICK j \in 1 .. n : postorder[i] \in cfg[visiting[j]]
          BY <1>5, <4>3
        <5>2. CASE j = n
          <6>1. m + 1 \in DOMAIN postorder' /\ m + 1 > i
            BY <1>3, <1>6, <4>1
          <6>. QED
            BY <1>1, <1>4, <1>6, <4>1, <5>1, <5>2, <6>1
        <5>3. CASE j # n
          <6>1. j \in DOMAIN visiting' /\ visiting'[j] = visiting[j]
            BY <1>2, <1>7, <5>3
          <6>. QED
            BY <1>1, <4>1, <5>1, <6>1
        <5>. QED
          BY <5>2, <5>3
      <4>. QED
        BY <1>6, <4>1, <4>2, <4>3 DEF Walked
    <3>. QED
      BY <3>1, <3>2
  <2>. QED
    BY <2>1, <2>2, <2>3, <2>4, <2>5, <2>6, <2>7 DEF Walked
<1>. QED
  BY <1>9, <1>10

\* When the outermost call has returned, every block has been numbered.
LEMMA WalkEnds ==
  ASSUME WalkTyped, Walked, visiting = <<>>
  PROVE  PostOrdered
<1>1. PICK L \in Nat : L = Len(postorder)
  BY DEF WalkTyped
<1>2. /\ DOMAIN postorder = 1 .. L /\ L >= 1 /\ postorder[L] = 1
      /\ \A i \in 1 .. L : postorder[i] \in CfgBlocks
  BY <1>1 DEF WalkTyped, Walked
<1>3. \A b \in CfgBlocks : \E i \in DOMAIN postorder : postorder[i] = b
  <2>1. PICK T : T = ToSet(postorder)
    OBVIOUS
  <2>2. Seen = T
    BY <2>1 DEF Seen, ToSet
  <2>3. T \in SUBSET DOMAIN cfg /\ {1} \subseteq T
    BY <1>1, <1>2, <2>1 DEF ToSet, CfgBlocks
  <2>4. \A c \in T \cap CfgBlocks : cfg[c] \subseteq T
    BY <2>1, <2>2 DEF Walked, ToSet
  <2>5. Spread(cfg, {1}, CfgBlocks) \subseteq T
    BY <2>3, <2>4, SpreadIsLeast
  <2>. QED
    BY <2>1, <2>5, CfgTypes DEF ToSet, WalkTyped
<1>4. \A b \in CfgBlocks : Post(b) \in DOMAIN postorder /\ postorder[Post(b)] = b
  BY <1>3 DEF Post
<1>5. ASSUME NEW i \in 1 .. L PROVE Post(postorder[i]) = i
  BY <1>2, <1>4 DEF Walked
<1>6. ASSUME NEW b \in CfgBlocks \ {1} PROVE \E p \in PredsIn(b) : Post(p) > Post(b)
  <2>1. PICK i \in DOMAIN postorder : i = Post(b) /\ postorder[i] = b
    BY <1>4
  <2>2. PICK j \in DOMAIN postorder : j > i /\ b \in cfg[postorder[j]]
    <3>1. DOMAIN visiting = {}
      OBVIOUS
    <3>. QED
      BY <2>1, <3>1 DEF Walked
  <2>3. postorder[j] \in PredsIn(b) /\ Post(postorder[j]) = j
    BY <1>2, <1>5, <2>2 DEF PredsIn
  <2>. QED
    BY <2>1, <2>2, <2>3
<1>7. Post(1) = L
  BY <1>1, <1>2, <1>5
<1>. QED
  BY <1>1, <1>2, <1>4, <1>5, <1>6, <1>7 DEF PostOrdered

-----------------------------------------------------------------------------
\* The rounds. Of a candidate v for b: what strictly dominates b dominates v.
Above(v, b) ==
  v # 0 => idom[v] # 0 /\ \A a \in CfgBlocks : StrictlyDominates(a, b) => Dominates(a, v)

\* One candidate, or in a meet one of two, is above each predecessor looked at.
Meeting(b) ==
  /\ todo \subseteq PredsIn(b) /\ Above(newIdom, b) /\ Above(runner, b)
  /\ \A q \in PredsIn(b) \ todo : idom[q] = 0 \/ newIdom \in Chain(q) \/ runner \in Chain(q)

RoundTyped ==
  /\ cfg \in Cfgs /\ IdomTyped /\ todo \in SUBSET CfgBlocks /\ moved \in BOOLEAN
  /\ newIdom \in CfgBlocks \cup {0} /\ runner \in CfgBlocks \cup {0}

\* What has been visited in this round has been processed, and a round without
\* a change has found it to solve its equation.
Rounds ==
  /\ at \in 0 .. (Len(postorder) - 1)
  /\ \A b \in CfgBlocks : Post(b) > at => idom[b] # 0
  /\ runner # 0 => newIdom # 0
  /\ IF at = 0 THEN todo = {} /\ newIdom = 0 /\ runner = 0 ELSE Meeting(postorder[at])
  /\ ~moved => \A b \in CfgBlocks \ {1} :
                 Post(b) > at => \A q \in PredsIn(b) : idom[q] = 0 \/ idom[b] \in Chain(q)

RoundsInv == RoundTyped /\ PostOrdered /\ Climbing /\ Rounds

\* Dominance depends on the graph alone, the numbers on the postorder, and what
\* is above a block on idom.
LEMMA GraphStays ==
  ASSUME UNCHANGED cfg
  PROVE  /\ CfgBlocks' = CfgBlocks /\ \A b : PredsIn(b)' = PredsIn(b)
         /\ \A a, b : Dominates(a, b)' = Dominates(a, b) /\ StrictlyDominates(a, b)' = StrictlyDominates(a, b)
BY DEF CfgBlocks, PredsIn, Dominates, StrictlyDominates, Free, Spread, ClosedFrom

LEMMA OrderStays ==
  ASSUME UNCHANGED <<cfg, postorder>>
  PROVE  (\A b : Post(b)' = Post(b)) /\ PostOrdered' = PostOrdered
<1>1. \A b : Post(b)' = Post(b)
  BY DEF Post
<1>. QED
  BY <1>1, GraphStays DEF PostOrdered

LEMMA TreeStays ==
  ASSUME UNCHANGED <<cfg, idom>>
  PROVE  /\ \A b : Chain(b)' = Chain(b)
         /\ \A v, b : Above(v, b)' = Above(v, b)
         /\ IdomTyped' = IdomTyped /\ ExactIdom' = ExactIdom
BY GraphStays DEF Chain, Up, Above, Spread, ClosedFrom, IdomTyped, ExactIdom

LEMMA ClimbingStays ==
  ASSUME UNCHANGED <<cfg, postorder, idom>>
  PROVE  Climbing' = Climbing
BY GraphStays, OrderStays DEF Climbing

\* Nothing is above a block but blocks.
LEMMA NoneIsZero ==
  ASSUME IdomTyped, NEW q
  PROVE  0 \notin Chain(q)
BY DEF Chain, Spread, Up, IdomTyped

\* A step of a meet keeps the invariant when it keeps what it says of the block.
LEMMA SameBlock ==
  ASSUME RoundsInv, at > 0, UNCHANGED <<cfg, postorder, idom, at, moved>>, NEW b, b = postorder[at],
         newIdom' \in CfgBlocks \cup {0}, runner' \in CfgBlocks \cup {0}, runner' # 0 => newIdom' # 0,
         todo' \subseteq PredsIn(b), Above(newIdom', b), Above(runner', b),
         \A q \in PredsIn(b) \ todo' : idom[q] = 0 \/ newIdom' \in Chain(q) \/ runner' \in Chain(q)
  PROVE  RoundsInv'
<1>1. cfg \in Cfgs /\ IdomTyped /\ Rounds /\ at' # 0
  BY DEF RoundsInv, RoundTyped, Rounds
<1>2. RoundTyped'
  <2>1. CfgBlocks' = CfgBlocks /\ IdomTyped' /\ todo' \in SUBSET CfgBlocks
    BY <1>1, GraphStays, TreeStays, CfgTypes
  <2>. QED
    BY <2>1 DEF RoundsInv, RoundTyped
<1>3. Rounds'
  <2>1. Meeting(postorder[at])'
    BY GraphStays, TreeStays DEF Meeting, Above
  <2>2. /\ at' \in 0 .. (Len(postorder') - 1)
        /\ \A c \in CfgBlocks' : Post(c)' > at' => idom'[c] # 0
    BY <1>1, GraphStays, OrderStays DEF Rounds
  <2>3. ~moved' => \A c \in CfgBlocks' \ {1} :
                 Post(c)' > at' => \A q \in PredsIn(c)' : idom'[q] = 0 \/ idom'[c] \in Chain(q)'
    BY <1>1, GraphStays, OrderStays, TreeStays DEF Rounds
  <2>. QED
    BY <1>1, <2>1, <2>2, <2>3 DEF Rounds
<1>. QED
  BY <1>2, <1>3, OrderStays, ClimbingStays DEF RoundsInv

LEMMA LookAtPredStep ==
  ASSUME RoundsInv, LookAtPred
  PROVE  RoundsInv'
<1>1. /\ at > 0 /\ runner = 0 /\ UNCHANGED <<cfg, postorder, idom, at, moved>>
  BY DEF LookAtPred, Rounding
<1>2. PICK p \in todo : /\ todo' = todo \ {p}
                        /\ newIdom' = IF newIdom = 0 /\ idom[p] /= 0 THEN p ELSE newIdom
                        /\ runner' = IF Meets(p) THEN p ELSE 0
  BY DEF LookAtPred
<1>3. PICK b : b = postorder[at]
  OBVIOUS
<1>4. at \in 0 .. (Len(postorder) - 1) /\ at # 0 /\ Meeting(b) /\ cfg \in Cfgs /\ IdomTyped
  BY <1>1, <1>3 DEF RoundsInv, Rounds, RoundTyped
<1>5. p \in PredsIn(b) /\ p \in CfgBlocks /\ p # 0
  BY <1>4 DEF Meeting, RoundsInv, RoundTyped, IdomTyped
<1>6. \A a \in CfgBlocks : StrictlyDominates(a, b) => Dominates(a, p)
  BY <1>4, <1>5, DominatesPreds DEF StrictlyDominates
<1>7. p \in Chain(p) /\ \A q : 0 \notin Chain(q)
  BY <1>4, <1>5, ChainStarts, NoneIsZero
<1>8. newIdom' \in CfgBlocks \cup {0} /\ runner' \in CfgBlocks \cup {0}
  BY <1>2, <1>5 DEF RoundsInv, RoundTyped
<1>9. /\ todo' \subseteq PredsIn(b) /\ Above(newIdom', b) /\ Above(runner', b)
      /\ \A q \in PredsIn(b) \ todo' : idom[q] = 0 \/ newIdom' \in Chain(q) \/ runner' \in Chain(q)
      /\ runner' # 0 => newIdom' # 0
  <2>0. /\ todo \subseteq PredsIn(b) /\ Above(newIdom, b)
        /\ \A q \in PredsIn(b) \ todo : idom[q] = 0 \/ newIdom \in Chain(q)
    BY <1>1, <1>4, <1>7 DEF Meeting
  <2>1. CASE idom[p] = 0
    <3>1. newIdom' = newIdom /\ runner' = 0
      BY <1>2, <2>1 DEF Meets
    <3>. QED
      BY <1>2, <2>0, <2>1, <3>1 DEF Above
  <2>2. CASE idom[p] # 0 /\ newIdom = 0
    <3>1. newIdom' = p /\ runner' = 0
      BY <1>2, <2>2 DEF Meets
    <3>2. \A q \in PredsIn(b) \ todo : idom[q] = 0
      BY <1>7, <2>0, <2>2
    <3>. QED
      BY <1>2, <1>5, <1>6, <1>7, <2>0, <2>2, <3>1, <3>2 DEF Above
  <2>3. CASE idom[p] # 0 /\ newIdom # 0
    <3>1. newIdom' = newIdom /\ runner' = p
      BY <1>2, <2>3 DEF Meets
    <3>. QED
      BY <1>2, <1>6, <1>7, <2>0, <2>3, <3>1 DEF Above
  <2>. QED
    BY <2>1, <2>2, <2>3
<1>. QED
  BY <1>1, <1>3, <1>8, <1>9, SameBlock

\* Of two candidates the one that is earlier in the postorder moves up, and
\* stays one: nothing that dominates the other is the block it leaves.
LEMMA ClimbOne ==
  ASSUME cfg \in Cfgs, IdomTyped, PostOrdered, Climbing, NEW b, NEW x \in CfgBlocks, NEW y \in CfgBlocks,
         Above(x, b), Above(y, b), Post(x) < Post(y)
  PROVE  /\ idom[x] \in CfgBlocks /\ idom[x] # 0 /\ Above(idom[x], b)
         /\ \A q : x \in Chain(q) => idom[x] \in Chain(q)
<1>1. x # 1
  <2>1. Post(1) = Len(postorder) /\ Post(y) \in 1 .. Len(postorder) /\ Len(postorder) \in Nat
    BY DEF PostOrdered
  <2>. QED
    BY <2>1
<1>2. idom[x] # 0 /\ idom[x] \in CfgBlocks
  BY DEF Above, IdomTyped
<1>3. /\ idom[idom[x]] # 0
      /\ \A a \in CfgBlocks : StrictlyDominates(a, x) => Dominates(a, idom[x])
  BY <1>1, <1>2 DEF Climbing
<1>4. ASSUME NEW a \in CfgBlocks, StrictlyDominates(a, b) PROVE Dominates(a, idom[x])
  <2>1. Dominates(a, x) /\ Dominates(a, y)
    BY <1>4 DEF Above, IdomTyped
  <2>2. Post(y) <= Post(a) /\ Post(x) \in Nat /\ Post(y) \in Nat /\ Post(a) \in Nat
    BY <2>1, DominatesInOrder DEF PostOrdered
  <2>3. a # x
    BY <2>2
  <2>. QED
    BY <1>3, <2>1, <2>3 DEF StrictlyDominates
<1>. QED
  BY <1>2, <1>3, <1>4, ChainUp DEF Above

LEMMA ClimbStep ==
  ASSUME RoundsInv, Climb
  PROVE  RoundsInv'
<1>1. /\ at > 0 /\ runner # 0 /\ runner # newIdom /\ UNCHANGED <<cfg, postorder, idom, at, moved, todo>>
      /\ IF Order(runner) > Order(newIdom)
         THEN runner' = idom[runner] /\ UNCHANGED newIdom
         ELSE newIdom' = idom[newIdom] /\ UNCHANGED runner
  BY DEF Climb, Rounding
<1>2. PICK b : b = postorder[at]
  OBVIOUS
<1>3. /\ at \in 0 .. (Len(postorder) - 1) /\ at # 0 /\ Meeting(b) /\ newIdom # 0
      /\ cfg \in Cfgs /\ IdomTyped /\ PostOrdered /\ Climbing
      /\ runner \in CfgBlocks /\ newIdom \in CfgBlocks
  BY <1>1, <1>2 DEF RoundsInv, Rounds, RoundTyped
<1>4. PICK x, y \in CfgBlocks : x = runner /\ y = newIdom
  BY <1>3
<1>5. /\ Above(x, b) /\ Above(y, b) /\ todo \subseteq PredsIn(b)
      /\ \A q \in PredsIn(b) \ todo : idom[q] = 0 \/ y \in Chain(q) \/ x \in Chain(q)
  BY <1>3, <1>4 DEF Meeting
<1>6. \/ Post(x) < Post(y) /\ runner' = idom[x] /\ newIdom' = y
      \/ Post(y) < Post(x) /\ newIdom' = idom[y] /\ runner' = x
  <2>1. Order(x) = Len(postorder) - Post(x) /\ Order(y) = Len(postorder) - Post(y)
    BY DEF Order, Post
  <2>2. Post(x) \in Nat /\ Post(y) \in Nat /\ Post(x) # Post(y) /\ Len(postorder) \in Nat
    BY <1>1, <1>3, <1>4 DEF PostOrdered
  <2>. QED
    BY <1>1, <1>4, <2>1, <2>2
<1>7. CASE Post(x) < Post(y) /\ runner' = idom[x] /\ newIdom' = y
  <2>1. /\ idom[x] \in CfgBlocks /\ idom[x] # 0 /\ Above(idom[x], b)
        /\ \A q : x \in Chain(q) => idom[x] \in Chain(q)
    BY <1>3, <1>5, <1>7, ClimbOne
  <2>. QED
    BY <1>1, <1>2, <1>3, <1>4, <1>5, <1>7, <2>1, SameBlock
<1>8. CASE Post(y) < Post(x) /\ newIdom' = idom[y] /\ runner' = x
  <2>1. /\ idom[y] \in CfgBlocks /\ idom[y] # 0 /\ Above(idom[y], b)
        /\ \A q : y \in Chain(q) => idom[y] \in Chain(q)
    BY <1>3, <1>5, <1>8, ClimbOne
  <2>. QED
    BY <1>1, <1>2, <1>3, <1>4, <1>5, <1>8, <2>1, SameBlock
<1>. QED
  BY <1>6, <1>7, <1>8

LEMMA MetStep ==
  ASSUME RoundsInv, Met
  PROVE  RoundsInv'
<1>1. at > 0 /\ runner = newIdom /\ runner' = 0 /\ UNCHANGED <<cfg, postorder, idom, at, moved, todo, newIdom>>
  BY DEF Met, Rounding
<1>2. PICK b : b = postorder[at]
  OBVIOUS
<1>3. /\ at \in 0 .. (Len(postorder) - 1) /\ at # 0 /\ Meeting(b) /\ newIdom \in CfgBlocks \cup {0}
  BY <1>1, <1>2 DEF RoundsInv, Rounds, RoundTyped
<1>4. Above(0, b)
  BY DEF Above
<1>. QED
  BY <1>1, <1>2, <1>3, <1>4, SameBlock DEF Meeting

\* A block that comes next has nothing looked at.
LEMMA ApproachStarts ==
  ASSUME cfg \in Cfgs, UNCHANGED <<cfg, postorder>>, NEW i \in 0 .. (Len(postorder) - 1), Approach(i), runner' = 0
  PROVE  /\ at' = i /\ newIdom' = 0 /\ todo' \in SUBSET CfgBlocks
         /\ IF at' = 0 THEN todo' = {} /\ newIdom' = 0 /\ runner' = 0 ELSE Meeting(postorder[at])'
<1>1. at' = i /\ newIdom' = 0 /\ todo' = IF i = 0 THEN {} ELSE PredsIn(postorder[i])
  BY DEF Approach
<1>2. todo' \in SUBSET CfgBlocks
  BY <1>1, CfgTypes
<1>3. ASSUME i # 0 PROVE Meeting(postorder[at])'
  <2>1. todo' = PredsIn(postorder[at])'
    BY <1>1, <1>3, GraphStays
  <2>2. Above(newIdom, postorder[at])' /\ Above(runner, postorder[at])'
    BY <1>1 DEF Above
  <2>. QED
    BY <2>1, <2>2 DEF Meeting
<1>. QED
  BY <1>1, <1>2, <1>3

\* A block gets what its predecessors have been found to have in common: there
\* is such, as one of them has been processed, and it comes after the block.
LEMMA SetIdomStep ==
  ASSUME RoundsInv, SetIdom
  PROVE  RoundsInv'
<1>1. /\ at > 0 /\ runner = 0 /\ todo = {} /\ runner' = 0 /\ UNCHANGED <<cfg, postorder>>
      /\ idom' = [idom EXCEPT ![postorder[at]] = newIdom]
      /\ moved' = (moved \/ idom' # idom) /\ Approach(at - 1)
  BY DEF SetIdom, Rounding
<1>2. PICK b : b = postorder[at]
  OBVIOUS
<1>3. PICK n : n = newIdom
  OBVIOUS
<1>4. /\ at \in 1 .. (Len(postorder) - 1) /\ Len(postorder) \in Nat /\ Meeting(b)
      /\ cfg \in Cfgs /\ IdomTyped /\ PostOrdered /\ Climbing /\ Rounds
  BY <1>1, <1>2 DEF RoundsInv, Rounds, RoundTyped, PostOrdered
<1>5. /\ b \in CfgBlocks \ {1} /\ Post(b) = at
      /\ \A c \in CfgBlocks : Post(c) \in Nat /\ (Post(c) = at => c = b)
  <2>1. at \in 1 .. Len(postorder) /\ at # Len(postorder)
    BY <1>4
  <2>. QED
    BY <1>2, <1>4, <2>1 DEF PostOrdered
<1>6. /\ Above(n, b)
      /\ \A q \in PredsIn(b) : idom[q] = 0 \/ n \in Chain(q)
  BY <1>1, <1>3, <1>4, NoneIsZero DEF Meeting
<1>7. n \in CfgBlocks /\ n # 0 /\ n # b /\ Post(n) > Post(b)
  <2>1. PICK p \in PredsIn(b) : Post(p) > Post(b)
    BY <1>4, <1>5 DEF PostOrdered
  <2>2. p \in CfgBlocks /\ idom[p] # 0
    BY <1>4, <1>5, <2>1, CfgTypes DEF Rounds
  <2>3. n \in Chain(p)
    BY <1>6, <2>1, <2>2
  <2>4. n \in CfgBlocks /\ Post(p) <= Post(n)
    BY <1>4, <2>2, <2>3, ChainInOrder
  <2>. QED
    BY <1>4, <1>5, <2>1, <2>2, <2>4 DEF IdomTyped
<1>8. idom[n] # 0 /\ \A a \in CfgBlocks : StrictlyDominates(a, b) => Dominates(a, n)
  BY <1>6, <1>7 DEF Above
<1>9. idom'[b] = n /\ \A c \in CfgBlocks \ {b} : idom'[c] = idom[c]
  BY <1>1, <1>2, <1>3, <1>4, <1>5 DEF IdomTyped
<1>10. IdomTyped' /\ moved' \in BOOLEAN
  <2>1. idom' \in [CfgBlocks -> CfgBlocks \cup {0}] /\ idom'[1] = 1
    BY <1>1, <1>2, <1>3, <1>4, <1>5, <1>7, <1>9, CfgTypes DEF IdomTyped
  <2>2. moved' \in BOOLEAN
    BY <1>1 DEF RoundsInv, RoundTyped
  <2>. QED
    BY <1>1, <1>4, <2>1, <2>2, GraphStays DEF IdomTyped
<1>11. Climbing'
  <2>1. ASSUME NEW c \in CfgBlocks \ {1}, idom'[c] # 0
        PROVE  /\ idom'[idom'[c]] # 0 /\ Post(idom'[c]) > Post(c)
               /\ \A a \in CfgBlocks : StrictlyDominates(a, c) => Dominates(a, idom'[c])
    <3>1. CASE c = b
      BY <1>7, <1>8, <1>9, <3>1
    <3>2. CASE c # b
      <4>1. idom'[c] = idom[c] /\ idom[c] # 0 /\ idom[c] \in CfgBlocks
        BY <1>4, <1>9, <2>1, <3>2 DEF IdomTyped
      <4>2. /\ idom[idom[c]] # 0 /\ Post(idom[c]) > Post(c)
            /\ \A a \in CfgBlocks : StrictlyDominates(a, c) => Dominates(a, idom[c])
        BY <1>4, <4>1 DEF Climbing
      <4>3. idom'[idom[c]] # 0
        BY <1>7, <1>9, <4>1, <4>2
      <4>. QED
        BY <4>1, <4>2, <4>3
    <3>. QED
      BY <3>1, <3>2
  <2>2. \A v : Post(v)' = Post(v)
    BY <1>1, OrderStays
  <2>3. \A c : Post(idom[c])' = Post(idom'[c])
    BY <1>1 DEF Post
  <2>4. \A a, c : Dominates(a, idom[c])' = Dominates(a, idom'[c])
    BY <1>1 DEF Dominates, Free, Spread, ClosedFrom, CfgBlocks
  <2>. QED
    BY <1>1, <2>1, <2>2, <2>3, <2>4, GraphStays DEF Climbing
<1>12. /\ at' = at - 1 /\ newIdom' = 0 /\ todo' \in SUBSET CfgBlocks
       /\ IF at' = 0 THEN todo' = {} /\ newIdom' = 0 /\ runner' = 0 ELSE Meeting(postorder[at])'
  <2>1. at - 1 \in 0 .. (Len(postorder) - 1)
    BY <1>4
  <2>. QED
    BY <1>1, <1>4, <2>1, ApproachStarts
<1>13. Rounds'
  <2>1. at' \in 0 .. (Len(postorder') - 1)
    BY <1>1, <1>4, <1>12
  <2>2. \A c \in CfgBlocks : Post(c) > at' => c = b \/ Post(c) > at
    BY <1>4, <1>5, <1>12
  <2>3. \A c \in CfgBlocks' : Post(c)' > at' => idom'[c] # 0
    <3>1. \A c \in CfgBlocks : Post(c) > at' => idom'[c] # 0
      BY <1>4, <1>7, <1>9, <2>2 DEF Rounds
    <3>. QED
      BY <1>1, <3>1, GraphStays, OrderStays
  <2>4. ASSUME ~moved'
        PROVE  \A c \in CfgBlocks' \ {1} :
                 Post(c)' > at' => \A q \in PredsIn(c)' : idom'[q] = 0 \/ idom'[c] \in Chain(q)'
    <3>1. ~moved /\ idom' = idom
      BY <1>1, <2>4
    <3>2. \A c \in CfgBlocks \ {1} :
            Post(c) > at' => \A q \in PredsIn(c) : idom[q] = 0 \/ idom[c] \in Chain(q)
      <4>1. \A c \in CfgBlocks \ {1} :
            Post(c) > at => \A q \in PredsIn(c) : idom[q] = 0 \/ idom[c] \in Chain(q)
        BY <1>4, <3>1 DEF Rounds
      <4>2. idom[b] = n
        BY <1>9, <3>1
      <4>. QED
        BY <1>6, <2>2, <4>1, <4>2
    <3>. QED
      BY <1>1, <3>1, <3>2, GraphStays, OrderStays, TreeStays
  <2>. QED
    BY <1>1, <1>12, <2>1, <2>3, <2>4 DEF Rounds
<1>14. RoundTyped'
  BY <1>1, <1>4, <1>10, <1>12, GraphStays DEF RoundTyped
<1>. QED
  BY <1>1, <1>4, <1>11, <1>13, <1>14, OrderStays DEF RoundsInv

\* A round starts with nothing of it done: the entry is no part of it.
LEMMA RoundStarts ==
  ASSUME cfg \in Cfgs, IdomTyped, PostOrdered, Climbing, UNCHANGED <<cfg, postorder, idom>>,
         Approach(Len(postorder) - 1), moved' = FALSE, runner' = 0
  PROVE  RoundsInv'
<1>1. Len(postorder) - 1 \in 0 .. (Len(postorder) - 1) /\ Len(postorder) \in Nat
  BY DEF PostOrdered
<1>2. /\ at' = Len(postorder) - 1 /\ newIdom' = 0 /\ todo' \in SUBSET CfgBlocks
      /\ IF at' = 0 THEN todo' = {} /\ newIdom' = 0 /\ runner' = 0 ELSE Meeting(postorder[at])'
  BY <1>1, ApproachStarts
<1>3. \A c \in CfgBlocks : Post(c) > at' => c = 1
  <2>1. ASSUME NEW c \in CfgBlocks, Post(c) > at' PROVE c = 1
    <3>1. Post(c) = Len(postorder) /\ postorder[Post(c)] = c
      BY <1>1, <1>2, <2>1 DEF PostOrdered
    <3>2. Post(1) = Len(postorder) /\ postorder[Post(1)] = 1
      BY CfgTypes DEF PostOrdered
    <3>. QED
      BY <3>1, <3>2
  <2>. QED
    BY <2>1
<1>4. Rounds'
  <2>1. \A c \in CfgBlocks' : Post(c)' > at' => c = 1
    BY <1>3, GraphStays, OrderStays
  <2>2. idom'[1] # 0
    BY DEF IdomTyped
  <2>3. at' \in 0 .. (Len(postorder') - 1)
    BY <1>1, <1>2
  <2>. QED
    BY <1>2, <2>1, <2>2, <2>3 DEF Rounds
<1>5. RoundTyped'
  BY <1>2, GraphStays, TreeStays DEF RoundTyped
<1>. QED
  BY <1>4, <1>5, OrderStays, ClimbingStays DEF RoundsInv

\* A round without a change leaves a solution.
LEMMA RoundsSolve ==
  ASSUME RoundsInv, at = 0, ~moved
  PROVE  ExactIdom
<1>1. cfg \in Cfgs /\ IdomTyped /\ PostOrdered /\ Climbing /\ Rounds
  BY DEF RoundsInv, RoundTyped
<1>2. ASSUME NEW b \in CfgBlocks PROVE Post(b) > at
  BY <1>1 DEF PostOrdered
<1>3. \A b \in CfgBlocks : idom[b] # 0
  BY <1>1, <1>2 DEF Rounds
<1>4. \A b \in CfgBlocks \ {1} : \A q \in PredsIn(b) : q \in CfgBlocks /\ (idom[q] = 0 \/ idom[b] \in Chain(q))
  BY <1>1, <1>2, CfgTypes DEF Rounds
<1>5. Solved
  BY <1>3, <1>4 DEF Solved
<1>. QED
  BY <1>1, <1>5, SolvedIsExact

-----------------------------------------------------------------------------
\* The frontiers.
InFrontier(a, b) == ~ StrictlyDominates(a, b) /\ \E p \in PredsIn(b) : Dominates(a, p)

\* The runner is between a predecessor and the immediate dominator; whatever
\* has a looked-at predecessor in its reach has the block, or dominates the runner.
Running ==
  /\ todo \subseteq PredsIn(at)
  /\ runner # 0 => Dominates(idom[at], runner) /\ \E p \in PredsIn(at) : Dominates(runner, p)
  /\ \A p \in PredsIn(at) \ todo : \A a \in CfgBlocks :
       Dominates(a, p) /\ ~ StrictlyDominates(a, at) =>
         at \in frontier[a] \/ (runner # 0 /\ Dominates(a, runner))

FrontierTyped ==
  /\ cfg \in Cfgs /\ IdomTyped /\ PostOrdered /\ ExactIdom /\ at \in 1 .. Len(cfg) + 1
  /\ runner \in CfgBlocks \cup {0} /\ frontier \in [CfgBlocks -> SUBSET CfgBlocks]

Frontiers ==
  /\ IF at \in CfgBlocks THEN Running ELSE runner = 0
  /\ \A a \in CfgBlocks : \A b \in frontier[a] : InFrontier(a, b)
  /\ \A b \in CfgBlocks : b < at => \A a \in CfgBlocks : InFrontier(a, b) => b \in frontier[a]

FrontiersInv == FrontierTyped /\ Frontiers

\* A block dominates itself, and the entry is dominated by no other.
LEMMA DominatesItself ==
  ASSUME NEW a
  PROVE  Dominates(a, a)
BY DEF Dominates, Free

LEMMA DominatesEntry ==
  ASSUME cfg \in Cfgs, NEW a, Dominates(a, 1)
  PROVE  a = 1
BY FreeStarts DEF Dominates

\* A block that comes next: one with a single predecessor is in the frontier
\* of none that dominates it.
LEMMA ConsiderStarts ==
  ASSUME FrontierTyped, UNCHANGED <<cfg, idom, postorder, frontier>>, NEW b \in 1 .. Len(cfg) + 1,
         Consider(b), runner' = 0
  PROVE  at' = b /\ FrontierTyped' /\ (at' \in CfgBlocks' => Running')
<1>1. /\ at' = b
      /\ todo' = IF b \in CfgBlocks /\ \E p, q \in PredsIn(b) : p # q THEN PredsIn(b) ELSE {}
  BY DEF Consider
<1>2. FrontierTyped'
  BY <1>1, GraphStays, OrderStays, TreeStays DEF FrontierTyped
<1>3. ASSUME b \in CfgBlocks PROVE Running'
  <2>1. todo' \subseteq PredsIn(b)
    BY <1>1
  <2>2. ASSUME NEW p \in PredsIn(b) \ todo', NEW a \in CfgBlocks, Dominates(a, p)
        PROVE  StrictlyDominates(a, b)
    <3>1. \A q \in PredsIn(b) : q = p
      BY <1>1, <1>3, <2>2
    <3>2. b # 1
      BY <2>2, CfgTypes DEF FrontierTyped
    <3>. QED
      BY <1>3, <2>2, <3>1, <3>2, DominatesByPreds DEF StrictlyDominates, FrontierTyped
  <2>. QED
    BY <1>1, <2>1, <2>2, GraphStays DEF Running
<1>. QED
  BY <1>1, <1>2, <1>3, GraphStays

\* What has been found stays as it is when only the runner moves.
LEMMA StartRunnerStep ==
  ASSUME FrontiersInv, StartRunner
  PROVE  FrontiersInv'
<1>1. /\ at \in CfgBlocks /\ runner = 0 /\ UNCHANGED <<cfg, postorder, idom, at, frontier>>
  BY DEF StartRunner
<1>2. PICK p \in todo : runner' = p /\ todo' = todo \ {p}
  BY DEF StartRunner
<1>3. cfg \in Cfgs /\ IdomTyped /\ ExactIdom /\ Running
  BY <1>1 DEF FrontiersInv, FrontierTyped, Frontiers
<1>4. p \in PredsIn(at) /\ p \in CfgBlocks /\ p # 0
  BY <1>2, <1>3, CfgTypes DEF Running, IdomTyped
<1>5. Dominates(idom[at], p)
  <2>1. at \in CfgBlocks \ {1}
    BY <1>1, <1>3, <1>4, CfgTypes
  <2>2. StrictlyDominates(idom[at], at)
    BY <1>3, <2>1, DominatesItself DEF ExactIdom
  <2>. QED
    BY <1>3, <1>4, <2>2, DominatesPreds DEF StrictlyDominates
<1>6. Running'
  <2>1. /\ todo' \subseteq PredsIn(at) /\ Dominates(p, p)
    BY <1>2, <1>3, DominatesItself DEF Running
  <2>2. \A q \in PredsIn(at) \ todo' : \A a \in CfgBlocks :
          Dominates(a, q) /\ ~ StrictlyDominates(a, at) => at \in frontier[a] \/ Dominates(a, p)
    BY <1>1, <1>2, <1>3 DEF Running
  <2>3. /\ CfgBlocks' = CfgBlocks /\ \A b : PredsIn(b)' = PredsIn(b)
        /\ \A a, b : StrictlyDominates(a, b)' = StrictlyDominates(a, b) /\ Dominates(a, b)' = Dominates(a, b)
    BY <1>1, GraphStays
  <2>4. \A a : Dominates(a, runner)' = Dominates(a, p) /\ Dominates(runner, a)' = Dominates(p, a)
    BY <1>1, <1>2 DEF Dominates, Free, Spread, ClosedFrom, CfgBlocks
  <2>5. Dominates(idom[at], runner)'
    BY <1>1, <1>2, <1>5 DEF Dominates, Free, Spread, ClosedFrom, CfgBlocks
  <2>6. PredsIn(at)' = PredsIn(at) /\ \A a : StrictlyDominates(a, at)' = StrictlyDominates(a, at)
    BY <1>1 DEF PredsIn, CfgBlocks, StrictlyDominates, Dominates, Free, Spread, ClosedFrom
  <2>. QED
    BY <1>1, <1>2, <1>4, <2>1, <2>2, <2>3, <2>4, <2>5, <2>6 DEF Running
<1>7. FrontierTyped'
  BY <1>1, <1>2, <1>4, GraphStays, OrderStays, TreeStays DEF FrontiersInv, FrontierTyped
<1>8. Frontiers'
  BY <1>1, <1>6, GraphStays DEF FrontiersInv, Frontiers, InFrontier
<1>. QED
  BY <1>7, <1>8 DEF FrontiersInv

LEMMA NextBlockStep ==
  ASSUME FrontiersInv, NextBlock
  PROVE  FrontiersInv'
<1>1. /\ at \in CfgBlocks /\ runner = 0 /\ todo = {} /\ Consider(at + 1)
      /\ UNCHANGED <<cfg, postorder, idom, runner, frontier>>
  BY DEF NextBlock
<1>2. FrontierTyped /\ Running /\ Frontiers /\ cfg \in Cfgs
  BY <1>1 DEF FrontiersInv, FrontierTyped, Frontiers
<1>3. CfgBlocks = 1 .. Len(cfg) /\ Len(cfg) \in Nat
  BY <1>2, CfgTypes
<1>4. at + 1 \in 1 .. Len(cfg) + 1
  BY <1>1, <1>3
<1>5. at' = at + 1 /\ FrontierTyped' /\ (at' \in CfgBlocks' => Running')
  BY <1>1, <1>2, <1>4, ConsiderStarts
<1>6. \A a \in CfgBlocks : InFrontier(a, at) => at \in frontier[a]
  BY <1>1, <1>2 DEF Running, InFrontier
<1>7. \A b \in CfgBlocks : b < at' => \A a \in CfgBlocks : InFrontier(a, b) => b \in frontier[a]
  <2>1. \A b \in CfgBlocks : b < at' => b = at \/ b < at
    BY <1>1, <1>3, <1>5
  <2>. QED
    BY <1>2, <1>6, <2>1 DEF Frontiers
<1>8. Frontiers'
  <2>1. \A a \in CfgBlocks : \A b \in frontier[a] : InFrontier(a, b)
    BY <1>2 DEF Frontiers
  <2>2. runner' = 0
    BY <1>1
  <2>3. \A a, b : InFrontier(a, b)' = InFrontier(a, b)
    BY <1>1, GraphStays DEF InFrontier
  <2>. QED
    BY <1>1, <1>5, <1>7, <2>1, <2>2, <2>3, GraphStays DEF Frontiers
<1>. QED
  BY <1>5, <1>8 DEF FrontiersInv

\* The runner moves up to the immediate dominator, and whatever dominates it
\* has the block in its frontier or dominates the next.
LEMMA RunUpStep ==
  ASSUME FrontiersInv, RunUp
  PROVE  FrontiersInv'
<1>1. /\ at \in CfgBlocks /\ runner # 0 /\ UNCHANGED <<cfg, postorder, idom, at, todo>>
      /\ IF runner = idom[at] THEN runner' = 0 /\ UNCHANGED frontier
         ELSE /\ frontier' = [frontier EXCEPT ![runner] = @ \cup {at}]
              /\ runner' = idom[runner]
  BY DEF RunUp
<1>2. FrontierTyped /\ Frontiers /\ cfg \in Cfgs /\ IdomTyped /\ PostOrdered /\ ExactIdom /\ Running
  BY <1>1 DEF FrontiersInv, FrontierTyped, Frontiers
<1>3. PICK r \in CfgBlocks : r = runner
  BY <1>1, <1>2 DEF FrontierTyped
<1>4. PICK d : d = idom[at]
  OBVIOUS
<1>5. PICK p \in PredsIn(at) : Dominates(r, p)
  BY <1>1, <1>2, <1>3 DEF Running
<1>6. /\ at # 1 /\ p \in CfgBlocks /\ d \in CfgBlocks /\ Dominates(d, r)
      /\ \A a \in CfgBlocks : Dominates(a, d) <=> StrictlyDominates(a, at)
  <2>1. at # 1 /\ p \in CfgBlocks
    BY <1>2, <1>5, CfgTypes
  <2>. QED
    BY <1>1, <1>2, <1>3, <1>4, <2>1 DEF Running, ExactIdom
<1>7. /\ todo \subseteq PredsIn(at)
      /\ \A q \in PredsIn(at) \ todo : \A a \in CfgBlocks :
           Dominates(a, q) /\ ~ StrictlyDominates(a, at) => at \in frontier[a] \/ Dominates(a, r)
  BY <1>1, <1>2, <1>3 DEF Running
<1>8. /\ PredsIn(at)' = PredsIn(at) /\ CfgBlocks' = CfgBlocks
      /\ \A a : StrictlyDominates(a, at)' = StrictlyDominates(a, at)
      /\ \A a, b : Dominates(a, b)' = Dominates(a, b) /\ InFrontier(a, b)' = InFrontier(a, b)
  BY <1>1, GraphStays DEF PredsIn, StrictlyDominates, Dominates, Free, Spread, ClosedFrom, CfgBlocks, InFrontier
<1>9. CASE r = d
  <2>1. runner' = 0 /\ UNCHANGED frontier
    BY <1>1, <1>3, <1>4, <1>9
  <2>2. \A q \in PredsIn(at) \ todo : \A a \in CfgBlocks :
           Dominates(a, q) /\ ~ StrictlyDominates(a, at) => at \in frontier[a]
    BY <1>6, <1>7, <1>9
  <2>3. Running'
    BY <1>1, <1>7, <1>8, <2>1, <2>2 DEF Running
  <2>4. FrontierTyped'
    BY <1>1, <1>2, <2>1, GraphStays, OrderStays, TreeStays DEF FrontierTyped
  <2>5. Frontiers'
    BY <1>1, <1>2, <1>8, <2>1, <2>3 DEF Frontiers
  <2>. QED
    BY <2>4, <2>5 DEF FrontiersInv
<1>10. CASE r # d
  <2>1. r # 1
    BY <1>2, <1>6, <1>10, DominatesEntry
  <2>2. PICK u \in CfgBlocks : u = idom[r]
    BY <1>2, <1>3, <2>1 DEF ExactIdom
  <2>3. \A a \in CfgBlocks : Dominates(a, u) <=> StrictlyDominates(a, r)
    BY <1>2, <1>3, <2>1, <2>2 DEF ExactIdom
  <2>4. frontier' = [frontier EXCEPT ![r] = @ \cup {at}] /\ runner' = u /\ u # 0
    BY <1>1, <1>2, <1>3, <1>4, <1>10, <2>2 DEF IdomTyped
  <2>5. frontier'[r] = frontier[r] \cup {at} /\ \A a \in CfgBlocks \ {r} : frontier'[a] = frontier[a]
    BY <1>2, <1>3, <2>4 DEF FrontierTyped
  <2>6. Dominates(d, u)
    BY <1>6, <1>10, <2>3 DEF StrictlyDominates
  <2>7. Dominates(u, p)
    <3>1. Dominates(u, r)
      BY <2>3, DominatesItself DEF StrictlyDominates
    <3>. QED
      BY <1>2, <1>3, <1>5, <1>6, <3>1, DominatesTransitive
  <2>8. \A q \in PredsIn(at) \ todo : \A a \in CfgBlocks :
          Dominates(a, q) /\ ~ StrictlyDominates(a, at) => at \in frontier'[a] \/ Dominates(a, u)
    <3>1. ASSUME NEW q \in PredsIn(at) \ todo, NEW a \in CfgBlocks, Dominates(a, q),
                 ~ StrictlyDominates(a, at), ~ Dominates(a, u)
          PROVE  at \in frontier'[a]
      <4>1. CASE a = r
        BY <2>5, <4>1
      <4>2. CASE a # r
        BY <1>7, <2>3, <2>5, <3>1, <4>2 DEF StrictlyDominates
      <4>. QED
        BY <4>1, <4>2
    <3>. QED
      BY <3>1
  <2>9. InFrontier(r, at)
    <3>1. ~ StrictlyDominates(r, at)
      BY <1>2, <1>3, <1>6, <1>10, DominatesAntisymmetric
    <3>. QED
      BY <1>5, <3>1 DEF InFrontier
  <2>10. Running'
    <3>1. \A a : Dominates(a, runner)' = Dominates(a, u) /\ Dominates(runner, a)' = Dominates(u, a)
      BY <1>1, <2>4 DEF Dominates, Free, Spread, ClosedFrom, CfgBlocks
    <3>2. Dominates(idom[at], runner)'
      BY <1>1, <1>4, <2>4, <2>6 DEF Dominates, Free, Spread, ClosedFrom, CfgBlocks
    <3>3. at' = at /\ todo' = todo /\ runner' = u
      BY <1>1, <2>4
    <3>4. \E q \in PredsIn(at)' : Dominates(runner, q)'
      BY <1>5, <1>8, <2>7, <3>1
    <3>5. \A q \in PredsIn(at)' \ todo' : \A a \in CfgBlocks' :
            Dominates(a, q)' /\ ~ StrictlyDominates(a, at)' => at' \in frontier'[a] \/ Dominates(a, runner)'
      BY <1>8, <2>8, <3>1, <3>3
    <3>. QED
      BY <1>7, <1>8, <2>4, <3>2, <3>3, <3>4, <3>5 DEF Running
  <2>11. frontier' \in [CfgBlocks -> SUBSET CfgBlocks]
    BY <1>1, <1>2, <1>3, <2>4 DEF FrontierTyped
  <2>12. FrontierTyped'
    BY <1>1, <1>2, <1>8, <2>4, <2>11, GraphStays, OrderStays, TreeStays DEF FrontierTyped
  <2>13. Frontiers'
    <3>1. \A a \in CfgBlocks : \A b \in frontier'[a] : InFrontier(a, b)
      BY <1>2, <2>5, <2>9 DEF Frontiers
    <3>2. \A b \in CfgBlocks : b < at => \A a \in CfgBlocks : InFrontier(a, b) => b \in frontier'[a]
      BY <1>2, <2>5 DEF Frontiers
    <3>. QED
      BY <1>1, <1>8, <2>10, <3>1, <3>2 DEF Frontiers
  <2>. QED
    BY <2>12, <2>13 DEF FrontiersInv
<1>. QED
  BY <1>9, <1>10

-----------------------------------------------------------------------------
\* The three phases.
Untouched == /\ idom = [b \in CfgBlocks |-> IF b = 1 THEN 1 ELSE 0]
             /\ newIdom = 0 /\ runner = 0 /\ moved = FALSE

DomInv ==
  \/ phase = "walk" /\ WalkTyped /\ Walked /\ Untouched /\ frontier = [b \in CfgBlocks |-> {}]
  \/ phase = "rounds" /\ RoundsInv /\ frontier = [b \in CfgBlocks |-> {}]
  \/ phase = "frontiers" /\ FrontiersInv

LEMMA DomInitInv ==
  ASSUME DomInit
  PROVE  DomInv
<1>1. cfg \in Cfgs /\ visiting = <<1>> /\ postorder = <<>>
  BY DEF DomInit
<1>2. 1 \in CfgBlocks
  BY <1>1, CfgTypes
<1>3. WalkTyped
  BY <1>1, <1>2 DEF WalkTyped
<1>4. Walked
  <2>1. /\ DOMAIN postorder = {} /\ DOMAIN visiting = {1} /\ Len(visiting) = 1
        /\ visiting # <<>> /\ visiting[1] = 1
    BY <1>1
  <2>2. ToSet(postorder) = {}
    BY <2>1 DEF ToSet
  <2>. QED
    BY <2>1, <2>2 DEF Walked
<1>. QED
  BY <1>3, <1>4 DEF DomInit, DomInv, Untouched

LEMMA StartRoundsStep ==
  ASSUME DomInv, StartRounds
  PROVE  DomInv'
<1>1. /\ phase' = "rounds" /\ WalkTyped /\ Walked /\ Untouched /\ visiting = <<>>
      /\ frontier = [b \in CfgBlocks |-> {}] /\ Approach(Len(postorder) - 1)
      /\ UNCHANGED <<cfg, postorder, idom, runner, moved, frontier>>
  BY DEF StartRounds, DomInv
<1>2. cfg \in Cfgs /\ PostOrdered
  BY <1>1, WalkEnds DEF WalkTyped
<1>3. IdomTyped /\ Climbing
  BY <1>1, <1>2, CfgTypes DEF Untouched, IdomTyped, Climbing
<1>4. RoundsInv'
  BY <1>1, <1>2, <1>3, RoundStarts DEF Untouched
<1>. QED
  BY <1>1, <1>4, GraphStays DEF DomInv

LEMMA StartFrontiersStep ==
  ASSUME DomInv, StartFrontiers
  PROVE  DomInv'
<1>1. /\ phase' = "frontiers" /\ RoundsInv /\ frontier = [b \in CfgBlocks |-> {}]
      /\ at = 0 /\ ~moved /\ Consider(1) /\ UNCHANGED <<cfg, postorder, idom, runner, frontier>>
  BY DEF StartFrontiers, DomInv
<1>2. cfg \in Cfgs /\ IdomTyped /\ PostOrdered /\ runner = 0
  BY <1>1 DEF RoundsInv, RoundTyped, Rounds
<1>3. ExactIdom
  BY <1>1, RoundsSolve
<1>4. /\ CfgBlocks = 1 .. Len(cfg) /\ Len(cfg) \in Nat
      /\ at' = 1
  BY <1>1, <1>2, CfgTypes DEF Consider
<1>5. FrontierTyped'
  <2>1. frontier' \in [CfgBlocks -> SUBSET CfgBlocks]
    BY <1>1
  <2>. QED
    BY <1>1, <1>2, <1>3, <1>4, <2>1, GraphStays, OrderStays, TreeStays DEF FrontierTyped
<1>6. PredsIn(1)' = {} /\ todo' = {}
  <2>1. PredsIn(1) = {}
    BY <1>2, CfgTypes
  <2>. QED
    BY <1>1, <2>1, GraphStays DEF Consider
<1>7. Running'
  <2>1. PredsIn(at)' = {}
    BY <1>4, <1>6 DEF PredsIn
  <2>. QED
    BY <1>1, <1>2, <1>6, <2>1 DEF Running
<1>8. Frontiers'
  <2>1. \A b \in CfgBlocks' : ~(b < at')
    BY <1>1, <1>4, GraphStays
  <2>2. \A a \in CfgBlocks' : frontier'[a] = {}
    BY <1>1, GraphStays
  <2>. QED
    BY <1>1, <1>2, <1>7, <2>1, <2>2 DEF Frontiers
<1>. QED
  BY <1>1, <1>5, <1>8 DEF DomInv, FrontiersInv

LEMMA DomNextInv ==
  ASSUME DomInv, DomNext
  PROVE  DomInv'
<1>1. CASE Descend
  <2>1. phase = "walk" /\ WalkTyped /\ Walked
    BY <1>1 DEF Descend, DomInv
  <2>2. WalkTyped' /\ Walked'
    BY <1>1, <2>1, DescendStep
  <2>. QED
    BY <1>1, <2>1, <2>2, GraphStays DEF Descend, DomInv, Untouched
<1>2. CASE Leave
  <2>1. phase = "walk" /\ WalkTyped /\ Walked
    BY <1>2 DEF Leave, DomInv
  <2>2. WalkTyped' /\ Walked'
    BY <1>2, <2>1, LeaveStep
  <2>. QED
    BY <1>2, <2>1, <2>2, GraphStays DEF Leave, DomInv, Untouched
<1>3. CASE StartRounds
  BY <1>3, StartRoundsStep
<1>4. CASE LookAtPred \/ Climb \/ Met \/ SetIdom \/ NextPass
  <2>1. /\ phase = "rounds" /\ RoundsInv /\ frontier = [b \in CfgBlocks |-> {}]
        /\ UNCHANGED <<cfg, phase, frontier>>
    BY <1>4 DEF LookAtPred, Climb, Met, SetIdom, NextPass, Rounding, DomInv
  <2>2. CASE NextPass
    <3>1. /\ cfg \in Cfgs /\ IdomTyped /\ PostOrdered /\ Climbing /\ runner = 0
      BY <2>1, <2>2 DEF NextPass, RoundsInv, RoundTyped, Rounds
    <3>2. RoundsInv'
      BY <2>2, <3>1, RoundStarts DEF NextPass
    <3>. QED
      BY <2>1, <3>2, GraphStays DEF DomInv
  <2>3. CASE ~ NextPass
    <3>1. RoundsInv'
      BY <1>4, <2>1, <2>3, LookAtPredStep, ClimbStep, MetStep, SetIdomStep
    <3>. QED
      BY <2>1, <3>1, GraphStays DEF DomInv
  <2>. QED
    BY <2>2, <2>3
<1>5. CASE StartFrontiers
  BY <1>5, StartFrontiersStep
<1>6. CASE StartRunner \/ RunUp \/ NextBlock
  <2>1. phase = "frontiers" /\ FrontiersInv /\ UNCHANGED phase
    BY <1>6 DEF StartRunner, RunUp, NextBlock, DomInv
  <2>2. FrontiersInv'
    BY <1>6, <2>1, StartRunnerStep, RunUpStep, NextBlockStep
  <2>. QED
    BY <2>1, <2>2 DEF DomInv
<1>. QED
  BY <1>1, <1>2, <1>3, <1>4, <1>5, <1>6 DEF DomNext

LEMMA DomStutterInv ==
  ASSUME DomInv, UNCHANGED domVars
  PROVE  DomInv'
<1>1. CASE phase = "walk"
  <2>1. WalkTyped /\ Walked /\ Untouched /\ frontier = [b \in CfgBlocks |-> {}]
    BY <1>1 DEF DomInv
  <2>2. CfgBlocks' = CfgBlocks /\ Seen' = Seen
    BY DEF domVars, CfgBlocks, Seen
  <2>3. WalkTyped' /\ Untouched' /\ frontier' = [b \in CfgBlocks' |-> {}]
    BY <2>1, <2>2 DEF domVars, WalkTyped, Untouched
  <2>4. Walked'
    BY <2>1, <2>2 DEF domVars, Walked
  <2>. QED
    BY <1>1, <2>3, <2>4 DEF DomInv, domVars
<1>2. CASE phase = "rounds"
  <2>1. RoundsInv /\ frontier = [b \in CfgBlocks |-> {}]
    BY <1>2 DEF DomInv
  <2>2. RoundsInv'
    BY <2>1, GraphStays, OrderStays, TreeStays, ClimbingStays DEF domVars, RoundsInv, RoundTyped, Rounds, Meeting, Above
  <2>. QED
    BY <1>2, <2>1, <2>2, GraphStays DEF DomInv, domVars
<1>3. CASE phase = "frontiers"
  BY <1>3, GraphStays, OrderStays, TreeStays
    DEF DomInv, domVars, FrontiersInv, FrontierTyped, Frontiers, Running, InFrontier
<1>. QED
  BY <1>1, <1>2, <1>3 DEF DomInv

\* The invariant of the three phases.
THEOREM DominanceInvariant == DomSpec => []DomInv
<1>1. DomInv /\ [DomNext]_domVars => DomInv'
  BY DomNextInv, DomStutterInv
<1>. QED
  BY DomInitInv, <1>1, PTL DEF DomSpec

\* Dominators and frontiers are exact when they are returned, on every graph and
\* in whatever order edges are visited.
THEOREM DominatorsAreExact == DomSpec => []DominanceExact
<1>1. ASSUME DomInv PROVE DominanceExact
  <2>. SUFFICES ASSUME phase = "frontiers" PROVE DominanceExact
    BY DEF DominanceExact
  <2>1. FrontierTyped /\ Frontiers /\ ExactIdom
    BY <1>1 DEF DomInv, FrontiersInv, FrontierTyped
  <2>2. CfgBlocks = 1 .. Len(cfg) /\ Len(cfg) \in Nat /\ at \in 1 .. Len(cfg) + 1
    BY <2>1, CfgTypes DEF FrontierTyped
  <2>3. ASSUME at \notin CfgBlocks PROVE \A a, b \in CfgBlocks : b \in frontier[a] <=> InFrontier(a, b)
    <3>1. \A b \in CfgBlocks : b < at
      BY <2>2, <2>3
    <3>. QED
      BY <2>1, <3>1 DEF Frontiers
  <2>. QED
    BY <2>1, <2>3 DEF DominanceExact, ExactIdom, InFrontier, StrictlyDominates
<1>. QED
  BY <1>1, DominanceInvariant, PTL
-----------------------------------------------------------------------------
\* SSA form. What arrives at a block is made above it, or there is a phi.

\* What to_ssa has when it begins to place phis.
Found == /\ cfg \in Cfgs /\ IdomTyped /\ PostOrdered /\ ExactIdom
         /\ frontier \in [CfgBlocks -> SUBSET CfgBlocks]
         /\ \A a, b \in CfgBlocks : b \in frontier[a] <=> InFrontier(a, b)
TextTyped == text \in [CfgBlocks -> Seq({"use", "def"})] /\ phis \subseteq CfgBlocks

LEMMA FoundAtLast ==
  ASSUME DomInv, phase = "frontiers", at \notin CfgBlocks
  PROVE  Found
<1>1. FrontierTyped /\ Frontiers /\ ExactIdom
  BY DEF DomInv, FrontiersInv, FrontierTyped
<1>2. CfgBlocks = 1 .. Len(cfg) /\ Len(cfg) \in Nat /\ at \in 1 .. Len(cfg) + 1
  BY <1>1, CfgTypes DEF FrontierTyped
<1>3. \A b \in CfgBlocks : b < at
  BY <1>2
<1>. QED
  BY <1>1, <1>3 DEF Frontiers, FrontierTyped, Found

\* A version that arrives where no phi is was made in a strict dominator: where
\* it leaves what its maker dominates, it meets the frontier, and so a phi.
LEMMA ArrivesFromAbove ==
  ASSUME Found, TextTyped, NEW c \in CfgBlocks, frontier[c] \subseteq phis,
         NEW b, Arrives(c, b), c \in Makers
  PROVE  b \in phis \/ StrictlyDominates(c, b)
<1>. DEFINE T == {z \in CfgBlocks : z \in phis \/ StrictlyDominates(c, z)}
<1>1. ASSUME NEW p \in CfgBlocks, Dominates(c, p), NEW z \in cfg[p] PROVE z \in T
  <2>1. z \in CfgBlocks /\ p \in PredsIn(z)
    BY <1>1, CfgTypes DEF Found, PredsIn
  <2>2. CASE StrictlyDominates(c, z)
    BY <2>1, <2>2
  <2>3. CASE ~ StrictlyDominates(c, z)
    <3>1. InFrontier(c, z)
      BY <1>1, <2>1, <2>3 DEF InFrontier, StrictlyDominates
    <3>2. z \in frontier[c]
      BY <2>1, <3>1 DEF Found
    <3>. QED
      BY <2>1, <3>2
  <2>. QED
    BY <2>2, <2>3
<1>2. cfg[c] \subseteq T
  BY <1>1, DominatesItself
<1>3. ASSUME NEW z \in T \cap (CfgBlocks \ Makers) PROVE cfg[z] \subseteq T
  <2>1. z \in CfgBlocks /\ Dominates(c, z)
    BY <1>3 DEF Makers, StrictlyDominates
  <2>. QED
    BY <1>1, <2>1
<1>4. T \in SUBSET DOMAIN cfg
  BY DEF CfgBlocks
<1>5. Spread(cfg, cfg[c], CfgBlocks \ Makers) \subseteq T
  <2>. HIDE DEF T
  <2>. QED
    BY <1>2, <1>3, <1>4, SpreadIsLeast
<1>. QED
  BY <1>5 DEF Arrives

\* It does not come past a maker that can be avoided on the way to its own.
LEMMA ArrivesWithout ==
  ASSUME cfg \in Cfgs, NEW d \in Makers, NEW c \in Free(d), NEW b, Arrives(c, b), b # d
  PROVE  b \in Free(d)
<1>. DEFINE T == (Free(d) \cup {d}) \cap CfgBlocks
<1>0. c \in CfgBlocks
  BY DEF Free, Spread, CfgBlocks
<1>1. ASSUME NEW z \in Free(d) PROVE cfg[z] \subseteq T
  <2>1. z \in CfgBlocks
    BY DEF Free, Spread, CfgBlocks
  <2>2. cfg[z] \subseteq CfgBlocks
    BY <2>1, CfgTypes
  <2>. QED
    BY <2>2, FreeGoesOn
<1>2. cfg[c] \subseteq T
  BY <1>1
<1>3. \A z \in T \cap (CfgBlocks \ Makers) : cfg[z] \subseteq T
  BY <1>1
<1>4. T \in SUBSET DOMAIN cfg
  BY DEF CfgBlocks
<1>5. Spread(cfg, cfg[c], CfgBlocks \ Makers) \subseteq T
  <2>. HIDE DEF T
  <2>. QED
    BY <1>2, <1>3, <1>4, SpreadIsLeast
<1>. QED
  BY <1>5 DEF Arrives

LEMMA UnmadeWithout ==
  ASSUME cfg \in Cfgs, NEW d \in Makers, NEW b, Unmade(b), b # d
  PROVE  b \in Free(d)
<1>. DEFINE T == (Free(d) \cup {d}) \cap CfgBlocks
<1>1. ASSUME NEW z \in Free(d) PROVE cfg[z] \subseteq T
  <2>1. z \in CfgBlocks
    BY DEF Free, Spread, CfgBlocks
  <2>2. cfg[z] \subseteq CfgBlocks
    BY <2>1, CfgTypes
  <2>. QED
    BY <2>2, FreeGoesOn
<1>2. {1} \subseteq T
  BY FreeStarts, CfgTypes
<1>3. \A z \in T \cap (CfgBlocks \ Makers) : cfg[z] \subseteq T
  BY <1>1
<1>4. T \in SUBSET DOMAIN cfg
  BY DEF CfgBlocks
<1>5. Spread(cfg, {1}, CfgBlocks \ Makers) \subseteq T
  <2>. HIDE DEF T
  <2>. QED
    BY <1>2, <1>3, <1>4, SpreadIsLeast
<1>. QED
  BY <1>5 DEF Unmade

\* Some version, or none, comes to every block.
LEMMA SomethingArrives ==
  ASSUME cfg \in Cfgs, NEW b \in CfgBlocks
  PROVE  Unmade(b) \/ \E c \in Makers : Arrives(c, b)
<1>. DEFINE T == {z \in CfgBlocks : Unmade(z) \/ \E c \in Makers : Arrives(c, z)}
<1>1. 1 \in T
  BY CfgTypes, SpreadStarts DEF Unmade, CfgBlocks
<1>2. ASSUME NEW z \in T, NEW s \in cfg[z] PROVE s \in T
  <2>1. z \in CfgBlocks /\ s \in CfgBlocks
    BY <1>2, CfgTypes
  <2>2. CASE z \in Makers
    <3>1. Arrives(z, s)
      BY <2>1, SpreadStarts DEF Arrives, CfgBlocks
    <3>. QED
      BY <2>1, <2>2, <3>1
  <2>3. CASE z \notin Makers /\ Unmade(z)
    <3>1. Unmade(s)
      BY <2>1, <2>3, SpreadGoesOn DEF Unmade, CfgBlocks
    <3>. QED
      BY <2>1, <3>1
  <2>4. ASSUME z \notin Makers, NEW c \in Makers, Arrives(c, z) PROVE s \in T
    <3>1. Arrives(c, s)
      BY <2>1, <2>4, SpreadGoesOn DEF Arrives, CfgBlocks
    <3>. QED
      BY <2>1, <3>1
  <2>. QED
    BY <1>2, <2>2, <2>3, <2>4
<1>3. T \in SUBSET DOMAIN cfg
  BY DEF CfgBlocks
<1>4. Spread(cfg, {1}, CfgBlocks) \subseteq T
  <2>. HIDE DEF T
  <2>. QED
    BY <1>1, <1>2, <1>3, SpreadIsLeast
<1>. QED
  BY <1>4, CfgTypes
-----------------------------------------------------------------------------
\* The version in force at a place, by the tree.

\* The maker closest above a block, and the version that holds at its start.
Nearest(d, b) == /\ d \in Makers /\ StrictlyDominates(d, b)
                 /\ \A e \in Makers : StrictlyDominates(e, b) => Dominates(e, d)
Inherits(b, w) == \/ \E d : Nearest(d, b) /\ w \in Newest(d, End(d))
                  \/ w = Unset /\ \A e \in Makers : ~ StrictlyDominates(e, b)
\* The version that holds at place i of a block.
InForce(b, i, w) == IF MadeBefore(b, i) # {} THEN w \in Newest(b, i) ELSE Inherits(b, w)

\* Phis are where they have to be; a variable that one block defines needs none.
PhisPlaced == IF Several THEN \A b \in Makers : frontier[b] \subseteq phis ELSE phis = {}

LEMMA TextTypes ==
  ASSUME TextTyped, NEW b \in CfgBlocks
  PROVE  /\ Len(text[b]) \in Nat /\ DOMAIN text[b] = 1 .. Len(text[b]) /\ End(b) = Len(text[b]) + 1
         /\ \A i \in 1 .. Len(text[b]) : text[b][i] \in {"use", "def"}
         /\ \A i \in Nat : MadeBefore(b, i) \subseteq Nat
<1>1. text[b] \in Seq({"use", "def"})
  BY DEF TextTyped
<1>2. \A i \in Nat : MadeBefore(b, i) \subseteq Nat
  BY DEF MadeBefore
<1>. QED
  BY <1>1, <1>2 DEF End

\* The newest version is one.
LEMMA NewestIsOne ==
  ASSUME TextTyped, NEW b \in CfgBlocks, NEW i \in Nat, NEW w \in Newest(b, i)
  PROVE  Newest(b, i) = {w}
<1>1. MadeBefore(b, i) \subseteq Nat
  BY TextTypes
<1>2. ASSUME NEW v \in Newest(b, i) PROVE v = w
  <2>1. PICK j \in MadeBefore(b, i) : w = <<b, j>> /\ \A m \in MadeBefore(b, i) : m <= j
    BY DEF Newest
  <2>2. PICK k \in MadeBefore(b, i) : v = <<b, k>> /\ \A m \in MadeBefore(b, i) : m <= k
    BY <1>2 DEF Newest
  <2>3. j \in Nat /\ k \in Nat /\ j <= k /\ k <= j
    BY <1>1, <2>1, <2>2
  <2>4. j = k
    BY <2>3
  <2>. QED
    BY <2>1, <2>2, <2>4
<1>. QED
  BY <1>2

\* A block has made a version by its end exactly if it is a maker.
LEMMA MakersMake ==
  ASSUME TextTyped, NEW b \in CfgBlocks
  PROVE  b \in Makers <=> MadeBefore(b, End(b)) # {}
<1>1. End(b) - 1 = Len(text[b]) /\ DOMAIN text[b] = 1 .. Len(text[b]) /\ Len(text[b]) \in Nat
  BY TextTypes
<1>2. MadeBefore(b, End(b)) = {j \in 0 .. Len(text[b]) : IF j = 0 THEN b \in phis ELSE text[b][j] = "def"}
  BY <1>1 DEF MadeBefore
<1>3. ASSUME b \in Makers PROVE MadeBefore(b, End(b)) # {}
  <2>1. CASE b \in phis
    <3>1. 0 \in MadeBefore(b, End(b))
      BY <1>1, <1>2, <2>1
    <3>. QED
      BY <3>1
  <2>2. CASE b \in Definers
    <3>1. PICK i \in 1 .. Len(text[b]) : text[b][i] = "def"
      BY <1>1, <2>2 DEF Definers, Defines
    <3>2. i \in MadeBefore(b, End(b))
      BY <1>1, <1>2, <3>1
    <3>. QED
      BY <3>2
  <2>. QED
    BY <1>3, <2>1, <2>2 DEF Makers
<1>4. ASSUME NEW j \in MadeBefore(b, End(b)) PROVE b \in Makers
  <2>1. j \in 0 .. Len(text[b]) /\ IF j = 0 THEN b \in phis ELSE text[b][j] = "def"
    BY <1>2, <1>4
  <2>2. CASE j = 0
    BY <2>1, <2>2 DEF Makers
  <2>3. CASE j # 0
    <3>1. j \in DOMAIN text[b] /\ text[b][j] = "def"
      BY <1>1, <2>1, <2>3
    <3>. QED
      BY <3>1 DEF Makers, Definers, Defines
  <2>. QED
    BY <2>2, <2>3
<1>. QED
  BY <1>3, <1>4

\* Of the versions from above only that of the nearest maker arrives.
LEMMA OnlyNearest ==
  ASSUME Found, NEW b \in CfgBlocks, NEW d \in CfgBlocks, Nearest(d, b),
         NEW c \in CfgBlocks, c \in Makers, StrictlyDominates(c, b), Arrives(c, b)
  PROVE  c = d
<1>. SUFFICES ASSUME c # d PROVE FALSE
  OBVIOUS
<1>1. Dominates(c, d)
  BY DEF Nearest
<1>2. ~ Dominates(d, c)
  BY <1>1, DominatesAntisymmetric DEF Found
<1>3. c \in Free(d) /\ d \in Makers /\ b # d
  BY <1>2 DEF Dominates, Nearest, StrictlyDominates
<1>4. b \in Free(d)
  BY <1>3, ArrivesWithout DEF Found
<1>. QED
  BY <1>4 DEF Nearest, StrictlyDominates, Dominates

\* What the tree says holds at a place is what every path says.
LEMMA HoldsIsExact ==
  ASSUME Found, TextTyped, PhisPlaced, Makers \subseteq CfgBlocks, NEW b \in CfgBlocks, NEW i \in Nat \ {0}, NEW w,
         InForce(b, i, w),
         Several \/ MadeBefore(b, i) # {} \/ \E d \in Definers \ {b} : Dominates(d, b)
  PROVE  Arriving(b, i) = {w}
<1>1. CASE MadeBefore(b, i) # {}
  <2>1. w \in Newest(b, i)
    BY <1>1 DEF InForce
  <2>. QED
    BY <1>1, <2>1, NewestIsOne DEF Arriving
<1>2. CASE MadeBefore(b, i) = {}
  <2>1. b \notin phis
    <3>1. 0 \in 0 .. (i - 1)
      OBVIOUS
    <3>. QED
      BY <1>2, <3>1 DEF MadeBefore
  <2>2. ASSUME NEW c \in Makers, Arrives(c, b) PROVE StrictlyDominates(c, b)
    <3>1. CASE Several
      <4>1. frontier[c] \subseteq phis
        BY <3>1 DEF PhisPlaced
      <4>. QED
        BY <2>1, <2>2, <4>1, ArrivesFromAbove
    <3>2. CASE ~ Several
      <4>1. PICK d \in Definers \ {b} : Dominates(d, b)
        BY <1>2, <3>2
      <4>2. c \in Definers
        BY <3>2 DEF PhisPlaced, Makers
      <4>3. c = d
        BY <3>2, <4>1, <4>2 DEF Several
      <4>. QED
        BY <4>1, <4>3 DEF StrictlyDominates
    <3>. QED
      BY <3>1, <3>2
  <2>3. Arriving(b, i) = (UNION {Newest(c, End(c)) : c \in {d \in Makers : Arrives(d, b)}})
                         \cup (IF Unmade(b) THEN {Unset} ELSE {})
    BY <1>2 DEF Arriving
  <2>4. Inherits(b, w)
    BY <1>2 DEF InForce
  <2>5. CASE w = Unset /\ \A e \in Makers : ~ StrictlyDominates(e, b)
    <3>1. {d \in Makers : Arrives(d, b)} = {}
      BY <2>2, <2>5
    <3>2. Unmade(b)
      BY <3>1, SomethingArrives DEF Found
    <3>3. PICK S : S = {d \in Makers : Arrives(d, b)}
      OBVIOUS
    <3>4. UNION {Newest(c, End(c)) : c \in S} = {}
      BY <3>1, <3>3
    <3>5. Arriving(b, i) = (UNION {Newest(c, End(c)) : c \in S}) \cup {Unset}
      BY <2>3, <3>2, <3>3
    <3>6. Arriving(b, i) = {} \cup {Unset}
      BY <3>4, <3>5, Zenon
    <3>. QED
      BY <2>5, <3>6
  <2>6. ASSUME NEW d, Nearest(d, b), w \in Newest(d, End(d)) PROVE Arriving(b, i) = {w}
    <3>1. d \in Makers /\ d \in CfgBlocks /\ StrictlyDominates(d, b)
      BY <2>6 DEF Nearest
    <3>2. ~ Unmade(b)
      BY <3>1, UnmadeWithout DEF Found, StrictlyDominates, Dominates
    <3>3. \A c \in Makers : Arrives(c, b) => c = d
      BY <2>2, <2>6, <3>1, OnlyNearest
    <3>4. Arrives(d, b)
      BY <3>2, <3>3, SomethingArrives DEF Found
    <3>5. {c \in Makers : Arrives(c, b)} = {d}
      BY <3>1, <3>3, <3>4
    <3>6. Newest(d, End(d)) = {w}
      <4>1. End(d) \in Nat
        BY <3>1, TextTypes
      <4>. QED
        BY <2>6, <3>1, <4>1, NewestIsOne
    <3>7. Arriving(b, i) = UNION {Newest(c, End(c)) : c \in {d}}
      BY <2>3, <3>2, <3>5
    <3>8. {Newest(c, End(c)) : c \in {d}} = {{w}}
      BY <3>6
    <3>. QED
      BY <3>7, <3>8
  <2>. QED
    BY <2>4, <2>5, <2>6 DEF Inherits
<1>. QED
  BY <1>1, <1>2

\* A child begins with what holds at the end of its immediate dominator.
LEMMA ChildInherits ==
  ASSUME Found, TextTyped, Makers \subseteq CfgBlocks, NEW c \in CfgBlocks \ {1}, NEW b \in CfgBlocks, idom[c] = b,
         NEW w, InForce(b, End(b), w)
  PROVE  Inherits(c, w)
<1>1. \A e \in CfgBlocks : Dominates(e, b) <=> StrictlyDominates(e, c)
  BY DEF Found, ExactIdom
<1>2. CASE b \in Makers
  <2>1. w \in Newest(b, End(b))
    BY <1>2, MakersMake DEF InForce
  <2>2. Nearest(b, c)
    BY <1>1, <1>2, DominatesItself DEF Nearest
  <2>. QED
    BY <2>1, <2>2 DEF Inherits
<1>3. CASE b \notin Makers
  <2>1. Inherits(b, w)
    BY <1>3, MakersMake DEF InForce
  <2>2. \A e \in Makers : StrictlyDominates(e, c) <=> StrictlyDominates(e, b)
    BY <1>1, <1>3 DEF StrictlyDominates
  <2>3. ASSUME NEW d, Nearest(d, b) PROVE Nearest(d, c)
    BY <2>2, <2>3 DEF Nearest
  <2>. QED
    BY <2>1, <2>2, <2>3 DEF Inherits
<1>. QED
  BY <1>2, <1>3

LEMMA EntryInherits ==
  ASSUME cfg \in Cfgs
  PROVE  Inherits(1, Unset)
BY DominatesEntry DEF Inherits, StrictlyDominates

\* Past a place, what was made there holds, or what held before.
LEMMA HoldsOn ==
  ASSUME TextTyped, NEW b \in CfgBlocks, NEW i \in Nat, NEW w, InForce(b, i, w),
         ~ (IF i = 0 THEN b \in phis ELSE text[b][i] = "def")
  PROVE  InForce(b, i + 1, w)
<1>1. MadeBefore(b, i + 1) = MadeBefore(b, i)
  <2>1. 0 .. ((i + 1) - 1) = (0 .. (i - 1)) \cup {i}
    OBVIOUS
  <2>. QED
    BY <2>1 DEF MadeBefore
<1>. QED
  BY <1>1 DEF InForce, Newest

LEMMA HoldsNew ==
  ASSUME TextTyped, NEW b \in CfgBlocks, NEW i \in Nat, IF i = 0 THEN b \in phis ELSE text[b][i] = "def"
  PROVE  InForce(b, i + 1, <<b, i>>)
<1>1. MadeBefore(b, i + 1) \subseteq 0 .. i /\ i \in MadeBefore(b, i + 1)
  BY DEF MadeBefore
<1>2. \A m \in MadeBefore(b, i + 1) : m <= i
  BY <1>1
<1>3. <<b, i>> \in Newest(b, i + 1)
  BY <1>1, <1>2 DEF Newest
<1>. QED
  BY <1>1, <1>3 DEF InForce
-----------------------------------------------------------------------------
\* The walk down the tree: a call goes on by a place.

\* The calls of rename: each has come to some place of its block, and has on the
\* stack, from its base, the versions it has pushed.
Calls   == [b : CfgBlocks, at : Nat, pushed : Nat, rest : SUBSET CfgBlocks]
Mark(c) == IF c.at > End(c.b) THEN End(c.b) ELSE c.at
Held(h) == IF h = 0 THEN Unset ELSE stack[h]

CallsTyped ==
  /\ calls \in Seq(Calls) /\ stack \in Seq(Nat \X Nat)
  /\ \A k \in DOMAIN calls : /\ calls[k].at <= End(calls[k].b) + 1
                             /\ k < Len(calls) => calls[k].at = End(calls[k].b) + 1
                             /\ \A c \in calls[k].rest : c # 1 /\ idom[c] = calls[k].b

\* What is on the stack when a call is on top again is the version in force there.
Based(base) ==
  /\ base \in [DOMAIN calls -> Nat]
  /\ \A j, k \in DOMAIN calls : j < k => base[j] + calls[j].pushed <= base[k]
  /\ \A k \in DOMAIN calls : /\ k + 1 \in DOMAIN calls => base[k + 1] = base[k] + calls[k].pushed
                             /\ k = Len(calls) => Len(stack) = base[k] + calls[k].pushed
                             /\ InForce(calls[k].b, Mark(calls[k]), Held(base[k] + calls[k].pushed))

LEMMA TextStays ==
  ASSUME UNCHANGED <<domVars, text, phis>>
  PROVE  /\ CfgBlocks' = CfgBlocks /\ Makers' = Makers /\ Several' = Several /\ TextTyped' = TextTyped
         /\ Definers' = Definers
         /\ \A b : End(b)' = End(b)
         /\ \A b, i : ReadsAt(b, i)' = ReadsAt(b, i)
         /\ \A b, i : MadeBefore(b, i)' = MadeBefore(b, i)
         /\ \A b, i : Arriving(b, i)' = Arriving(b, i)
         /\ \A b, i, w : InForce(b, i, w)' = InForce(b, i, w)
         /\ Scoped' = Scoped /\ PhisPlaced' = PhisPlaced
<1>1. /\ cfg' = cfg /\ idom' = idom /\ frontier' = frontier /\ text' = text /\ phis' = phis /\ CfgBlocks' = CfgBlocks
  BY DEF domVars, CfgBlocks
<1>2. Definers' = Definers /\ Several' = Several /\ Makers' = Makers /\ TextTyped' = TextTyped
  BY <1>1 DEF Definers, Defines, Several, Makers, TextTyped
<1>3. /\ \A b : End(b)' = End(b)
      /\ \A b, i : MadeBefore(b, i)' = MadeBefore(b, i)
      /\ \A b, i : ReadsAt(b, i)' = ReadsAt(b, i)
  BY <1>1 DEF End, MadeBefore, ReadsAt
<1>4. \A b, i : Newest(b, i)' = Newest(b, i)
  BY <1>3 DEF Newest
<1>5. \A a, b : Dominates(a, b)' = Dominates(a, b)
  BY <1>1 DEF Dominates, Free
<1>6. \A b, c : Unmade(b)' = Unmade(b) /\ Arrives(c, b)' = Arrives(c, b)
  BY <1>1, <1>2 DEF Unmade, Arrives
<1>7. \A b, i : Arriving(b, i)' = Arriving(b, i)
  BY <1>2, <1>3, <1>4, <1>6 DEF Arriving
<1>8. \A b, w : Inherits(b, w)' = Inherits(b, w)
  BY <1>2, <1>3, <1>4, <1>5 DEF Inherits, Nearest, StrictlyDominates
<1>9. \A b, i, w : InForce(b, i, w)' = InForce(b, i, w)
  BY <1>3, <1>4, <1>8 DEF InForce
<1>10. Scoped' = Scoped /\ PhisPlaced' = PhisPlaced
  BY <1>1, <1>2, <1>3, <1>5 DEF Scoped, PhisPlaced
<1>. QED
  BY <1>1, <1>2, <1>3, <1>7, <1>9, <1>10

\* The call on top.
LEMMA NowIs ==
  ASSUME CallsTyped, calls # <<>>
  PROVE  /\ Len(calls) \in Nat \ {0} /\ DOMAIN calls = 1 .. Len(calls) /\ Now = calls[Len(calls)]
         /\ Now \in Calls
<1>1. calls \in Seq(Calls)
  BY DEF CallsTyped
<1>2. \A q \in Seq(Calls) : q # <<>> => Len(q) \in Nat \ {0} /\ DOMAIN q = 1 .. Len(q) /\ q[Len(q)] \in Calls
  OBVIOUS
<1>. QED
  BY <1>1, <1>2 DEF Now, Last

LEMMA TopIsHeld ==
  ASSUME CallsTyped
  PROVE  Top = Held(Len(stack))
<1>1. stack \in Seq(Nat \X Nat)
  BY DEF CallsTyped
<1>2. stack = <<>> <=> Len(stack) = 0
  BY <1>1
<1>. QED
  BY <1>2 DEF Top, Held, Last

\* The call on top goes on.
LEMMA CallGoesOn ==
  ASSUME CallsTyped, NEW n \in Nat, GoOn(n)
  PROVE  /\ calls # <<>> /\ calls' \in Seq(Calls) /\ Len(calls') = Len(calls) /\ DOMAIN calls' = DOMAIN calls
         /\ \A k \in DOMAIN calls : calls'[k].b = calls[k].b /\ calls'[k].rest = calls[k].rest
         /\ \A k \in DOMAIN calls : k # Len(calls) => calls'[k] = calls[k]
         /\ calls'[Len(calls)].at = Now.at + 1 /\ calls'[Len(calls)].pushed = Now.pushed + n
<1>1. /\ calls # <<>>
      /\ calls' = [calls EXCEPT ![Len(calls)] =
                    [b |-> Now.b, at |-> Now.at + 1, pushed |-> Now.pushed + n, rest |-> Now.rest]]
  BY DEF GoOn
<1>2. /\ Len(calls) \in Nat \ {0} /\ DOMAIN calls = 1 .. Len(calls) /\ Now = calls[Len(calls)] /\ Now \in Calls
  BY <1>1, NowIs
<1>3. CfgBlocks' = CfgBlocks
  BY DEF GoOn, domVars, CfgBlocks
<1>4. PICK m : m = Len(calls)
  OBVIOUS
<1>5. PICK c : c = [b |-> Now.b, at |-> Now.at + 1, pushed |-> Now.pushed + n, rest |-> Now.rest]
  OBVIOUS
<1>6. c \in Calls
  BY <1>2, <1>5 DEF Calls
<1>7. calls' = [calls EXCEPT ![m] = c]
  BY <1>1, <1>4, <1>5
<1>8. calls \in Seq(Calls) /\ m \in 1 .. Len(calls)
  BY <1>2, <1>4 DEF CallsTyped
<1>9. calls' \in Seq(Calls) /\ Len(calls') = Len(calls) /\ DOMAIN calls' = DOMAIN calls
  <2>1. \A q \in Seq(Calls) : \A j \in 1 .. Len(q) : LET r == [q EXCEPT ![j] = c] IN
           r \in Seq(Calls) /\ Len(r) = Len(q) /\ DOMAIN r = DOMAIN q
    BY <1>6
  <2>. QED
    BY <1>7, <1>8, <2>1
<1>10. \A k \in DOMAIN calls : calls'[k] = IF k = m THEN c ELSE calls[k]
  BY <1>7, <1>8
<1>11. c.b = Now.b /\ c.rest = Now.rest /\ c.at = Now.at + 1 /\ c.pushed = Now.pushed + n
  BY <1>5
<1>. QED
  BY <1>1, <1>2, <1>4, <1>8, <1>9, <1>10, <1>11

\* So it does when it has pushed nothing and nothing is made here,
\* or has pushed what is made here.
LEMMA PlaceStep ==
  ASSUME Found, TextTyped, CallsTyped, NEW base, Based(base), NEW n \in {0, 1}, GoOn(n), Now.at <= End(Now.b),
         n = 0 => /\ stack' = stack
                  /\ Now.at = End(Now.b) \/ ~ (IF Now.at = 0 THEN Now.b \in phis ELSE text[Now.b][Now.at] = "def"),
         n = 1 => /\ Push /\ Now.at # End(Now.b)
                  /\ IF Now.at = 0 THEN Now.b \in phis ELSE text[Now.b][Now.at] = "def"
  PROVE  CallsTyped' /\ Based(base)'
<1>. DEFINE m == Len(calls)
<1>1. /\ calls # <<>> /\ calls' \in Seq(Calls) /\ Len(calls') = Len(calls) /\ DOMAIN calls' = DOMAIN calls
      /\ \A k \in DOMAIN calls : calls'[k].b = calls[k].b /\ calls'[k].rest = calls[k].rest
      /\ \A k \in DOMAIN calls : k # Len(calls) => calls'[k] = calls[k]
      /\ calls'[m].at = Now.at + 1 /\ calls'[m].pushed = Now.pushed + n
  BY CallGoesOn
<1>2. m \in Nat \ {0} /\ DOMAIN calls = 1 .. m /\ Now = calls[m] /\ Now \in Calls
  BY <1>1, NowIs
<1>3. UNCHANGED <<domVars, text, phis>> /\ idom' = idom
  BY DEF GoOn, domVars
<1>4. /\ \A b : End(b)' = End(b)
      /\ \A b, i, w : InForce(b, i, w)' = InForce(b, i, w)
      /\ Calls' = Calls
  BY <1>3, TextStays DEF Calls
<1>5. Now.b \in CfgBlocks /\ Now.at \in Nat /\ Now.pushed \in Nat /\ End(Now.b) \in Nat
  BY <1>2, TextTypes DEF Calls
<1>6. /\ stack \in Seq(Nat \X Nat) /\ stack' \in Seq(Nat \X Nat) /\ Len(stack) \in Nat
      /\ Len(stack') = Len(stack) + n /\ \A h \in 1 .. Len(stack) : stack'[h] = stack[h]
      /\ n = 1 => stack'[Len(stack) + 1] = <<Now.b, Now.at>>
  <2>1. stack \in Seq(Nat \X Nat) /\ Len(stack) \in Nat
    BY DEF CallsTyped
  <2>2. CASE n = 0
    BY <2>1, <2>2
  <2>3. CASE n = 1
    <3>1. CfgBlocks \subseteq Nat
      BY CfgTypes DEF Found
    <3>2. <<Now.b, Now.at>> \in Nat \X Nat
      BY <1>5, <3>1
    <3>3. stack' = Append(stack, <<Now.b, Now.at>>)
      BY <2>3 DEF Push
    <3>4. \A q \in Seq(Nat \X Nat) : \A e \in Nat \X Nat :
            /\ Append(q, e) \in Seq(Nat \X Nat) /\ Len(Append(q, e)) = Len(q) + 1
            /\ \A h \in 1 .. Len(q) : Append(q, e)[h] = q[h]
            /\ Append(q, e)[Len(q) + 1] = e
      OBVIOUS
    <3>. QED
      BY <2>1, <2>3, <3>2, <3>3, <3>4
  <2>. QED
    BY <2>2, <2>3
<1>7. CallsTyped'
  <2>1. ASSUME NEW k \in DOMAIN calls
        PROVE  /\ calls'[k].at <= End(calls[k].b) + 1
               /\ k < m => calls'[k].at = End(calls[k].b) + 1
               /\ \A c \in calls[k].rest : c # 1 /\ idom[c] = calls[k].b
    <3>1. CASE k = m
      BY <1>1, <1>2, <1>5, <2>1, <3>1 DEF CallsTyped
    <3>2. CASE k # m
      BY <1>1, <1>2, <2>1, <3>2 DEF CallsTyped
    <3>. QED
      BY <3>1, <3>2
  <2>. QED
    BY <1>1, <1>3, <1>4, <1>6, <2>1 DEF CallsTyped
<1>8. Based(base)'
  <2>1. /\ base \in [DOMAIN calls -> Nat]
        /\ \A j, k \in DOMAIN calls : j < k => base[j] + calls[j].pushed <= base[k]
    BY DEF Based
  <2>2. \A j, k \in DOMAIN calls : j < k => base[j] + calls'[j].pushed <= base[k]
    BY <1>1, <1>2, <2>1
  <2>3. ASSUME NEW k \in DOMAIN calls
        PROVE  /\ k + 1 \in DOMAIN calls => base[k + 1] = base[k] + calls'[k].pushed
               /\ k = m => Len(stack') = base[k] + calls'[k].pushed
               /\ InForce(calls[k].b, Mark(calls[k])', Held(base[k] + calls[k].pushed)')
    <3>1. CASE k # m
      <4>1. calls'[k] = calls[k] /\ k + 1 \in DOMAIN calls /\ base[k + 1] = base[k] + calls[k].pushed /\ k < m
        BY <1>1, <1>2, <2>3, <3>1 DEF Based
      <4>2. Mark(calls[k])' = Mark(calls[k])
        BY <1>4, <4>1 DEF Mark
      <4>3. base[k] + calls[k].pushed \in Nat /\ base[k] + calls[k].pushed <= Len(stack)
        <5>1. calls[k].pushed \in Nat /\ base[m] \in Nat /\ base[k] \in Nat
          <6>1. calls[k] \in Calls
            BY <1>2, <2>3 DEF CallsTyped
          <6>. QED
            BY <1>2, <2>1, <2>3, <6>1 DEF Calls
        <5>2. base[k] + calls[k].pushed <= base[m] /\ Len(stack) = base[m] + Now.pushed
          BY <1>2, <2>1, <2>3, <4>1 DEF Based
        <5>3. base[k] + calls[k].pushed \in Nat
          BY <5>1
        <5>4. base[m] <= Len(stack)
          BY <1>5, <5>1, <5>2
        <5>5. \A u, v, w \in Nat : u <= v /\ v <= w => u <= w
          OBVIOUS
        <5>. QED
          BY <1>6, <5>1, <5>2, <5>3, <5>4, <5>5
      <4>4. Held(base[k] + calls[k].pushed)' = Held(base[k] + calls[k].pushed)
        <5>1. PICK h \in Nat : h = base[k] + calls[k].pushed /\ h <= Len(stack)
          BY <4>3
        <5>2. (base[k] + calls[k].pushed)' = h
          BY <4>1, <5>1
        <5>3. h = 0 \/ stack'[h] = stack[h]
          <6>1. h = 0 \/ h \in 1 .. Len(stack)
            BY <1>6, <5>1
          <6>. QED
            BY <1>6, <6>1
        <5>. QED
          BY <5>1, <5>2, <5>3 DEF Held
      <4>. QED
        BY <2>3, <3>1, <4>1, <4>2, <4>4 DEF Based
    <3>2. CASE k = m
      <4>1. /\ ~ (k + 1 \in DOMAIN calls) /\ base[k] \in Nat
            /\ Len(stack) = base[k] + Now.pushed /\ Len(stack') = base[k] + calls'[k].pushed
        <5>1. calls'[k].pushed = Now.pushed + n
          BY <1>1, <3>2
        <5>2. base[k] \in Nat /\ ~ (k + 1 \in DOMAIN calls)
          BY <1>2, <2>1, <2>3, <3>2
        <5>3. Len(stack) = base[k] + Now.pushed
          BY <1>2, <2>3, <3>2 DEF Based
        <5>. QED
          BY <1>5, <1>6, <5>1, <5>2, <5>3
      <4>2. InForce(Now.b, Mark(Now), Held(Len(stack)))
        BY <1>2, <2>3, <3>2, <4>1 DEF Based
      <4>3. calls[k].b = Now.b /\ Mark(Now) = Now.at
        BY <1>2, <1>5, <3>2 DEF Mark
      <4>4. CASE n = 0 /\ Now.at = End(Now.b)
        <5>1. Mark(calls[k])' = Mark(Now)
          BY <1>1, <1>2, <1>4, <1>5, <3>2, <4>4 DEF Mark
        <5>2. Held(base[k] + calls[k].pushed)' = Held(Len(stack))
          BY <1>1, <1>6, <4>1, <4>4 DEF Held
        <5>. QED
          BY <4>1, <4>2, <4>3, <5>1, <5>2
      <4>5. CASE Now.at # End(Now.b)
        <5>1. Mark(calls[k])' = Now.at + 1
          BY <1>1, <1>2, <1>4, <1>5, <3>2, <4>5 DEF Mark
        <5>2. CASE n = 0
          <6>1. Held(base[k] + calls[k].pushed)' = Held(Len(stack))
            BY <1>1, <1>6, <4>1, <5>2 DEF Held
          <6>2. InForce(Now.b, Now.at + 1, Held(Len(stack)))
            BY <1>5, <4>2, <4>3, <4>5, <5>2, HoldsOn
          <6>. QED
            BY <4>1, <4>3, <5>1, <6>1, <6>2
        <5>3. CASE n = 1
          <6>1. Held(base[k] + calls[k].pushed)' = <<Now.b, Now.at>>
            BY <1>6, <4>1, <5>3 DEF Held
          <6>2. InForce(Now.b, Now.at + 1, <<Now.b, Now.at>>)
            BY <1>5, <5>3, HoldsNew
          <6>. QED
            BY <4>1, <4>3, <5>1, <6>1, <6>2
        <5>. QED
          BY <5>2, <5>3
      <4>. QED
        BY <4>4, <4>5
    <3>. QED
      BY <3>1, <3>2
  <2>. QED
    BY <1>1, <1>4, <2>1, <2>2, <2>3 DEF Based
<1>. QED
  BY <1>7, <1>8
-----------------------------------------------------------------------------
\* A call begins, and a call returns.

\* Where a call begins.
LEMMA RenamingTyped ==
  ASSUME NEW c \in CfgBlocks
  PROVE  /\ Renaming(c) \in Calls /\ Renaming(c).b = c /\ Renaming(c).at = 0 /\ Renaming(c).pushed = 0
         /\ \A d \in Renaming(c).rest : d # 1 /\ idom[d] = c
         /\ \A d \in CfgBlocks \ {1} : idom[d] = c => d \in Renaming(c).rest
BY DEF Renaming, Calls

LEMMA HoldsAtStart ==
  ASSUME TextTyped, NEW c \in CfgBlocks, NEW w, Inherits(c, w)
  PROVE  InForce(c, 0, w) /\ Mark(Renaming(c)) = 0
<1>1. MadeBefore(c, 0) = {}
  BY DEF MadeBefore
<1>2. ~ (0 > End(c))
  BY TextTypes
<1>. QED
  BY <1>1, <1>2, RenamingTyped DEF InForce, Mark

\* A call under way has the stack below it to itself.
LEMMA StackBelow ==
  ASSUME CallsTyped, NEW base, Based(base), NEW k \in DOMAIN calls
  PROVE  /\ Len(calls) \in Nat \ {0} /\ k \in 1 .. Len(calls) /\ Len(calls) \in DOMAIN calls /\ calls[k] \in Calls
         /\ base[k] \in Nat /\ calls[k].pushed \in Nat /\ Len(stack) \in Nat
         /\ base[k] + calls[k].pushed <= Len(stack)
         /\ k # Len(calls) => base[k] + calls[k].pushed <= base[Len(calls)]
<1>1. calls \in Seq(Calls) /\ Len(stack) \in Nat
  BY DEF CallsTyped
<1>2. Len(calls) \in Nat \ {0} /\ k \in 1 .. Len(calls) /\ Len(calls) \in DOMAIN calls /\ calls[k] \in Calls
      /\ calls[Len(calls)] \in Calls
  BY <1>1
<1>3. base \in [DOMAIN calls -> Nat]
  BY DEF Based
<1>4. calls[k].pushed \in Nat /\ calls[Len(calls)].pushed \in Nat
  BY <1>2 DEF Calls
<1>5. Len(stack) = base[Len(calls)] + calls[Len(calls)].pushed
  BY <1>2 DEF Based
<1>6. k # Len(calls) => base[k] + calls[k].pushed <= base[Len(calls)]
  <2>1. k # Len(calls) => k < Len(calls)
    BY <1>2
  <2>. QED
    BY <1>2, <2>1 DEF Based
<1>. QED
  BY <1>1, <1>2, <1>3, <1>4, <1>5, <1>6

\* A child starts with the version in force at the end of its block.
LEMMA ChildStep ==
  ASSUME Found, TextTyped, CallsTyped, Makers \subseteq CfgBlocks, NEW base, Based(base), RenameChild
  PROVE  CallsTyped' /\ \E more : Based(more)'
<1>m. PICK m : m = Len(calls)
  OBVIOUS
<1>more. PICK more : more = [k \in 1 .. (m + 1) |-> IF k = m + 1 THEN Len(stack) ELSE base[k]]
  OBVIOUS
<1>1. /\ calls # <<>> /\ UNCHANGED <<domVars, text, phis>> /\ idom' = idom /\ stack' = stack
      /\ Now.at > End(Now.b)
  BY DEF RenameChild, Finishing, domVars
<1>2. m \in Nat \ {0} /\ DOMAIN calls = 1 .. m /\ Now = calls[m] /\ Now \in Calls
  BY <1>1, <1>m, NowIs
<1>3. PICK c \in Now.rest : calls' = Append([calls EXCEPT ![m].rest = @ \ {c}], Renaming(c))
  BY <1>m DEF RenameChild
<1>4. Now.b \in CfgBlocks /\ Now.at \in Nat /\ Now.pushed \in Nat /\ c \in CfgBlocks /\ End(Now.b) \in Nat
  BY <1>2, <1>3, TextTypes DEF Calls
<1>5. c # 1 /\ idom[c] = Now.b /\ Now.at = End(Now.b) + 1
  <2>1. m \in DOMAIN calls
    BY <1>2
  <2>2. c # 1 /\ idom[c] = Now.b /\ Now.at <= End(Now.b) + 1
    BY <1>2, <1>3, <2>1 DEF CallsTyped
  <2>. QED
    BY <1>1, <1>4, <2>2
<1>6. /\ calls' \in Seq(Calls) /\ DOMAIN calls' = 1 .. (m + 1) /\ Len(calls') = m + 1
      /\ calls'[m + 1] = Renaming(c)
      /\ \A k \in 1 .. m : /\ calls'[k].b = calls[k].b /\ calls'[k].at = calls[k].at
                           /\ calls'[k].pushed = calls[k].pushed
                           /\ calls'[k].rest = (IF k = m THEN calls[k].rest \ {c} ELSE calls[k].rest)
  <2>1. PICK d : d = [Now EXCEPT !.rest = @ \ {c}]
    OBVIOUS
  <2>2. d \in Calls /\ d.b = Now.b /\ d.at = Now.at /\ d.pushed = Now.pushed /\ d.rest = Now.rest \ {c}
    BY <1>2, <2>1 DEF Calls
  <2>3. PICK q : q = [calls EXCEPT ![m] = d]
    OBVIOUS
  <2>4. calls \in Seq(Calls) /\ m \in 1 .. Len(calls)
    BY <1>2 DEF CallsTyped
  <2>5. q = [calls EXCEPT ![m].rest = @ \ {c}]
    BY <1>2, <2>1, <2>3, <2>4
  <2>6. \A z \in Seq(Calls) : \A j \in 1 .. Len(z) : LET r == [z EXCEPT ![j] = d] IN
           r \in Seq(Calls) /\ Len(r) = Len(z)
    BY <2>2
  <2>7. q \in Seq(Calls) /\ Len(q) = m
    BY <1>m, <2>3, <2>4, <2>6
  <2>8. \A k \in 1 .. m : q[k] = IF k = m THEN d ELSE calls[k]
    BY <1>2, <2>3, <2>4
  <2>9. calls' = Append(q, Renaming(c)) /\ Renaming(c) \in Calls
    BY <1>3, <1>4, <2>5, RenamingTyped
  <2>10. \A z \in Seq(Calls) : \A e \in Calls :
            /\ Append(z, e) \in Seq(Calls) /\ Len(Append(z, e)) = Len(z) + 1
            /\ DOMAIN Append(z, e) = 1 .. (Len(z) + 1)
            /\ \A k \in 1 .. Len(z) : Append(z, e)[k] = z[k]
            /\ Append(z, e)[Len(z) + 1] = e
    OBVIOUS
  <2>11. /\ calls' \in Seq(Calls) /\ DOMAIN calls' = 1 .. (m + 1) /\ Len(calls') = m + 1
         /\ calls'[m + 1] = Renaming(c) /\ \A k \in 1 .. m : calls'[k] = q[k]
    BY <2>7, <2>9, <2>10
  <2>. QED
    BY <1>2, <2>2, <2>8, <2>11
<1>7. /\ \A b : End(b)' = End(b)
      /\ \A b, i, w : InForce(b, i, w)' = InForce(b, i, w)
      /\ Calls' = Calls
  BY <1>1, TextStays DEF Calls
<1>8. Renaming(c).b = c /\ Renaming(c).at = 0 /\ Renaming(c).pushed = 0
      /\ (\A d \in Renaming(c).rest : d # 1 /\ idom[d] = c)
  BY <1>4, RenamingTyped
<1>9. CallsTyped'
  <2>1. ASSUME NEW k \in 1 .. (m + 1)
        PROVE  /\ calls'[k].at <= End(calls'[k].b) + 1
               /\ k < m + 1 => calls'[k].at = End(calls'[k].b) + 1
               /\ \A d \in calls'[k].rest : d # 1 /\ idom[d] = calls'[k].b
    <3>1. CASE k = m + 1
      <4>1. 0 <= End(c) + 1
        BY <1>4, TextTypes
      <4>. QED
        BY <1>2, <1>6, <1>8, <3>1, <4>1
    <3>2. CASE k \in 1 .. m
      <4>1. /\ calls[k].at <= End(calls[k].b) + 1
            /\ k < m => calls[k].at = End(calls[k].b) + 1
            /\ \A d \in calls[k].rest : d # 1 /\ idom[d] = calls[k].b
        BY <1>m, <1>2, <3>2 DEF CallsTyped
      <4>2. calls[k].at = End(calls[k].b) + 1
        BY <1>2, <1>5, <3>2, <4>1
      <4>3. calls[k].at <= calls[k].at /\ calls'[k].rest \subseteq calls[k].rest
        BY <1>2, <1>4, <1>6, <3>2, <4>1, <4>2
      <4>. QED
        BY <1>6, <3>2, <4>1, <4>2, <4>3
    <3>. QED
      BY <1>2, <3>1, <3>2
  <2>2. stack' \in Seq(Nat \X Nat)
    BY <1>1 DEF CallsTyped
  <2>. QED
    BY <1>1, <1>6, <1>7, <2>1, <2>2 DEF CallsTyped
<1>10. \A k \in 1 .. m : /\ base[k] \in Nat /\ calls[k].pushed \in Nat /\ Len(stack) \in Nat
                         /\ base[k] + calls[k].pushed <= Len(stack)
  BY <1>2, StackBelow
<1>11. Len(stack) = base[m] + calls[m].pushed
  BY <1>2 DEF Based
<1>12. more \in [1 .. (m + 1) -> Nat] /\ more[m + 1] = Len(stack) /\ \A k \in 1 .. m : more[k] = base[k]
  BY <1>2, <1>10, <1>more
<1>13. \A j, k \in 1 .. (m + 1) : j < k => more[j] + calls'[j].pushed <= more[k]
  <2>1. SUFFICES ASSUME NEW j \in 1 .. (m + 1), NEW k \in 1 .. (m + 1), j < k PROVE more[j] + calls'[j].pushed <= more[k]
    OBVIOUS
  <2>0. j \in 1 .. m
    BY <1>2, <2>1
  <2>2. j \in 1 .. m /\ more[j] = base[j] /\ calls'[j].pushed = calls[j].pushed
    BY <1>6, <1>12, <2>0
  <2>3. CASE k = m + 1
    BY <1>10, <1>12, <2>2, <2>3
  <2>4. CASE k \in 1 .. m
    BY <1>2, <1>12, <2>1, <2>2, <2>4 DEF Based
  <2>. QED
    BY <1>2, <2>3, <2>4
<1>14. ASSUME NEW k \in 1 .. (m + 1)
       PROVE  /\ k + 1 \in 1 .. (m + 1) => more[k + 1] = more[k] + calls'[k].pushed
              /\ k = m + 1 => Len(stack) = more[k] + calls'[k].pushed
              /\ InForce(calls'[k].b, Mark(calls[k])', Held(more[k] + calls'[k].pushed))
  <2>1. CASE k = m + 1
    <3>1. more[k] + calls'[k].pushed = Len(stack)
      BY <1>6, <1>8, <1>10, <1>12, <2>1, <1>2
    <3>2. Mark(calls[k])' = Mark(Renaming(c))
      BY <1>6, <1>7, <2>1 DEF Mark
    <3>3. InForce(Now.b, End(Now.b), Held(Len(stack)))
      <4>1. Mark(Now) = End(Now.b)
        BY <1>1 DEF Mark
      <4>2. InForce(calls[m].b, Mark(calls[m]), Held(base[m] + calls[m].pushed))
        BY <1>2 DEF Based
      <4>. QED
        BY <1>2, <1>11, <4>1, <4>2
    <3>4. Inherits(c, Held(Len(stack)))
      BY <1>4, <1>5, <3>3, ChildInherits
    <3>5. InForce(c, Mark(Renaming(c)), Held(Len(stack)))
      BY <1>4, <3>4, HoldsAtStart
    <3>6. ~ (k + 1 \in 1 .. (m + 1))
      BY <1>2, <2>1
    <3>. QED
      BY <1>6, <1>8, <2>1, <3>1, <3>2, <3>5, <3>6
  <2>2. CASE k \in 1 .. m
    <3>1. Mark(calls[k])' = Mark(calls[k])
      BY <1>6, <1>7, <2>2 DEF Mark
    <3>2. more[k] = base[k] /\ calls'[k].pushed = calls[k].pushed /\ calls'[k].b = calls[k].b
      BY <1>6, <1>12, <2>2
    <3>3. InForce(calls[k].b, Mark(calls[k]), Held(base[k] + calls[k].pushed))
      BY <1>2, <2>2 DEF Based
    <3>4. k + 1 \in 1 .. (m + 1) => more[k + 1] = more[k] + calls[k].pushed
      <4>1. CASE k = m
        BY <1>2, <1>11, <1>12, <3>2, <4>1
      <4>2. CASE k # m
        <5>1. k + 1 \in 1 .. m
          BY <1>2, <2>2, <4>2
        <5>. QED
          BY <1>2, <1>12, <2>2, <3>2, <5>1 DEF Based
      <4>. QED
        BY <4>1, <4>2
    <3>5. k # m + 1
      BY <1>2, <2>2
    <3>. QED
      BY <3>1, <3>2, <3>3, <3>4, <3>5
  <2>. QED
    BY <1>2, <2>1, <2>2
<1>15. Based(more)'
  <2>1. \A h : Held(h)' = Held(h)
    BY <1>1 DEF Held
  <2>2. ASSUME NEW k \in 1 .. (m + 1)
        PROVE  /\ k + 1 \in 1 .. (m + 1) => more[k + 1] = more[k] + calls'[k].pushed
               /\ k = Len(calls') => Len(stack') = more[k] + calls'[k].pushed
               /\ InForce(calls[k].b, Mark(calls[k]), Held(more[k] + calls[k].pushed))'
    BY <1>1, <1>6, <1>7, <1>14, <2>1, <2>2
  <2>. QED
    BY <1>6, <1>12, <1>13, <2>2 DEF Based
<1>. QED
  BY <1>9, <1>15

\* When a call returns, what it pushed goes off the stack again.
LEMMA ReturnStep ==
  ASSUME Found, TextTyped, CallsTyped, NEW base, Based(base), ReturnRename
  PROVE  CallsTyped' /\ \E less : Based(less)'
<1>m. PICK m : m = Len(calls)
  OBVIOUS
<1>less. PICK less : less = [k \in 1 .. (m - 1) |-> base[k]]
  OBVIOUS
<1>1. /\ calls # <<>> /\ UNCHANGED <<domVars, text, phis>> /\ idom' = idom
      /\ stack' = SubSeq(stack, 1, Len(stack) - Now.pushed) /\ calls' = Front(calls)
  BY DEF ReturnRename, Finishing, domVars
<1>2. m \in Nat \ {0} /\ DOMAIN calls = 1 .. m /\ Now = calls[m] /\ Now \in Calls
  BY <1>1, <1>m, NowIs
<1>3. /\ calls' \in Seq(Calls) /\ DOMAIN calls' = 1 .. (m - 1) /\ Len(calls') = m - 1
      /\ \A k \in 1 .. (m - 1) : calls'[k] = calls[k]
  <2>1. calls \in Seq(Calls) /\ calls' = SubSeq(calls, 1, m - 1)
    BY <1>m, <1>1 DEF CallsTyped, Front
  <2>2. \A q \in Seq(Calls) : \A n \in 0 .. Len(q) :
          /\ SubSeq(q, 1, n) \in Seq(Calls) /\ Len(SubSeq(q, 1, n)) = n /\ DOMAIN SubSeq(q, 1, n) = 1 .. n
          /\ \A k \in 1 .. n : SubSeq(q, 1, n)[k] = q[k]
    OBVIOUS
  <2>3. m - 1 \in 0 .. Len(calls)
    BY <1>2
  <2>. QED
    BY <2>1, <2>2, <2>3
<1>4. /\ \A b : End(b)' = End(b)
      /\ \A b, i, w : InForce(b, i, w)' = InForce(b, i, w)
      /\ Calls' = Calls
  BY <1>1, TextStays DEF Calls
<1>5. /\ base[m] \in Nat /\ Len(stack) = base[m] + Now.pushed /\ Now.pushed \in Nat /\ Len(stack) \in Nat
  <2>1. m \in DOMAIN calls
    BY <1>2
  <2>2. base[m] \in Nat /\ calls[m].pushed \in Nat /\ Len(stack) \in Nat
    BY <2>1, StackBelow
  <2>. QED
    BY <1>2, <2>1, <2>2 DEF Based
<1>6. /\ stack' \in Seq(Nat \X Nat) /\ Len(stack') = base[m] /\ \A h \in 1 .. base[m] : stack'[h] = stack[h]
  <2>1. stack \in Seq(Nat \X Nat) /\ stack' = SubSeq(stack, 1, base[m])
    BY <1>1, <1>5 DEF CallsTyped
  <2>2. \A q \in Seq(Nat \X Nat) : \A n \in 0 .. Len(q) :
          /\ SubSeq(q, 1, n) \in Seq(Nat \X Nat) /\ Len(SubSeq(q, 1, n)) = n
          /\ \A k \in 1 .. n : SubSeq(q, 1, n)[k] = q[k]
    OBVIOUS
  <2>3. base[m] \in 0 .. Len(stack)
    BY <1>5
  <2>. QED
    BY <2>1, <2>2, <2>3
<1>7. CallsTyped'
  <2>1. ASSUME NEW k \in 1 .. (m - 1)
        PROVE  /\ calls'[k].at <= End(calls'[k].b) + 1
               /\ k < m - 1 => calls'[k].at = End(calls'[k].b) + 1
               /\ \A d \in calls'[k].rest : d # 1 /\ idom[d] = calls'[k].b
    <3>1. k \in DOMAIN calls /\ k < Len(calls) /\ calls'[k] = calls[k]
      BY <1>m, <1>2, <1>3
    <3>2. /\ calls[k].at <= End(calls[k].b) + 1 /\ calls[k].at = End(calls[k].b) + 1
          /\ \A d \in calls[k].rest : d # 1 /\ idom[d] = calls[k].b
      BY <3>1 DEF CallsTyped
    <3>. QED
      BY <3>1, <3>2
  <2>. QED
    BY <1>1, <1>3, <1>4, <1>6, <2>1 DEF CallsTyped
<1>8. less \in [1 .. (m - 1) -> Nat] /\ \A k \in 1 .. (m - 1) : less[k] = base[k]
  <2>1. base \in [1 .. m -> Nat]
    BY <1>2 DEF Based
  <2>. QED
    BY <1>2, <1>less, <2>1
<1>9. \A j, k \in 1 .. (m - 1) : j < k => less[j] + calls'[j].pushed <= less[k]
  <2>1. \A k \in 1 .. (m - 1) : k \in 1 .. m
    BY <1>2
  <2>2. \A j, k \in 1 .. m : j < k => base[j] + calls[j].pushed <= base[k]
    BY <1>2 DEF Based
  <2>. QED
    BY <1>3, <1>8, <2>1, <2>2
<1>10. ASSUME NEW k \in 1 .. (m - 1)
       PROVE  /\ k + 1 \in 1 .. (m - 1) => less[k + 1] = less[k] + calls'[k].pushed
              /\ k = m - 1 => base[m] = less[k] + calls'[k].pushed
              /\ InForce(calls[k].b, Mark(calls[k]), Held(less[k] + calls[k].pushed))'
  <2>1. k \in DOMAIN calls /\ k + 1 \in DOMAIN calls /\ calls'[k] = calls[k] /\ less[k] = base[k] /\ k # m
    BY <1>2, <1>3, <1>8
  <2>2. base[k + 1] = base[k] + calls[k].pushed
    BY <2>1 DEF Based
  <2>3. base[k] + calls[k].pushed \in Nat /\ base[k] + calls[k].pushed <= base[m]
    BY <1>m, <2>1, StackBelow
  <2>4. PICK h \in Nat : h = base[k] + calls[k].pushed /\ h <= base[m]
    BY <2>3
  <2>5. (less[k] + calls[k].pushed)' = h
    BY <2>1, <2>4
  <2>6. h = 0 \/ stack'[h] = stack[h]
    <3>1. h = 0 \/ h \in 1 .. base[m]
      BY <1>5, <2>4
    <3>. QED
      BY <1>6, <3>1
  <2>7. Held(less[k] + calls[k].pushed)' = Held(h)
    BY <2>5, <2>6 DEF Held
  <2>8. Mark(calls[k])' = Mark(calls[k])
    BY <1>4, <2>1 DEF Mark
  <2>9. InForce(calls[k].b, Mark(calls[k]), Held(h))
    BY <2>1, <2>4 DEF Based
  <2>10. InForce(calls[k].b, Mark(calls[k]), Held(less[k] + calls[k].pushed))'
    BY <1>4, <2>1, <2>7, <2>8, <2>9
  <2>11. k + 1 \in 1 .. (m - 1) => less[k + 1] = less[k] + calls'[k].pushed
    BY <1>8, <2>1, <2>2
  <2>12. k = m - 1 => base[m] = less[k] + calls'[k].pushed
    <3>1. k = m - 1 => k + 1 = m
      BY <1>2
    <3>. QED
      BY <2>1, <2>2, <3>1
  <2>. QED
    BY <2>10, <2>11, <2>12
<1>11. Based(less)'
  BY <1>3, <1>6, <1>8, <1>9, <1>10 DEF Based
<1>. QED
  BY <1>7, <1>11

\* The first call is for the entry, before anything is made.
LEMMA StartStep ==
  ASSUME cfg \in Cfgs, TextTyped, stack = <<>>, StartNames
  PROVE  CallsTyped' /\ \E base : Based(base)'
<1>. DEFINE base == [k \in {1} |-> 0]
<1>1. /\ UNCHANGED <<domVars, text, phis>> /\ idom' = idom /\ stack' = <<>> /\ calls' = <<Renaming(1)>>
  BY DEF StartNames, domVars
<1>2. /\ \A b : End(b)' = End(b)
      /\ \A b, i, w : InForce(b, i, w)' = InForce(b, i, w)
      /\ Calls' = Calls
  BY <1>1, TextStays DEF Calls
<1>3. 1 \in CfgBlocks
  BY CfgTypes
<1>4. /\ Renaming(1) \in Calls /\ Renaming(1).b = 1 /\ Renaming(1).at = 0 /\ Renaming(1).pushed = 0
      /\ (\A d \in Renaming(1).rest : d # 1 /\ idom[d] = 1)
  BY <1>3, RenamingTyped
<1>5. /\ calls' \in Seq(Calls) /\ DOMAIN calls' = {1} /\ Len(calls') = 1 /\ calls'[1] = Renaming(1)
  BY <1>1, <1>4
<1>6. 0 <= End(1) + 1
  BY <1>3, TextTypes
<1>7. CallsTyped'
  <2>1. stack' \in Seq(Nat \X Nat)
    BY <1>1
  <2>2. ASSUME NEW k \in DOMAIN calls'
        PROVE  /\ calls'[k].at <= End(calls'[k].b) + 1
               /\ k < Len(calls') => calls'[k].at = End(calls'[k].b) + 1
               /\ \A d \in calls'[k].rest : d # 1 /\ idom[d] = calls'[k].b
    BY <1>4, <1>5, <1>6, <2>2
  <2>. QED
    BY <1>1, <1>2, <1>5, <2>1, <2>2 DEF CallsTyped
<1>8. Based(base)'
  <2>1. InForce(1, Mark(Renaming(1)), Unset)
    BY <1>3, EntryInherits, HoldsAtStart
  <2>2. Mark(calls[1])' = Mark(Renaming(1))
    BY <1>2, <1>5 DEF Mark
  <2>3. (base[1] + calls[1].pushed)' = 0 /\ base[1] = 0 /\ calls'[1].pushed = 0
    BY <1>4, <1>5
  <2>4. Held(base[1] + calls[1].pushed)' = Unset
    BY <2>3 DEF Held, Unset
  <2>5. InForce(calls[1].b, Mark(calls[1]), Held(base[1] + calls[1].pushed))'
    BY <1>2, <1>4, <1>5, <2>1, <2>2, <2>4
  <2>6. base \in [{1} -> Nat] /\ Len(stack') = 0
    BY <1>1
  <2>. QED
    BY <1>5, <2>3, <2>5, <2>6 DEF Based
<1>. QED
  BY <1>7, <1>8
-----------------------------------------------------------------------------
\* Every block is named and filled in the end.

LEMMA EntryDominates ==
  ASSUME cfg \in Cfgs, NEW b
  PROVE  Dominates(1, b)
<1>1. 1 \in CfgBlocks
  BY CfgTypes
<1>2. Free(1) \subseteq {}
  <2>1. {} \in SUBSET CfgBlocks /\ \A c \in {} \ {1} : cfg[c] \ {1} \subseteq {}
    OBVIOUS
  <2>. QED
    BY <1>1, <2>1, FreeIsLeast
<1>. QED
  BY <1>2 DEF Dominates

\* The way down the tree to a block goes through a child.
LEMMA ChildAbove ==
  ASSUME Found, NEW a \in CfgBlocks, NEW b \in CfgBlocks, StrictlyDominates(a, b)
  PROVE  \E d \in CfgBlocks \ {1} : idom[d] = a /\ Dominates(d, b)
<1>1. PICK S : S = {Len(postorder) - Post(d) : d \in {c \in CfgBlocks : StrictlyDominates(a, c) /\ Dominates(c, b)}}
  OBVIOUS
<1>2. Len(postorder) \in Nat /\ \A c \in CfgBlocks : Post(c) \in 1 .. Len(postorder) /\ postorder[Post(c)] = c
  BY DEF Found, PostOrdered
<1>3. S \in SUBSET Nat
  BY <1>1, <1>2
<1>4. S # {}
  BY <1>1, DominatesItself
<1>5. PICK n \in S : \A m \in S : n <= m
  BY <1>3, <1>4, Least
<1>6. PICK d \in CfgBlocks : n = Len(postorder) - Post(d) /\ StrictlyDominates(a, d) /\ Dominates(d, b)
  BY <1>1, <1>5
<1>7. d # 1
  BY <1>6, DominatesEntry DEF Found, StrictlyDominates
<1>8. idom[d] \in CfgBlocks /\ Dominates(a, idom[d]) /\ StrictlyDominates(idom[d], d)
  <2>1. idom[d] \in CfgBlocks /\ \A e \in CfgBlocks : Dominates(e, idom[d]) <=> StrictlyDominates(e, d)
    BY <1>6, <1>7 DEF Found, ExactIdom
  <2>. QED
    BY <1>6, <2>1, DominatesItself
<1>9. ASSUME idom[d] # a PROVE FALSE
  <2>1. StrictlyDominates(a, idom[d])
    BY <1>8, <1>9 DEF StrictlyDominates
  <2>2. Dominates(idom[d], b)
    BY <1>6, <1>8, DominatesTransitive DEF Found, StrictlyDominates
  <2>3. Len(postorder) - Post(idom[d]) \in S
    BY <1>1, <1>8, <2>1, <2>2
  <2>4. Post(d) <= Post(idom[d])
    BY <1>6, <1>8, DominatesInOrder DEF Found, StrictlyDominates
  <2>5. Post(d) = Post(idom[d])
    <3>1. Len(postorder) - Post(d) <= Len(postorder) - Post(idom[d])
      BY <1>5, <1>6, <2>3
    <3>. QED
      BY <1>2, <1>6, <1>8, <2>4, <3>1
  <2>6. d = idom[d]
    BY <1>2, <1>6, <1>8, <2>5
  <2>. QED
    BY <1>8, <2>6 DEF StrictlyDominates
<1>. QED
  BY <1>6, <1>7, <1>9

\* A block is still to come, or all of it has been named and filled.
VarUses     == {u \in UNION {{b} \X DOMAIN text[b] : b \in CfgBlocks} : ReadsAt(u[1], u[2])}
PhiEdges == {e \in CfgBlocks \X phis : e[2] \in cfg[e[1]]}
Coming(b) == \E k \in DOMAIN calls : b = calls[k].b \/ \E c \in calls[k].rest : Dominates(c, b)
NamedTo(b, i) == \A j \in DOMAIN text[b] : j < i /\ ReadsAt(b, j) => <<b, j>> \in DOMAIN named
Filled(b)  == \A s \in cfg[b] \cap phis : <<b, s>> \in DOMAIN filled
Progress ==
  /\ DOMAIN named \subseteq VarUses /\ DOMAIN filled \subseteq PhiEdges
  /\ \A b \in CfgBlocks : Coming(b) \/ (NamedTo(b, End(b)) /\ Filled(b))
  /\ \A k \in DOMAIN calls : /\ NamedTo(calls[k].b, calls[k].at)
                             /\ calls[k].at > End(calls[k].b) => Filled(calls[k].b)

LEMMA ProgressStays ==
  ASSUME UNCHANGED <<domVars, text, phis>>, DOMAIN named \subseteq DOMAIN named', DOMAIN filled \subseteq DOMAIN filled'
  PROVE  /\ CfgBlocks' = CfgBlocks /\ VarUses' = VarUses /\ PhiEdges' = PhiEdges
         /\ \A b : End(b)' = End(b)
         /\ \A b, i : ReadsAt(b, i)' = ReadsAt(b, i)
         /\ \A a, b : Dominates(a, b)' = Dominates(a, b)
         /\ \A b, i : NamedTo(b, i) => NamedTo(b, i)'
         /\ \A b : Filled(b) => Filled(b)'
<1>1. cfg' = cfg /\ text' = text /\ phis' = phis /\ CfgBlocks' = CfgBlocks
  BY DEF domVars, CfgBlocks
<1>2. (\A b : End(b)' = End(b)) /\ (\A b, i : ReadsAt(b, i)' = ReadsAt(b, i))
  BY <1>1 DEF End, ReadsAt
<1>3. \A a, b : Dominates(a, b)' = Dominates(a, b)
  BY <1>1 DEF Dominates, Free
<1>4. VarUses' = VarUses /\ PhiEdges' = PhiEdges
  BY <1>1, <1>2 DEF VarUses, PhiEdges
<1>5. ASSUME NEW b, NEW i, NamedTo(b, i) PROVE NamedTo(b, i)'
  BY <1>1, <1>2, <1>5 DEF NamedTo
<1>6. ASSUME NEW b, Filled(b) PROVE Filled(b)'
  BY <1>1, <1>6 DEF Filled
<1>. QED
  BY <1>1, <1>2, <1>3, <1>4, <1>5, <1>6

LEMMA CallProgress ==
  ASSUME TextTyped, CallsTyped, Progress, NEW n \in Nat, GoOn(n), NEW b, NEW i, b = Now.b, i = Now.at,
         DOMAIN named \subseteq DOMAIN named', DOMAIN filled \subseteq DOMAIN filled',
         DOMAIN named' \subseteq VarUses, DOMAIN filled' \subseteq PhiEdges,
         ReadsAt(b, i) => <<b, i>> \in DOMAIN named',
         i = End(b) => Filled(b)'
  PROVE  Progress'
<1>1. UNCHANGED <<domVars, text, phis>>
  BY DEF GoOn, domVars
<1>2. /\ CfgBlocks' = CfgBlocks /\ VarUses' = VarUses /\ PhiEdges' = PhiEdges /\ text' = text
      /\ \A d : End(d)' = End(d)
      /\ \A d, j : ReadsAt(d, j)' = ReadsAt(d, j)
      /\ \A a, d : Dominates(a, d)' = Dominates(a, d)
      /\ \A d, j : NamedTo(d, j) => NamedTo(d, j)'
      /\ \A d : Filled(d) => Filled(d)'
  BY <1>1, ProgressStays
<1>3. /\ calls # <<>> /\ DOMAIN calls' = DOMAIN calls
      /\ \A k \in DOMAIN calls : calls'[k].b = calls[k].b /\ calls'[k].rest = calls[k].rest
      /\ \A k \in DOMAIN calls : k # Len(calls) => calls'[k] = calls[k]
      /\ calls'[Len(calls)].at = i + 1
  BY CallGoesOn
<1>4. Len(calls) \in DOMAIN calls /\ Now = calls[Len(calls)] /\ b \in CfgBlocks /\ i \in Nat
  BY <1>3, NowIs DEF Calls
<1>5. ASSUME NEW d \in CfgBlocks PROVE Coming(d)' \/ (NamedTo(d, End(d))' /\ Filled(d)')
  <2>1. CASE Coming(d)
    <3>1. Coming(d)'
      BY <1>2, <1>3, <2>1 DEF Coming
    <3>. QED
      BY <3>1
  <2>2. CASE NamedTo(d, End(d)) /\ Filled(d)
    <3>1. NamedTo(d, End(d))' /\ Filled(d)'
      BY <1>2, <2>2
    <3>. QED
      BY <3>1
  <2>. QED
    BY <2>1, <2>2 DEF Progress
<1>6. NamedTo(b, i + 1)'
  <2>1. NamedTo(b, i)
    BY <1>4 DEF Progress
  <2>2. DOMAIN text[b] \subseteq Nat
    BY <1>4, TextTypes
  <2>3. ASSUME NEW j \in DOMAIN text[b], j < i + 1, ReadsAt(b, j) PROVE <<b, j>> \in DOMAIN named'
    <3>1. j < i \/ j = i
      BY <1>4, <2>2, <2>3
    <3>. QED
      BY <2>1, <2>3, <3>1 DEF NamedTo
  <2>. QED
    BY <1>2, <2>3 DEF NamedTo
<1>7. ASSUME NEW k \in DOMAIN calls
      PROVE  NamedTo(calls[k].b, calls[k].at)' /\ (calls'[k].at > End(calls[k].b) => Filled(calls[k].b)')
  <2>1. CASE k = Len(calls)
    <3>1. calls[k].b = b /\ calls'[k].b = b /\ calls'[k].at = i + 1
      BY <1>3, <1>4, <2>1
    <3>2. End(b) \in Nat
      BY <1>4, TextTypes
    <3>3. i + 1 > End(b) => i = End(b) \/ i > End(b)
      BY <1>4, <3>2
    <3>4. i > End(b) => Filled(b)'
      BY <1>2, <1>4 DEF Progress
    <3>. QED
      BY <1>6, <3>1, <3>3, <3>4
  <2>2. CASE k # Len(calls)
    <3>1. calls'[k] = calls[k]
      BY <1>3, <2>2
    <3>2. NamedTo(calls[k].b, calls[k].at) /\ (calls[k].at > End(calls[k].b) => Filled(calls[k].b))
      BY DEF Progress
    <3>. QED
      BY <1>2, <3>1, <3>2
  <2>. QED
    BY <2>1, <2>2
<1>. QED
  BY <1>2, <1>3, <1>5, <1>7 DEF Progress

\* What was to come in a child comes in it, or below one of its children.
LEMMA ChildProgress ==
  ASSUME Found, TextTyped, CallsTyped, Progress, RenameChild
  PROVE  Progress'
<1>m. PICK m : m = Len(calls)
  OBVIOUS
<1>1. /\ calls # <<>> /\ UNCHANGED <<domVars, text, phis>> /\ UNCHANGED <<named, filled>>
  BY DEF RenameChild, Finishing, domVars
<1>2. m \in Nat \ {0} /\ DOMAIN calls = 1 .. m /\ Now = calls[m] /\ Now \in Calls
  BY <1>1, <1>m, NowIs
<1>3. PICK c \in Now.rest : calls' = Append([calls EXCEPT ![m].rest = @ \ {c}], Renaming(c))
  BY <1>m DEF RenameChild
<1>4. c \in CfgBlocks
  BY <1>2, <1>3 DEF Calls
<1>5. PICK q : q = [calls EXCEPT ![m].rest = @ \ {c}] /\ calls' = Append(q, Renaming(c))
  BY <1>3
<1>6. /\ q \in Seq(Calls) /\ Len(q) = m
      /\ \A k \in 1 .. m : /\ q[k].b = calls[k].b /\ q[k].at = calls[k].at
                           /\ q[k].rest = IF k = m THEN calls[k].rest \ {c} ELSE calls[k].rest
  <2>1. PICK d : d = [Now EXCEPT !.rest = @ \ {c}]
    OBVIOUS
  <2>2. d \in Calls /\ d.b = Now.b /\ d.at = Now.at /\ d.rest = Now.rest \ {c}
    BY <1>2, <2>1 DEF Calls
  <2>3. calls \in Seq(Calls) /\ m \in 1 .. Len(calls)
    BY <1>m, <1>2 DEF CallsTyped
  <2>4. q = [calls EXCEPT ![m] = d]
    BY <1>2, <1>5, <2>1, <2>3
  <2>5. \A z \in Seq(Calls) : \A j \in 1 .. Len(z) : LET r == [z EXCEPT ![j] = d] IN
           r \in Seq(Calls) /\ Len(r) = Len(z)
    BY <2>2
  <2>6. q \in Seq(Calls) /\ Len(q) = m
    BY <1>m, <2>3, <2>4, <2>5
  <2>7. \A k \in 1 .. m : q[k] = IF k = m THEN d ELSE calls[k]
    BY <1>2, <2>3, <2>4
  <2>. QED
    BY <1>2, <2>2, <2>6, <2>7
<1>7. /\ DOMAIN calls' = 1 .. (m + 1) /\ calls'[m + 1] = Renaming(c)
      /\ \A k \in 1 .. m : calls'[k] = q[k]
  <2>1. Renaming(c) \in Calls
    BY <1>4, RenamingTyped
  <2>2. \A z \in Seq(Calls) : \A e \in Calls :
            /\ DOMAIN Append(z, e) = 1 .. (Len(z) + 1)
            /\ \A k \in 1 .. Len(z) : Append(z, e)[k] = z[k]
            /\ Append(z, e)[Len(z) + 1] = e
    OBVIOUS
  <2>. QED
    BY <1>5, <1>6, <2>1, <2>2
<1>8. /\ CfgBlocks' = CfgBlocks /\ VarUses' = VarUses /\ PhiEdges' = PhiEdges
      /\ \A b : End(b)' = End(b)
      /\ \A a, b : Dominates(a, b)' = Dominates(a, b)
      /\ \A b, i : NamedTo(b, i) => NamedTo(b, i)'
      /\ \A b : Filled(b) => Filled(b)'
  BY <1>1, ProgressStays
<1>9. ASSUME NEW b \in CfgBlocks, Coming(b) PROVE Coming(b)'
  <2>1. PICK k \in 1 .. m : b = calls[k].b \/ \E e \in calls[k].rest : Dominates(e, b)
    BY <1>2, <1>9 DEF Coming
  <2>2. k \in 1 .. (m + 1) /\ m + 1 \in 1 .. (m + 1)
    BY <1>2
  <2>3. CASE b = calls[k].b
    <3>1. b = calls'[k].b
      BY <1>6, <1>7, <2>3
    <3>. QED
      BY <1>7, <2>2, <3>1 DEF Coming
  <2>4. CASE \E e \in calls[k].rest : Dominates(e, b)
    <3>1. PICK e \in calls[k].rest : Dominates(e, b)
      BY <2>4
    <3>2. CASE e \in calls'[k].rest
      BY <1>7, <1>8, <2>2, <3>1, <3>2 DEF Coming
    <3>3. CASE e \notin calls'[k].rest
      <4>1. e = c
        BY <1>6, <1>7, <3>1, <3>3
      <4>2. CASE b = c
        <5>1. b = calls'[m + 1].b
          BY <1>4, <1>7, <4>2, RenamingTyped
        <5>. QED
          BY <1>7, <2>2, <5>1 DEF Coming
      <4>3. CASE b # c
        <5>1. PICK d \in CfgBlocks \ {1} : idom[d] = c /\ Dominates(d, b)
          BY <1>4, <3>1, <4>1, <4>3, ChildAbove DEF StrictlyDominates
        <5>2. d \in calls'[m + 1].rest
          BY <1>4, <1>7, <5>1, RenamingTyped
        <5>. QED
          BY <1>7, <1>8, <2>2, <5>1, <5>2 DEF Coming
      <4>. QED
        BY <4>2, <4>3
    <3>. QED
      BY <3>2, <3>3
  <2>. QED
    BY <2>1, <2>3, <2>4
<1>10. ASSUME NEW b \in CfgBlocks PROVE Coming(b)' \/ (NamedTo(b, End(b))' /\ Filled(b)')
  <2>1. NamedTo(b, End(b)) /\ Filled(b) => NamedTo(b, End(b))' /\ Filled(b)'
    BY <1>8
  <2>. QED
    BY <1>9, <2>1 DEF Progress
<1>11. ASSUME NEW k \in 1 .. (m + 1)
       PROVE  NamedTo(calls[k].b, calls[k].at)' /\ (calls'[k].at > End(calls'[k].b) => Filled(calls[k].b)')
  <2>1. CASE k \in 1 .. m
    <3>1. NamedTo(calls[k].b, calls[k].at) /\ (calls[k].at > End(calls[k].b) => Filled(calls[k].b))
      BY <1>2, <2>1 DEF Progress
    <3>2. calls'[k].b = calls[k].b /\ calls'[k].at = calls[k].at
      BY <1>6, <1>7, <2>1
    <3>. QED
      BY <1>8, <3>1, <3>2
  <2>2. CASE k = m + 1
    <3>1. calls'[k].b = c /\ calls'[k].at = 0
      BY <1>4, <1>7, <2>2, RenamingTyped
    <3>2. DOMAIN text[c] = 1 .. Len(text[c]) /\ Len(text[c]) \in Nat /\ End(c) = Len(text[c]) + 1
      BY <1>4, TextTypes
    <3>3. ~ (0 > End(c))
      BY <3>2
    <3>4. \A j \in DOMAIN text[c] : ~ (j < 0)
      BY <3>2
    <3>5. NamedTo(c, 0)'
      BY <1>1, <3>4 DEF NamedTo
    <3>. QED
      BY <3>1, <3>3, <3>5
  <2>. QED
    BY <1>2, <2>1, <2>2
<1>. QED
  BY <1>1, <1>7, <1>8, <1>10, <1>11 DEF Progress

\* A call that returns has done its block, and leaves nothing below it.
LEMMA ReturnProgress ==
  ASSUME TextTyped, CallsTyped, Progress, ReturnRename
  PROVE  Progress'
<1>m. PICK m : m = Len(calls)
  OBVIOUS
<1>1. /\ calls # <<>> /\ UNCHANGED <<domVars, text, phis>> /\ UNCHANGED <<named, filled>>
      /\ calls' = Front(calls) /\ Now.rest = {} /\ Now.at > End(Now.b)
  BY DEF ReturnRename, Finishing, domVars
<1>2. m \in Nat \ {0} /\ DOMAIN calls = 1 .. m /\ Now = calls[m] /\ Now \in Calls
  BY <1>1, <1>m, NowIs
<1>3. DOMAIN calls' = 1 .. (m - 1) /\ \A k \in 1 .. (m - 1) : calls'[k] = calls[k]
  <2>1. calls \in Seq(Calls) /\ calls' = SubSeq(calls, 1, m - 1)
    BY <1>m, <1>1 DEF CallsTyped, Front
  <2>2. \A q \in Seq(Calls) : \A n \in 0 .. Len(q) :
          DOMAIN SubSeq(q, 1, n) = 1 .. n /\ \A k \in 1 .. n : SubSeq(q, 1, n)[k] = q[k]
    OBVIOUS
  <2>3. m - 1 \in 0 .. Len(calls)
    BY <1>m, <1>2
  <2>. QED
    BY <2>1, <2>2, <2>3
<1>4. /\ CfgBlocks' = CfgBlocks /\ VarUses' = VarUses /\ PhiEdges' = PhiEdges
      /\ \A b : End(b)' = End(b)
      /\ \A a, b : Dominates(a, b)' = Dominates(a, b)
      /\ \A b, i : NamedTo(b, i) => NamedTo(b, i)'
      /\ \A b : Filled(b) => Filled(b)'
  BY <1>1, ProgressStays
<1>5. Now.b \in CfgBlocks /\ Now.at \in Nat
  BY <1>2 DEF Calls
<1>6. NamedTo(Now.b, End(Now.b)) /\ Filled(Now.b)
  <2>1. NamedTo(Now.b, Now.at) /\ Filled(Now.b)
    BY <1>1, <1>2 DEF Progress
  <2>2. End(Now.b) \in Nat /\ DOMAIN text[Now.b] \subseteq Nat
    BY <1>5, TextTypes
  <2>3. \A j \in DOMAIN text[Now.b] : j < End(Now.b) => j < Now.at
    BY <1>1, <1>5, <2>2
  <2>. QED
    BY <2>1, <2>3 DEF NamedTo
<1>7. ASSUME NEW b \in CfgBlocks PROVE Coming(b)' \/ (NamedTo(b, End(b))' /\ Filled(b)')
  <2>1. CASE Coming(b)
    <3>1. PICK k \in 1 .. m : b = calls[k].b \/ \E c \in calls[k].rest : Dominates(c, b)
      BY <1>2, <2>1 DEF Coming
    <3>2. CASE k \in 1 .. (m - 1)
      BY <1>3, <1>4, <3>1, <3>2 DEF Coming
    <3>3. CASE k = m
      BY <1>1, <1>2, <1>4, <1>6, <3>1, <3>3
    <3>. QED
      BY <1>2, <3>1, <3>2, <3>3
  <2>2. CASE NamedTo(b, End(b)) /\ Filled(b)
    <3>1. NamedTo(b, End(b))' /\ Filled(b)'
      BY <1>4, <2>2
    <3>. QED
      BY <3>1
  <2>. QED
    BY <2>1, <2>2 DEF Progress
<1>8. ASSUME NEW k \in 1 .. (m - 1)
      PROVE  NamedTo(calls[k].b, calls[k].at)' /\ (calls'[k].at > End(calls'[k].b) => Filled(calls[k].b)')
  <2>1. NamedTo(calls[k].b, calls[k].at) /\ (calls[k].at > End(calls[k].b) => Filled(calls[k].b)) /\ calls'[k] = calls[k]
    BY <1>2, <1>3 DEF Progress
  <2>. QED
    BY <1>4, <2>1
<1>. QED
  BY <1>1, <1>3, <1>4, <1>7, <1>8 DEF Progress

\* Every block comes below the entry.
LEMMA StartProgress ==
  ASSUME Found, TextTyped, named = <<>>, filled = <<>>, StartNames
  PROVE  Progress'
<1>1. /\ UNCHANGED <<domVars, text, phis>> /\ UNCHANGED <<named, filled>> /\ calls' = <<Renaming(1)>>
      /\ 1 \in CfgBlocks
  BY CfgTypes DEF StartNames, domVars, Found
<1>2. /\ CfgBlocks' = CfgBlocks /\ VarUses' = VarUses /\ PhiEdges' = PhiEdges /\ text' = text
      /\ \A b : End(b)' = End(b)
      /\ \A a, b : Dominates(a, b)' = Dominates(a, b)
  BY <1>1, ProgressStays
<1>3. DOMAIN calls' = {1} /\ calls'[1].b = 1 /\ calls'[1].at = 0
      /\ \A d \in CfgBlocks \ {1} : idom[d] = 1 => d \in calls'[1].rest
  BY <1>1, RenamingTyped
<1>4. ASSUME NEW b \in CfgBlocks PROVE Coming(b)'
  <2>1. CASE b = 1
    BY <1>3, <2>1 DEF Coming
  <2>2. CASE b # 1
    <3>1. StrictlyDominates(1, b)
      BY <2>2, EntryDominates DEF Found, StrictlyDominates
    <3>2. PICK d \in CfgBlocks \ {1} : idom[d] = 1 /\ Dominates(d, b)
      BY <1>1, <3>1, ChildAbove
    <3>. QED
      BY <1>2, <1>3, <3>2 DEF Coming
  <2>. QED
    BY <2>1, <2>2
<1>5. DOMAIN text[1] = 1 .. Len(text[1]) /\ Len(text[1]) \in Nat /\ End(1) = Len(text[1]) + 1
  BY <1>1, TextTypes
<1>6. ~ (0 > End(1)) /\ \A j \in DOMAIN text[1] : ~ (j < 0)
  BY <1>5
<1>7. NamedTo(1, 0)'
  BY <1>2, <1>6 DEF NamedTo
<1>8. DOMAIN named' = {} /\ DOMAIN filled' = {}
  BY <1>1
<1>9. ASSUME NEW k \in DOMAIN calls'
      PROVE  NamedTo(calls[k].b, calls[k].at)' /\ ~ (calls'[k].at > End(calls'[k].b))
  BY <1>3, <1>6, <1>7, <1>9
<1>. QED
  BY <1>2, <1>4, <1>8, <1>9 DEF Progress

\* Every name given so far is right.
NamedRight == /\ \A u \in DOMAIN named : Arriving(u[1], u[2]) = {named[u]}
              /\ \A e \in DOMAIN filled : Arriving(e[1], End(e[1])) = {filled[e]}

LEMMA RightStays ==
  ASSUME NamedRight, UNCHANGED <<domVars, text, phis>>, UNCHANGED <<named, filled>>
  PROVE  NamedRight'
BY TextStays DEF NamedRight

\* The top of the stack is in force where the call on top is.
LEMMA TopInForce ==
  ASSUME TextTyped, CallsTyped, calls # <<>>, NEW base, Based(base), Now.at <= End(Now.b)
  PROVE  Now.b \in CfgBlocks /\ Now.at \in Nat /\ InForce(Now.b, Now.at, Top)
<1>1. Len(calls) \in DOMAIN calls /\ Now = calls[Len(calls)] /\ Now \in Calls
  BY NowIs
<1>2. Now.b \in CfgBlocks /\ Now.at \in Nat /\ End(Now.b) \in Nat
  BY <1>1, TextTypes DEF Calls
<1>3. Mark(Now) = Now.at
  BY <1>2 DEF Mark
<1>4. InForce(Now.b, Mark(Now), Held(Len(stack)))
  BY <1>1 DEF Based
<1>. QED
  BY <1>2, <1>3, <1>4, TopIsHeld

LEMMA UseRight ==
  ASSUME Found, TextTyped, Scoped, PhisPlaced, Makers \subseteq CfgBlocks, CallsTyped, NEW base, Based(base),
         NamedRight, NameUse
  PROVE  NamedRight'
<1>1. UNCHANGED <<domVars, text, phis>> /\ filled' = filled /\ calls # <<>>
  BY DEF NameUse, GoOn, domVars
<1>2. PICK b, i, w : b = Now.b /\ i = Now.at /\ w = Top
  OBVIOUS
<1>3. ReadsAt(b, i) /\ named' = [u \in DOMAIN named \cup {<<b, i>>} |-> IF u = <<b, i>> THEN w ELSE named[u]]
  BY <1>2 DEF NameUse
<1>4. b \in CfgBlocks /\ i \in Nat \ {0} /\ i <= End(b)
  <2>1. b \in CfgBlocks
    BY <1>1, <1>2, NowIs DEF Calls
  <2>2. DOMAIN text[b] = 1 .. Len(text[b]) /\ Len(text[b]) \in Nat /\ End(b) = Len(text[b]) + 1
    BY <2>1, TextTypes
  <2>. QED
    BY <1>3, <2>1, <2>2 DEF ReadsAt
<1>5. InForce(b, i, w)
  BY <1>1, <1>2, <1>4, TopInForce
<1>6. Several \/ MadeBefore(b, i) # {} \/ \E d \in Definers \ {b} : Dominates(d, b)
  BY <1>3, <1>4 DEF Scoped, ReadsAt
<1>7. Arriving(b, i) = {w}
  BY <1>4, <1>5, <1>6, HoldsIsExact
<1>8. \A u \in DOMAIN named' : Arriving(u[1], u[2]) = {named'[u]}
  BY <1>3, <1>7 DEF NamedRight
<1>9. (\A d, j : Arriving(d, j)' = Arriving(d, j)) /\ \A d : End(d)' = End(d)
  BY <1>1, TextStays
<1>. QED
  BY <1>1, <1>8, <1>9 DEF NamedRight

LEMMA FillRight ==
  ASSUME Found, TextTyped, PhisPlaced, Makers \subseteq CfgBlocks, CallsTyped, NEW base, Based(base),
         NamedRight, DOMAIN filled \subseteq PhiEdges, FillSuccessors
  PROVE  NamedRight'
<1>1. UNCHANGED <<domVars, text, phis>> /\ named' = named /\ calls # <<>> /\ Now.at = End(Now.b)
  BY DEF FillSuccessors, GoOn, domVars
<1>2. PICK b, w : b = Now.b /\ w = Top
  OBVIOUS
<1>3. filled' = [e \in DOMAIN filled \cup ({b} \X (cfg[b] \cap phis)) |-> IF e[1] = b THEN w ELSE filled[e]]
  BY <1>2 DEF FillSuccessors
<1>4. b \in CfgBlocks /\ End(b) \in Nat \ {0}
  <2>1. b \in CfgBlocks
    BY <1>1, <1>2, NowIs DEF Calls
  <2>. QED
    BY <2>1, TextTypes
<1>5. InForce(b, End(b), w)
  BY <1>1, <1>2, <1>4, TopInForce
<1>6. Several => Arriving(b, End(b)) = {w}
  BY <1>4, <1>5, HoldsIsExact
<1>7. ASSUME NEW e \in DOMAIN filled' PROVE Arriving(e[1], End(e[1])) = {filled'[e]}
  <2>1. CASE e[1] = b
    <3>1. phis # {}
      BY <1>3, <1>7 DEF PhiEdges
    <3>2. Several
      BY <3>1 DEF PhisPlaced
    <3>. QED
      BY <1>3, <1>6, <1>7, <2>1, <3>2
  <2>2. CASE e[1] # b
    BY <1>3, <1>7, <2>2 DEF NamedRight
  <2>. QED
    BY <2>1, <2>2
<1>8. (\A d, j : Arriving(d, j)' = Arriving(d, j)) /\ \A d : End(d)' = End(d)
  BY <1>1, TextStays
<1>. QED
  BY <1>1, <1>7, <1>8 DEF NamedRight
-----------------------------------------------------------------------------
\* The three stages, from the dominators to the last name.

\* What holds while SSA form is built.
NothingNamed == calls = <<>> /\ stack = <<>> /\ named = <<>> /\ filled = <<>>
Ready        == phase = "frontiers" /\ at \notin CfgBlocks /\ TextTyped /\ Scoped
PhisUnderWay == /\ work \subseteq Makers
                /\ IF Several THEN \A b \in Makers \ work : frontier[b] \subseteq phis ELSE phis = {} /\ work = {}
NamesInv     == PhisPlaced /\ CallsTyped /\ (\E base : Based(base)) /\ Progress /\ NamedRight
SsaInv ==
  /\ DomInv
  /\ \/ building = "dominance" /\ phis = {} /\ NothingNamed
     \/ building = "phis" /\ Ready /\ PhisUnderWay /\ NothingNamed
     \/ building = "names" /\ Ready /\ NamesInv

LEMMA MakersAreBlocks ==
  ASSUME TextTyped
  PROVE  Makers \subseteq CfgBlocks
BY DEF TextTyped, Makers, Definers

LEMMA ReadyStays ==
  ASSUME Ready, UNCHANGED <<domVars, text, phis>>
  PROVE  Ready'
<1>1. phase' = phase /\ at' = at
  BY DEF domVars
<1>. QED
  BY <1>1, TextStays DEF Ready

LEMMA StartPhisStep ==
  ASSUME building = "dominance", phis = {}, NothingNamed, StartPhis
  PROVE  Ready' /\ PhisUnderWay' /\ NothingNamed'
<1>1. /\ phase = "frontiers" /\ at \notin CfgBlocks /\ UNCHANGED <<domVars, phis, calls, stack, named, filled>> /\ Scoped'
      /\ work' = IF Several' THEN Definers' ELSE {}
  BY DEF StartPhis
<1>2. PICK t \in Texts : t.cfg = cfg /\ text' = t.text
  BY DEF StartPhis
<1>3. phase' = phase /\ at' = at /\ cfg' = cfg /\ CfgBlocks' = CfgBlocks
  BY <1>1 DEF domVars, CfgBlocks
<1>4. TextTyped'
  BY <1>1, <1>2, <1>3, TextsAssumption DEF TextTyped, CfgBlocks
<1>5. Makers' = Definers'
  BY <1>1 DEF Makers
<1>6. PhisUnderWay'
  BY <1>1, <1>5 DEF PhisUnderWay
<1>7. NothingNamed'
  BY <1>1 DEF NothingNamed
<1>. QED
  BY <1>1, <1>3, <1>4, <1>6, <1>7 DEF Ready

LEMMA PlacePhiStep ==
  ASSUME Ready, PhisUnderWay, NothingNamed, Found, PlacePhi
  PROVE  Ready' /\ PhisUnderWay' /\ NothingNamed'
<1>1. UNCHANGED <<domVars, text, building, calls, stack, named, filled>>
  BY DEF PlacePhi
<1>2. PICK b \in work : /\ phis' = phis \cup frontier[b]
                        /\ work' = (work \ {b}) \cup ((frontier[b] \ phis) \ Definers)
  BY DEF PlacePhi
<1>3. /\ cfg' = cfg /\ frontier' = frontier /\ phase' = phase /\ at' = at /\ CfgBlocks' = CfgBlocks
      /\ Definers' = Definers /\ Several' = Several /\ text' = text
  BY <1>1 DEF domVars, CfgBlocks, Definers, Defines, Several
<1>4. Several
  BY <1>2 DEF PhisUnderWay
<1>5. b \in CfgBlocks /\ frontier[b] \subseteq CfgBlocks
  BY <1>2, MakersAreBlocks DEF PhisUnderWay, Ready, Found
<1>6. TextTyped'
  BY <1>2, <1>3, <1>5 DEF Ready, TextTyped
<1>7. Makers' = Makers \cup frontier[b]
  BY <1>2, <1>3 DEF Makers
<1>8. work' \subseteq Makers'
  BY <1>2, <1>7 DEF PhisUnderWay
<1>9. ASSUME NEW c \in Makers' \ work' PROVE frontier[c] \subseteq phis'
  <2>1. c = b \/ c \in Makers \ work
    BY <1>2, <1>7, <1>9 DEF Makers
  <2>. QED
    BY <1>2, <1>4, <2>1 DEF PhisUnderWay
<1>10. PhisUnderWay'
  BY <1>3, <1>4, <1>8, <1>9 DEF PhisUnderWay
<1>11. Scoped'
  BY <1>3, <1>4 DEF Scoped
<1>12. NothingNamed'
  BY <1>1 DEF NothingNamed
<1>. QED
  BY <1>3, <1>6, <1>10, <1>11, <1>12 DEF Ready

LEMMA StartNamesStep ==
  ASSUME Ready, PhisUnderWay, NothingNamed, Found, StartNames
  PROVE  Ready' /\ NamesInv'
<1>1. UNCHANGED <<domVars, text, phis>> /\ UNCHANGED <<named, filled>> /\ work = {}
  BY DEF StartNames
<1>2. PhisPlaced
  BY <1>1 DEF PhisUnderWay, PhisPlaced
<1>3. PhisPlaced' /\ Ready'
  BY <1>1, <1>2, TextStays, ReadyStays
<1>4. CallsTyped' /\ \E base : Based(base)'
  BY StartStep DEF Ready, NothingNamed, Found
<1>5. Progress'
  BY StartProgress DEF Ready, NothingNamed
<1>6. NamedRight
  BY DEF NothingNamed, NamedRight
<1>7. NamedRight'
  BY <1>1, <1>6, RightStays
<1>8. (\E base : Based(base))'
  BY <1>4
<1>. QED
  BY <1>3, <1>4, <1>5, <1>7, <1>8 DEF NamesInv

\* A call that goes on by a place: what each action leaves to be shown.
LEMMA GoOnStep ==
  ASSUME Ready, NamesInv, Found,
         NamePhi \/ NameUse \/ NameDef \/ FillSuccessors
  PROVE  Ready' /\ NamesInv'
<1>1. PICK base : Based(base)
  BY DEF NamesInv
<1>2. /\ TextTyped /\ Scoped /\ PhisPlaced /\ CallsTyped /\ Progress /\ NamedRight /\ Makers \subseteq CfgBlocks
      /\ DOMAIN named \subseteq VarUses /\ DOMAIN filled \subseteq PhiEdges
  BY MakersAreBlocks DEF Ready, NamesInv, Progress
<1>3. UNCHANGED <<domVars, text, phis>> /\ calls # <<>>
  BY DEF NamePhi, NameUse, NameDef, FillSuccessors, GoOn
<1>4. Ready' /\ PhisPlaced'
  BY <1>2, <1>3, ReadyStays, TextStays
<1>5. PICK b, i : b = Now.b /\ i = Now.at
  OBVIOUS
<1>6. b \in CfgBlocks /\ i \in Nat
  BY <1>2, <1>3, <1>5, NowIs DEF Calls
<1>7. DOMAIN text[b] = 1 .. Len(text[b]) /\ Len(text[b]) \in Nat /\ End(b) = Len(text[b]) + 1
  BY <1>2, <1>6, TextTypes
<1>8. CASE NamePhi
  <2>1. i = 0 /\ ~ ReadsAt(b, i) /\ i # End(b) /\ i <= End(b)
    BY <1>5, <1>7, <1>8 DEF NamePhi, ReadsAt
  <2>2. UNCHANGED <<named, filled>>
    BY <1>8 DEF NamePhi
  <2>3. NamedRight'
    BY <1>2, <1>3, <2>2, RightStays
  <2>4. CASE b \in phis
    <3>1. GoOn(1) /\ Push
      BY <1>5, <1>8, <2>4 DEF NamePhi
    <3>2. CallsTyped' /\ Based(base)'
      BY <1>1, <1>2, <1>5, <2>1, <2>4, <3>1, PlaceStep
    <3>3. Progress'
      BY <1>2, <1>5, <2>1, <2>2, <3>1, CallProgress
    <3>. QED
      BY <1>4, <2>3, <3>2, <3>3 DEF NamesInv
  <2>5. CASE b \notin phis
    <3>1. GoOn(0) /\ UNCHANGED stack
      BY <1>5, <1>8, <2>5 DEF NamePhi
    <3>2. CallsTyped' /\ Based(base)'
      BY <1>1, <1>2, <1>5, <2>1, <2>5, <3>1, PlaceStep
    <3>3. Progress'
      BY <1>2, <1>5, <2>1, <2>2, <3>1, CallProgress
    <3>. QED
      BY <1>4, <2>3, <3>2, <3>3 DEF NamesInv
  <2>. QED
    BY <2>4, <2>5
<1>9. CASE NameUse
  <2>1. GoOn(0) /\ ReadsAt(b, i) /\ UNCHANGED <<stack, filled>>
        /\ DOMAIN named' = DOMAIN named \cup {<<b, i>>}
    BY <1>5, <1>9 DEF NameUse
  <2>2. i \in 1 .. Len(text[b]) /\ text[b][i] = "use"
    BY <1>7, <2>1 DEF ReadsAt
  <2>3. i # 0 /\ i # End(b) /\ i <= End(b)
    BY <1>7, <2>2
  <2>4. CallsTyped' /\ Based(base)'
    BY <1>1, <1>2, <1>5, <2>1, <2>2, <2>3, PlaceStep
  <2>5. <<b, i>> \in VarUses
    BY <1>6, <2>1 DEF VarUses, ReadsAt
  <2>6. Progress'
    BY <1>2, <1>5, <2>1, <2>3, <2>5, CallProgress
  <2>7. NamedRight'
    BY <1>1, <1>2, <1>9, UseRight
  <2>. QED
    BY <1>4, <2>4, <2>6, <2>7 DEF NamesInv
<1>10. CASE NameDef
  <2>1. GoOn(1) /\ Push /\ UNCHANGED <<named, filled>> /\ i \in DOMAIN text[b] /\ text[b][i] = "def"
    BY <1>5, <1>10 DEF NameDef
  <2>2. i # 0 /\ i # End(b) /\ i <= End(b) /\ ~ ReadsAt(b, i)
    BY <1>7, <2>1 DEF ReadsAt
  <2>3. CallsTyped' /\ Based(base)'
    BY <1>1, <1>2, <1>5, <2>1, <2>2, PlaceStep
  <2>4. Progress'
    BY <1>2, <1>5, <2>1, <2>2, CallProgress
  <2>5. NamedRight'
    BY <1>2, <1>3, <2>1, RightStays
  <2>. QED
    BY <1>4, <2>3, <2>4, <2>5 DEF NamesInv
<1>11. CASE FillSuccessors
  <2>1. GoOn(0) /\ i = End(b) /\ UNCHANGED <<stack, named>>
        /\ DOMAIN filled' = DOMAIN filled \cup ({b} \X (cfg[b] \cap phis))
    BY <1>5, <1>11 DEF FillSuccessors
  <2>2. ~ ReadsAt(b, i) /\ i <= End(b)
    BY <1>7, <2>1 DEF ReadsAt
  <2>3. CallsTyped' /\ Based(base)'
    BY <1>1, <1>2, <1>5, <2>1, <2>2, PlaceStep
  <2>4. DOMAIN filled' \subseteq PhiEdges
    BY <1>2, <1>6, <2>1 DEF PhiEdges
  <2>5. cfg' = cfg /\ phis' = phis
    BY <1>3 DEF domVars
  <2>6. Filled(b)'
    BY <2>1, <2>5 DEF Filled
  <2>7. Progress'
    BY <1>2, <1>5, <2>1, <2>2, <2>4, <2>6, CallProgress
  <2>8. NamedRight'
    BY <1>1, <1>2, <1>11, FillRight
  <2>. QED
    BY <1>4, <2>3, <2>7, <2>8 DEF NamesInv
<1>. QED
  BY <1>8, <1>9, <1>10, <1>11

LEMMA TreeStep ==
  ASSUME Ready, NamesInv, Found, RenameChild \/ ReturnRename
  PROVE  Ready' /\ NamesInv'
<1>1. PICK base : Based(base)
  BY DEF NamesInv
<1>2. TextTyped /\ PhisPlaced /\ CallsTyped /\ Progress /\ NamedRight /\ Makers \subseteq CfgBlocks
  BY MakersAreBlocks DEF Ready, NamesInv
<1>3. UNCHANGED <<domVars, text, phis>> /\ UNCHANGED <<named, filled>>
  BY DEF RenameChild, ReturnRename
<1>4. Ready' /\ PhisPlaced' /\ NamedRight'
  BY <1>2, <1>3, ReadyStays, TextStays, RightStays
<1>5. CallsTyped' /\ (\E more : Based(more)') /\ Progress'
  BY <1>1, <1>2, ChildStep, ReturnStep, ChildProgress, ReturnProgress
<1>6. (\E more : Based(more))'
  BY <1>5
<1>. QED
  BY <1>4, <1>5, <1>6 DEF NamesInv

LEMMA NamesStay ==
  ASSUME NamesInv, UNCHANGED <<domVars, ssaVars>>
  PROVE  NamesInv'
<1>1. UNCHANGED <<domVars, text, phis>> /\ UNCHANGED <<named, filled>> /\ calls' = calls /\ stack' = stack /\ idom' = idom
  BY DEF ssaVars, domVars
<1>2. /\ CfgBlocks' = CfgBlocks /\ PhisPlaced' /\ NamedRight'
      /\ \A b : End(b)' = End(b)
      /\ \A b, i, w : InForce(b, i, w)' = InForce(b, i, w)
  BY <1>1, TextStays, RightStays DEF NamesInv
<1>3. CallsTyped'
  BY <1>1, <1>2 DEF CallsTyped, Calls, NamesInv
<1>4. PICK base : Based(base)
  BY DEF NamesInv
<1>5. Based(base)'
  <2>1. \A k, h : Mark(calls[k])' = Mark(calls[k]) /\ Held(h)' = Held(h)
    BY <1>1, <1>2 DEF Mark, Held
  <2>. QED
    BY <1>1, <1>2, <1>4, <2>1 DEF Based
<1>6. Progress'
  BY <1>1, ProgressStays DEF Progress, Coming, NamesInv
<1>. QED
  BY <1>2, <1>3, <1>5, <1>6 DEF NamesInv

LEMMA SsaNextInv ==
  ASSUME SsaInv, [SsaNext]_formVars
  PROVE  SsaInv'
<1>1. Ready => Found
  BY FoundAtLast DEF Ready, SsaInv
<1>2. CASE FindDominance
  <2>1. building = "dominance" /\ DomNext /\ UNCHANGED ssaVars
    BY <1>2 DEF FindDominance
  <2>2. DomInv' /\ building' = building /\ phis' = {} /\ NothingNamed'
    BY <2>1, DomNextInv DEF SsaInv, ssaVars, NothingNamed
  <2>. QED
    BY <2>1, <2>2 DEF SsaInv
<1>3. ASSUME UNCHANGED domVars PROVE DomInv'
  BY <1>3, DomStutterInv DEF SsaInv
<1>4. CASE StartPhis
  <2>1. building = "dominance" /\ UNCHANGED domVars /\ building' = "phis" /\ phis = {} /\ NothingNamed
    BY <1>4 DEF StartPhis, SsaInv
  <2>. QED
    BY <1>3, <1>4, <2>1, StartPhisStep DEF SsaInv
<1>5. CASE PlacePhi
  <2>1. building = "phis" /\ UNCHANGED domVars /\ building' = building
    BY <1>5 DEF PlacePhi
  <2>2. Ready /\ PhisUnderWay /\ NothingNamed
    BY <2>1 DEF SsaInv
  <2>3. Ready' /\ PhisUnderWay' /\ NothingNamed'
    BY <1>1, <1>5, <2>2, PlacePhiStep
  <2>. QED
    BY <1>3, <2>1, <2>3 DEF SsaInv
<1>6. CASE StartNames
  <2>1. building = "phis" /\ UNCHANGED domVars /\ building' = "names"
    BY <1>6 DEF StartNames
  <2>2. Ready /\ PhisUnderWay /\ NothingNamed
    BY <2>1 DEF SsaInv
  <2>3. Ready' /\ NamesInv'
    BY <1>1, <1>6, <2>2, StartNamesStep
  <2>. QED
    BY <1>3, <2>1, <2>3 DEF SsaInv
<1>7. CASE NamePhi \/ NameUse \/ NameDef \/ FillSuccessors
  <2>1. building = "names" /\ UNCHANGED domVars /\ building' = building
    BY <1>7 DEF NamePhi, NameUse, NameDef, FillSuccessors, GoOn
  <2>2. Ready /\ NamesInv
    BY <2>1 DEF SsaInv
  <2>3. Ready' /\ NamesInv'
    BY <1>1, <1>7, <2>2, GoOnStep
  <2>. QED
    BY <1>3, <2>1, <2>3 DEF SsaInv
<1>8. CASE RenameChild \/ ReturnRename
  <2>1. building = "names" /\ UNCHANGED domVars /\ building' = building
    BY <1>8 DEF RenameChild, ReturnRename, Finishing
  <2>2. Ready /\ NamesInv
    BY <2>1 DEF SsaInv
  <2>3. Ready' /\ NamesInv'
    BY <1>1, <1>8, <2>2, TreeStep
  <2>. QED
    BY <1>3, <2>1, <2>3 DEF SsaInv
<1>9. CASE UNCHANGED formVars
  <2>1. UNCHANGED <<domVars, ssaVars>> /\ UNCHANGED <<domVars, text, phis>> /\ building' = building
    BY <1>9 DEF formVars, ssaVars
  <2>2. (NothingNamed => NothingNamed') /\ (phis = {} => phis' = {})
    BY <1>9 DEF formVars, ssaVars, NothingNamed
  <2>3. PhisUnderWay => PhisUnderWay'
    <3>1. work' = work /\ frontier' = frontier /\ phis' = phis
      BY <1>9 DEF formVars, ssaVars, domVars
    <3>. QED
      BY <2>1, <3>1, TextStays DEF PhisUnderWay
  <2>4. Ready => Ready'
    BY <2>1, ReadyStays
  <2>5. NamesInv => NamesInv'
    BY <2>1, NamesStay
  <2>. QED
    BY <1>3, <2>1, <2>2, <2>3, <2>4, <2>5 DEF SsaInv
<1>. QED
  BY <1>2, <1>4, <1>5, <1>6, <1>7, <1>8, <1>9 DEF SsaNext

THEOREM SsaInvariant == SsaSpec => []SsaInv
<1>1. SsaInit => SsaInv
  BY DomInitInv DEF SsaInit, SsaInv, NothingNamed
<1>. QED
  BY <1>1, SsaNextInv, PTL DEF SsaSpec

THEOREM VersionsAreExact == SsaSpec => []VersionsExact
<1>1. ASSUME SsaInv PROVE VersionsExact
  <2>1. CASE building # "names"
    <3>1. DOMAIN named = {} /\ DOMAIN filled = {}
      BY <1>1, <2>1 DEF SsaInv, NothingNamed
    <3>. QED
      BY <2>1, <3>1 DEF VersionsExact
  <2>2. CASE building = "names"
    <3>1. Ready /\ Progress /\ NamedRight
      BY <1>1, <2>2 DEF SsaInv, NamesInv
    <3>2. ASSUME calls = <<>>
          PROVE  /\ DOMAIN named = {u \in UNION {{b} \X DOMAIN text[b] : b \in CfgBlocks} : ReadsAt(u[1], u[2])}
                 /\ DOMAIN filled = {e \in CfgBlocks \X phis : e[2] \in cfg[e[1]]}
      <4>1. \A b \in CfgBlocks : NamedTo(b, End(b)) /\ Filled(b)
        <5>1. \A b \in CfgBlocks : ~ Coming(b)
          BY <3>2 DEF Coming
        <5>. QED
          BY <3>1, <5>1 DEF Progress
      <4>2. ASSUME NEW b \in CfgBlocks, NEW i \in DOMAIN text[b], ReadsAt(b, i) PROVE <<b, i>> \in DOMAIN named
        <5>1. i < End(b)
          BY <3>1, TextTypes DEF Ready
        <5>. QED
          BY <4>1, <4>2, <5>1 DEF NamedTo
      <4>3. VarUses \subseteq DOMAIN named
        BY <4>2 DEF VarUses
      <4>4. PhiEdges \subseteq DOMAIN filled
        BY <4>1 DEF PhiEdges, Filled
      <4>5. DOMAIN named = VarUses /\ DOMAIN filled = PhiEdges
        BY <3>1, <4>3, <4>4 DEF Progress
      <4>. QED
        BY <4>5 DEF VarUses, PhiEdges
    <3>. QED
      BY <3>1, <3>2 DEF VersionsExact, NamedRight
  <2>. QED
    BY <2>1, <2>2
<1>. QED
  BY <1>1, SsaInvariant, PTL
=============================================================================
