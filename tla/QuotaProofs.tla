----------------------------- MODULE QuotaProofs -----------------------------
(***************************************************************************)
(* Proofs about the quota tracker, for every finite set of requesting      *)
(* threads, all partners, limits, capacities and bounds.                   *)
(***************************************************************************)
EXTENDS Quota, FiniteSetTheorems, TLAPS

One(b) == IF b THEN 1 ELSE 0

-----------------------------------------------------------------------------
\* The audit side of TypeOK.
AuditTyped ==
  /\ channel \in Seq(Record) /\ Len(channel) <= Capacity
  /\ batch \in Seq(Record) /\ Len(batch) <= BatchMax
  /\ closed \in BOOLEAN /\ writer \in {"recv", "fill", "sync", "done"}

\* The usage side: limits and counters.
UsageTyped ==
  /\ limits \in LimitMaps
  /\ used \in [Partners -> Nat] /\ inflight \in [Partners -> Nat]
  /\ alerted \in [Partners -> BOOLEAN]
  /\ strayed \in [Partners -> Int]

Tallies == {written, alerts, window, won, granted, forgiven} \subseteq [Partners -> Nat]

\* TypeOK but for billed, whose type depends on a fold over the batch: BillingInv
\* has it.
Typed == AuditTyped /\ UsageTyped /\ Tallies /\ call \in [Requests -> CallState]

\* What Typed says of a request at each of its steps.
LEMMA Locals ==
  ASSUME Typed, NEW r \in Requests
  PROVE  /\ At(r, "decide") => call[r].who \in Partners /\ call[r].limit \in Nat
         /\ At(r, "audit") \/ At(r, "roll_back") =>
              /\ call[r].who \in Partners /\ call[r].since \in Nat
              /\ call[r] = [at |-> call[r].at, who |-> call[r].who, since |-> call[r].since]
         /\ At(r, "alert") \/ At(r, "admitted") => call[r].who \in Partners
         /\ At(r, "collect") \/ At(r, "report") =>
              /\ call[r].rows \in [Partners -> Nat] /\ call[r].left \in SUBSET Partners
              /\ call[r] = [at |-> call[r].at, rows |-> call[r].rows, left |-> call[r].left]
<1>1. call[r] \in CallState
  BY DEF Typed
<1>2. CASE call[r] = Idle
  BY <1>2 DEF Idle, At
<1>3. CASE call[r] \in [at : {"decide"}, who : Partners, limit : Nat]
  BY <1>3 DEF At
<1>4. CASE call[r] \in [at : {"audit", "roll_back"}, who : Partners, since : Nat]
  BY <1>4 DEF At
<1>5. CASE call[r] \in [at : {"alert", "admitted"}, who : Partners]
  BY <1>5 DEF At
<1>6. CASE call[r] \in [at : {"collect", "report"}, rows : [Partners -> Nat],
                       left : SUBSET Partners]
  BY <1>6 DEF At
<1>. QED
  BY <1>1, <1>2, <1>3, <1>4, <1>5, <1>6 DEF CallState

\* The empty sequence is one over any set.
LEMMA EmptySequence ==
  ASSUME NEW S
  PROVE  <<>> \in Seq(S) /\ Len(<<>>) = 0
OBVIOUS

\* The initial state is well typed.
LEMMA TypeInit ==
  ASSUME Init
  PROVE  Typed
<1>1. channel \in Seq(Record) /\ Len(channel) <= Capacity
  BY QuotaAssumption, EmptySequence DEF Init
<1>2. batch \in Seq(Record) /\ Len(batch) <= BatchMax
  BY QuotaAssumption, EmptySequence DEF Init
<1>3. call \in [Requests -> CallState]
  BY DEF Init, CallState
<1>4. /\ used \in [Partners -> Nat] /\ inflight \in [Partners -> Nat]
      /\ alerted \in [Partners -> BOOLEAN] /\ strayed \in [Partners -> Int]
  BY DEF Init, PerPartner
<1>5. {written, alerts, window, won, granted, forgiven} \subseteq [Partners -> Nat]
  BY DEF Init, PerPartner
<1>6. limits \in LimitMaps /\ closed \in BOOLEAN /\ writer \in {"recv", "fill", "sync", "done"}
  BY DEF Init
<1>. QED
  BY <1>1, <1>2, <1>3, <1>4, <1>5, <1>6 DEF Typed, AuditTyped, UsageTyped, Tallies

\* A request may go to any state of CallState.
LEMMA Goes ==
  ASSUME Typed, NEW r \in Requests, NEW next \in CallState, Goto(r, next)
  PROVE  call' \in [Requests -> CallState]
BY DEF Typed, Goto

\* Counting up or down one partner's tally keeps it a tally.
LEMMA TallyMoves ==
  ASSUME NEW f \in [Partners -> Nat], NEW p \in Partners
  PROVE  /\ [f EXCEPT ![p] = @ + 1] \in [Partners -> Nat]
         /\ [f EXCEPT ![p] = LessOne(@)] \in [Partners -> Nat]
         /\ [f EXCEPT ![p] = 0] \in [Partners -> Nat]
BY DEF LessOne

\* One more record keeps a channel with room within its capacity.
LEMMA OneMoreRecord ==
  ASSUME AuditTyped, Room, NEW rec \in Record
  PROVE  Append(channel, rec) \in Seq(Record) /\ Len(Append(channel, rec)) <= Capacity
BY QuotaAssumption DEF AuditTyped, Room

\* All the variables keep their types when a request takes a step.
LEMMA TypeStepOfRequest ==
  ASSUME Typed, NEW r \in Requests, Call(r) \/ Step(r)
  PROVE  Typed'
<1>. USE DEF counters, audit, bounds, history
<1>a. AuditTyped /\ UsageTyped /\ Tallies /\ call \in [Requests -> CallState]
  BY DEF Typed
<1>b. AuditTyped' /\ UsageTyped' /\ Tallies' /\ call' \in [Requests -> CallState] => Typed'
  BY DEF Typed
<1>1. ASSUME NEW p \in Partners, LoadLimit(r, p) PROVE Typed'
  <2>1. p \in DOMAIN limits => [at |-> "decide", who |-> p, limit |-> limits[p]] \in CallState
    BY <1>a, QuotaAssumption DEF UsageTyped, CallState
  <2>2. call' \in [Requests -> CallState]
    BY <1>a, <1>b, <1>1, <2>1, Goes DEF LoadLimit
  <2>3. UNCHANGED <<limits, counters, audit, alerts, history>>
    BY <1>a, <1>b, <1>1 DEF LoadLimit
  <2>. QED
    BY <1>a, <1>b, <2>2, <2>3 DEF AuditTyped, UsageTyped, Tallies
<1>2. CASE Decide(r)
  <2>1. call[r].who \in Partners /\ call[r].limit \in Nat
    BY <1>a, <1>b, <1>2, Locals DEF Decide
  <2>. DEFINE p == call[r].who
  <2>2. /\ Idle \in CallState /\ [at |-> "alert", who |-> p] \in CallState
        /\ [at |-> "audit", who |-> p, since |-> window[p]] \in CallState
    BY <1>a, <2>1 DEF CallState, Tallies
  <2>3. call' \in [Requests -> CallState]
    BY <1>a, <1>b, <1>2, <2>2, Goes DEF Decide
  <2>4. UNCHANGED <<limits, audit, alerts, history>>
    BY <1>a, <1>b, <1>2 DEF Decide
  <2>5. used' \in [Partners -> Nat] /\ inflight' \in [Partners -> Nat]
    BY <1>a, <1>2, <2>1, TallyMoves DEF Decide, UsageTyped
  <2>6. alerted' \in [Partners -> BOOLEAN]
    BY <1>a, <1>2, <2>1 DEF Decide, RememberAlert, UsageTyped
  <2>. QED
    BY <1>a, <1>b, <2>3, <2>4, <2>5, <2>6 DEF AuditTyped, UsageTyped, Tallies
<1>3. CASE Alert(r)
  <2>1. call[r].who \in Partners /\ Idle \in CallState
    BY <1>a, <1>b, <1>3, Locals DEF Alert, CallState
  <2>2. call' \in [Requests -> CallState]
    BY <1>a, <1>b, <1>3, <2>1, Goes DEF Alert
  <2>3. alerts' \in [Partners -> Nat]
    BY <1>a, <1>3, <2>1, TallyMoves DEF Alert, Tallies
  <2>. QED
    <3>1. AuditTyped' /\ UsageTyped'
      BY <1>a, <1>3 DEF Alert, AuditTyped, UsageTyped
    <3>2. Tallies'
      BY <1>a, <1>3, <2>3 DEF Alert, Tallies
    <3>. QED
      BY <1>b, <2>2, <3>1, <3>2
<1>4. CASE Audit(r)
  <2>. DEFINE p == call[r].who
  <2>1. p \in Partners /\ call[r].since \in Nat
        /\ call[r] = [at |-> call[r].at, who |-> p, since |-> call[r].since]
    BY <1>a, <1>b, <1>4, Locals DEF Audit
  <2>2. /\ [at |-> "admitted", who |-> p] \in CallState
        /\ [call[r] EXCEPT !.at = "roll_back"] \in CallState
    BY <2>1 DEF CallState
  <2>3. call' \in [Requests -> CallState]
    BY <1>a, <1>b, <1>4, <2>2, Goes DEF Audit, Grant
  <2>4. granted' \in [Partners -> Nat] /\ won' \in [Partners -> Nat]
    <3>1. granted \in [Partners -> Nat] /\ won \in [Partners -> Nat]
      BY <1>a DEF Tallies
    <3>2. CASE Room
      <4>1. granted' = [granted EXCEPT ![p] = @ + 1]
        BY <1>4, <3>2 DEF Audit, Grant
      <4>2. won' = [won EXCEPT ![p] = @ + 1] \/ won' = won
        BY <1>4, <3>2 DEF Audit, Grant
      <4>. QED
        BY <2>1, <3>1, <4>1, <4>2, TallyMoves
    <3>3. CASE ~Room
      BY <1>4, <3>1, <3>3 DEF Audit
    <3>. QED
      BY <3>2, <3>3
  <2>5. channel' \in Seq(Record) /\ Len(channel') <= Capacity
    <3>1. Admit(p) \in Record
      BY <2>1 DEF Admit, Record
    <3>2. CASE Room
      BY <1>a, <1>4, <3>1, <3>2, OneMoreRecord DEF Audit
    <3>3. CASE ~Room
      BY <1>a, <1>b, <1>4, <3>3 DEF Audit, AuditTyped
    <3>. QED
      BY <3>2, <3>3
  <2>. QED
    BY <1>a, <1>b, <1>4, <2>3, <2>4, <2>5 DEF Audit, AuditTyped, UsageTyped, Tallies
<1>5. CASE RollBack(r)
  <2>. DEFINE p == call[r].who
  <2>1. p \in Partners /\ Idle \in CallState
    BY <1>a, <1>b, <1>5, Locals DEF RollBack, CallState
  <2>2. call' \in [Requests -> CallState]
    BY <1>a, <1>b, <1>5, <2>1, Goes DEF RollBack
  <2>3. used' \in [Partners -> Nat] /\ inflight' \in [Partners -> Nat]
    BY <1>a, <1>5, <2>1, TallyMoves DEF RollBack, Release, UsageTyped
  <2>4. strayed' \in [Partners -> Int]
    <3>1. strayed \in [Partners -> Int]
      BY <1>a DEF UsageTyped
    <3>2. /\ [strayed EXCEPT ![p] = @ + 1] \in [Partners -> Int]
          /\ [strayed EXCEPT ![p] = @ - 1] \in [Partners -> Int]
          /\ [strayed EXCEPT ![p] = @] \in [Partners -> Int]
      BY <2>1, <3>1
    <3>3. \/ strayed' = [strayed EXCEPT ![p] = @ + 1]
          \/ strayed' = [strayed EXCEPT ![p] = @ - 1]
          \/ strayed' = [strayed EXCEPT ![p] = @]
      BY <1>5 DEF RollBack, NoteRollBack
    <3>. QED
      BY <3>2, <3>3
  <2>5. forgiven' \in [Partners -> Nat]
    BY <1>a, <1>5, <2>1, TallyMoves DEF RollBack, NoteRollBack, Tallies
  <2>6. UNCHANGED <<limits, closed, writer, batch, channel, written, alerts, window, won, granted, alerted>>
    BY <1>5 DEF RollBack, NoteRollBack
  <2>7. AuditTyped'
    BY <1>a, <2>6 DEF AuditTyped
  <2>8. UsageTyped' /\ Tallies'
    BY <1>a, <2>3, <2>4, <2>5, <2>6 DEF UsageTyped, Tallies
  <2>. QED
    BY <2>2, <2>7, <2>8 DEF Typed
<1>6. CASE DropAdmission(r)
  <2>1. call[r].who \in Partners /\ Idle \in CallState
    BY <1>a, <1>b, <1>6, Locals DEF DropAdmission, CallState
  <2>2. call' \in [Requests -> CallState]
    BY <1>a, <1>b, <1>6, <2>1, Goes DEF DropAdmission
  <2>3. inflight' \in [Partners -> Nat]
    BY <1>a, <1>b, <1>6, <2>1 DEF DropAdmission, LessOne, UsageTyped
  <2>. QED
    BY <1>a, <1>b, <1>6, <2>2, <2>3 DEF DropAdmission, AuditTyped, UsageTyped, Tallies
<1>7. CASE BeginClose(r)
  <2>1. [at |-> "collect", rows |-> PerPartner(0), left |-> Partners] \in CallState
    BY DEF CallState, PerPartner
  <2>2. call' \in [Requests -> CallState]
    BY <1>a, <1>b, <1>7, <2>1, Goes DEF BeginClose
  <2>. QED
    BY <1>a, <1>b, <1>7, <2>2 DEF BeginClose, AuditTyped, UsageTyped, Tallies
<1>8. ASSUME NEW p \in Partners, CloseShard(r, p) PROVE Typed'
  <2>. DEFINE next == [at |-> IF call[r].left = {p} THEN "report" ELSE "collect",
                       rows |-> [call[r].rows EXCEPT ![p] = used[p]],
                       left |-> call[r].left \ {p}]
  <2>1. /\ call[r].rows \in [Partners -> Nat] /\ call[r].left \in SUBSET Partners
        /\ call[r] = [at |-> call[r].at, rows |-> call[r].rows, left |-> call[r].left]
    BY <1>a, <1>b, <1>8, Locals DEF CloseShard
  <2>3. [call[r].rows EXCEPT ![p] = used[p]] \in [Partners -> Nat]
    BY <1>a, <2>1 DEF UsageTyped
  <2>4. next \in CallState
    BY <2>1, <2>3 DEF CallState
  <2>5. call' \in [Requests -> CallState]
    BY <1>a, <1>b, <1>8, <2>4, Goes DEF CloseShard
  <2>6. /\ used' \in [Partners -> Nat] /\ alerted' \in [Partners -> BOOLEAN]
        /\ strayed' \in [Partners -> Int]
    BY <1>a, <1>b, <1>8 DEF CloseShard, UsageTyped
  <2>7. window' \in [Partners -> Nat] /\ won' \in [Partners -> Nat]
    BY <1>a, <1>b, <1>8 DEF CloseShard, Tallies
  <2>. QED
    <3>1. AuditTyped' /\ UsageTyped'
      BY <1>a, <1>8, <2>6 DEF CloseShard, AuditTyped, UsageTyped
    <3>2. Tallies'
      BY <1>a, <1>8, <2>7 DEF CloseShard, Tallies
    <3>. QED
      BY <1>b, <2>5, <3>1, <3>2
<1>9. CASE Report(r)
  <2>1. Idle \in CallState /\ call[r].rows \in [Partners -> Nat]
    BY <1>a, <1>b, <1>9, Locals DEF Report, CallState
  <2>2. call' \in [Requests -> CallState]
    BY <1>a, <1>b, <1>9, <2>1, Goes DEF Report
  <2>3. channel' \in Seq(Record) /\ Len(channel') <= Capacity
    <3>1. WindowClosed(call[r].rows) \in Record
      BY <2>1 DEF WindowClosed, Record
    <3>. QED
      BY <1>a, <1>9, <3>1, OneMoreRecord DEF Report
  <2>. QED
    BY <1>a, <1>b, <1>9, <2>2, <2>3 DEF Report, AuditTyped, UsageTyped, Tallies
<1>. QED
  BY <1>1, <1>2, <1>3, <1>4, <1>5, <1>6, <1>7, <1>8, <1>9 DEF Call, Step

\* A record on its way is counted by a number.
LEMMA CopiesNat ==
  ASSUME NEW s \in Seq(Record), NEW p
  PROVE  /\ IsFiniteSet({i \in DOMAIN s : s[i] = Admit(p)})
         /\ Copies(s, p) \in Nat
<1>1. DOMAIN s = 1 .. Len(s) /\ Len(s) \in Nat
  OBVIOUS
<1>2. IsFiniteSet(1 .. Len(s))
  BY <1>1, FS_Interval
<1>3. {i \in DOMAIN s : s[i] = Admit(p)} \in SUBSET (1 .. Len(s))
  BY <1>1
<1>. QED
  BY <1>2, <1>3, FS_Subset, FS_CardinalityType DEF Copies

\* The writer moves a record from the head of the channel to the batch.
LEMMA TakeTypes ==
  ASSUME AuditTyped, channel # <<>>, Take
  PROVE  /\ channel' \in Seq(Record) /\ Len(channel') = Len(channel) - 1
         /\ batch' \in Seq(Record) /\ Len(batch') = Len(batch) + 1
BY DEF AuditTyped, Take

\* The writer's batch is empty while it waits for a record.
BatchEmptied == writer = "recv" => batch = <<>>

\* All the variables keep their types when the writer, a reload or a shutdown steps.
LEMMA TypeStepOfOthers ==
  ASSUME Typed, BatchEmptied, Reload \/ Shutdown \/ Writer \/ UNCHANGED vars
  PROVE  Typed'
<1>. USE DEF counters, audit, bounds, history
<1>a. AuditTyped /\ UsageTyped /\ Tallies /\ call \in [Requests -> CallState]
  BY DEF Typed
<1>1. CASE Reload \/ Shutdown \/ UNCHANGED vars
  <2>1. AuditTyped' /\ UsageTyped' /\ Tallies' /\ call' = call
    BY <1>a, <1>1 DEF Reload, Shutdown, vars, AuditTyped, UsageTyped, Tallies
  <2>. QED
    BY <1>a, <2>1 DEF Typed
<1>2. CASE Writer
  <2>1. UsageTyped' /\ call' = call
    BY <1>a, <1>2 DEF Writer, UsageTyped
  <2>2. closed' = closed
    BY <1>2 DEF Writer
  <2>3. AuditTyped'
    <3>1. CASE Recv
      <4>1. Len(batch) = 0 \/ writer' = "done"
        BY <3>1 DEF Recv, BatchEmptied
      <4>. QED
        BY <1>a, <2>2, <3>1, <4>1, TakeTypes, QuotaAssumption DEF Recv, AuditTyped
    <3>2. CASE FillBatch
      BY <1>a, <2>2, <3>2, TakeTypes, QuotaAssumption DEF FillBatch, AuditTyped
    <3>3. CASE Sync
      BY <1>a, <2>2, <3>3, EmptySequence, QuotaAssumption DEF Sync, AuditTyped
    <3>. QED
      BY <1>2, <3>1, <3>2, <3>3 DEF Writer
  <2>4. written' \in [Partners -> Nat]
    <3>1. CASE Sync
      <4>1. written \in [Partners -> Nat] /\ batch \in Seq(Record)
        BY <1>a DEF Tallies, AuditTyped
      <4>2. ASSUME NEW p \in Partners PROVE written[p] + Copies(batch, p) \in Nat
        <5>1. written[p] \in Nat /\ Copies(batch, p) \in Nat
          BY <4>1, CopiesNat
        <5>. QED
          BY <5>1
      <4>. QED
        BY <3>1, <4>2 DEF Sync
    <3>2. CASE UNCHANGED written
      BY <1>a, <3>2 DEF Tallies
    <3>. QED
      BY <1>2, <3>1, <3>2 DEF Writer
  <2>5. Tallies'
    BY <1>a, <1>2, <2>4 DEF Writer, Tallies
  <2>. QED
    BY <1>a, <2>1, <2>3, <2>5 DEF Typed
<1>. QED
  BY <1>1, <1>2

\* Only Recv and FillBatch put records into the batch, and Sync empties it.
LEMMA BatchEmptiedStep ==
  ASSUME BatchEmptied, [Next]_vars
  PROVE  BatchEmptied'
<1>. USE DEF counters, audit, bounds, history, BatchEmptied
<1>1. ASSUME NEW r \in Requests, Call(r) \/ Step(r) PROVE BatchEmptied'
  BY <1>1 DEF Call, Step, LoadLimit, BeginClose, DropAdmission, Decide, Alert, Audit, RollBack,
              CloseShard, Report
<1>2. CASE Reload \/ Shutdown \/ UNCHANGED vars
  BY <1>2 DEF Reload, Shutdown, vars
<1>3. CASE Writer
  BY <1>3 DEF Writer, Recv, FillBatch, Sync
<1>. QED
  BY <1>1, <1>2, <1>3 DEF Next

\* Every step keeps the types.
LEMMA TypeStep ==
  ASSUME Typed, BatchEmptied, [Next]_vars
  PROVE  Typed'
BY TypeStepOfRequest, TypeStepOfOthers DEF Next
-----------------------------------------------------------------------------
\* Sets of requests are finite, and their sizes are numbers.
LEMMA FiniteRequests ==
  ASSUME NEW S \in SUBSET Requests
  PROVE  IsFiniteSet(S) /\ Cardinality(S) \in Nat
BY QuotaAssumption, FS_Subset, FS_CardinalityType

\* How many elements a set has after one request went in, out or neither.
LEMMA OneMoves ==
  ASSUME NEW S \in SUBSET Requests, NEW T \in SUBSET Requests, NEW r \in Requests,
         S \ {r} = T \ {r}
  PROVE  Cardinality(T) = Cardinality(S) + One(r \in T) - One(r \in S)
<1>. DEFINE R == S \ {r}
<1>1. IsFiniteSet(R) /\ Cardinality(R) \in Nat
  BY FiniteRequests
<1>2. ASSUME NEW U \in SUBSET Requests, U \ {r} = R
      PROVE  Cardinality(U) = Cardinality(R) + One(r \in U)
  <2>1. CASE r \in U
    <3>1. U = R \union {r} /\ r \notin R
      BY <1>2, <2>1
    <3>. QED
      BY <3>1, <2>1, <1>1, FS_AddElement DEF One
  <2>2. CASE r \notin U
    <3>1. U = R
      BY <1>2, <2>2
    <3>. QED
      BY <3>1, <2>2, <1>1 DEF One
  <2>. QED
    BY <2>1, <2>2
<1>3. Cardinality(S) = Cardinality(R) + One(r \in S)
  BY <1>2
<1>4. Cardinality(T) = Cardinality(R) + One(r \in T)
  BY <1>2
<1>. QED
  BY <1>1, <1>3, <1>4 DEF One

\* A step of request r leaves the calls of the others alone.
LEMMA OthersStay ==
  ASSUME Typed, NEW r \in Requests, Call(r) \/ Step(r)
  PROVE  \A q \in Requests \ {r} : call'[q] = call[q]
<1>. USE DEF Typed, Goto
<1>1. CASE Call(r)
  BY <1>1 DEF Call, LoadLimit, BeginClose, DropAdmission
<1>2. CASE Decide(r) \/ Alert(r) \/ RollBack(r) \/ Report(r)
  BY <1>2 DEF Decide, Alert, RollBack, Report
<1>3. CASE Audit(r)
  BY <1>3 DEF Audit, Grant
<1>4. ASSUME NEW p \in Partners, CloseShard(r, p) PROVE \A q \in Requests \ {r} : call'[q] = call[q]
  BY <1>4 DEF CloseShard
<1>. QED
  BY <1>1, <1>2, <1>3, <1>4 DEF Step

\* The three outcomes of Decide.
LEMMA Outcomes ==
  ASSUME Typed, NEW r \in Requests, Decide(r)
  PROVE  LET p == call[r].who
         IN  \/ /\ Exhausted(r) /\ UNCHANGED <<used, inflight>>
                /\ alerted' = [alerted EXCEPT ![p] = TRUE]
                /\ call'[r].at = IF alerted[p] THEN "idle" ELSE "alert"
             \/ UNCHANGED counters /\ call'[r].at = "idle"
             \/ /\ ~Exhausted(r) /\ inflight[p] < MaxInflight
                /\ used' = [used EXCEPT ![p] = @ + 1]
                /\ inflight' = [inflight EXCEPT ![p] = @ + 1]
                /\ alerted' = alerted /\ call'[r].at = "audit"
<1>. DEFINE p == call[r].who
<1>1. \A next : Goto(r, next) => call'[r] = next
  BY DEF Goto, Typed
<1>2. CASE Exhausted(r)
  <2>1. /\ UNCHANGED <<used, inflight>> /\ alerted' = [alerted EXCEPT ![p] = TRUE]
        /\ Goto(r, IF alerted[p] THEN Idle ELSE [at |-> "alert", who |-> p])
    BY <1>2 DEF Decide, RememberAlert
  <2>2. call'[r] = IF alerted[p] THEN Idle ELSE [at |-> "alert", who |-> p]
    BY <1>1, <2>1
  <2>. QED
    BY <1>2, <2>1, <2>2 DEF Idle
<1>3. CASE ~Exhausted(r) /\ SlotsTaken(p) /\ Goto(r, Idle) /\ UNCHANGED counters
  BY <1>1, <1>3 DEF Idle
<1>4. inflight[p] \in Nat /\ MaxInflight \in Nat
  BY QuotaAssumption, Locals DEF Decide, Typed, UsageTyped
<1>5. CASE /\ ~Exhausted(r) /\ ~SlotsTaken(p)
           /\ used' = [used EXCEPT ![p] = @ + 1]
           /\ inflight' = [inflight EXCEPT ![p] = @ + 1]
           /\ Goto(r, [at |-> "audit", who |-> p, since |-> window[p]])
           /\ UNCHANGED alerted
  <2>1. inflight[p] < MaxInflight
    BY <1>4, <1>5 DEF SlotsTaken
  <2>. QED
    BY <1>1, <1>5, <2>1
<1>. QED
  BY <1>2, <1>3, <1>5 DEF Decide

\* Where a step of request r takes its own call.
LEMMA Moves ==
  ASSUME Typed, NEW r \in Requests
  PROVE  /\ \A p \in Partners : LoadLimit(r, p) =>
              At(r, "idle") /\ call'[r].at \in {"idle", "decide"}
         /\ Decide(r) => /\ At(r, "decide")
                         /\ call'[r].at = "audit" => /\ call'[r].who = call[r].who
                                                     /\ call'[r].since = window[call[r].who]
                         /\ call'[r].at = "alert" => call'[r].who = call[r].who
                         /\ call'[r].at \in {"idle", "alert", "audit"}
         /\ Alert(r) => At(r, "alert") /\ call'[r].at = "idle"
         /\ Audit(r) => /\ At(r, "audit") /\ call'[r].who = call[r].who
                        /\ call'[r].at = IF Room THEN "admitted" ELSE "roll_back"
                        /\ ~Room => call'[r].since = call[r].since
         /\ RollBack(r) => At(r, "roll_back") /\ call'[r].at = "idle"
         /\ DropAdmission(r) => At(r, "admitted") /\ call'[r].at = "idle"
         /\ BeginClose(r) => At(r, "idle") /\ call'[r].at = "collect"
         /\ \A p \in Partners : CloseShard(r, p) =>
              At(r, "collect") /\ call'[r].at \in {"collect", "report"}
         /\ Report(r) => At(r, "report") /\ call'[r].at = "idle"
<1>. USE DEF Typed, Goto, Idle, At
<1>1. ASSUME NEW p \in Partners, LoadLimit(r, p)
      PROVE  At(r, "idle") /\ call'[r].at \in {"idle", "decide"}
  BY <1>1 DEF LoadLimit
<1>2. ASSUME Decide(r)
      PROVE  /\ At(r, "decide")
             /\ call'[r].at = "audit" => /\ call'[r].who = call[r].who
                                         /\ call'[r].since = window[call[r].who]
             /\ call'[r].at = "alert" => call'[r].who = call[r].who
             /\ call'[r].at \in {"idle", "alert", "audit"}
  BY <1>2 DEF Decide
<1>3. Alert(r) => At(r, "alert") /\ call'[r].at = "idle"
  BY DEF Alert
<1>4. ASSUME Audit(r)
      PROVE  /\ At(r, "audit") /\ call'[r].who = call[r].who
             /\ call'[r].at = IF Room THEN "admitted" ELSE "roll_back"
             /\ ~Room => call'[r].since = call[r].since
  <2>1. call[r] = [at |-> call[r].at, who |-> call[r].who, since |-> call[r].since]
    BY <1>4, Locals DEF Audit
  <2>2. CASE Room
    BY <1>4, <2>2 DEF Audit, Grant
  <2>3. CASE ~Room
    BY <1>4, <2>1, <2>3 DEF Audit
  <2>. QED
    BY <2>2, <2>3
<1>5. ASSUME RollBack(r) PROVE At(r, "roll_back") /\ call'[r].at = "idle"
  <2>1. At(r, "roll_back") /\ call' = [call EXCEPT ![r] = Idle]
    BY <1>5 DEF RollBack
  <2>. QED
    BY <2>1
<1>6. DropAdmission(r) => At(r, "admitted") /\ call'[r].at = "idle"
  BY DEF DropAdmission
<1>7. BeginClose(r) => At(r, "idle") /\ call'[r].at = "collect"
  BY DEF BeginClose
<1>8. ASSUME NEW p \in Partners, CloseShard(r, p)
      PROVE  At(r, "collect") /\ call'[r].at \in {"collect", "report"}
  BY <1>8 DEF CloseShard
<1>9. Report(r) => At(r, "report") /\ call'[r].at = "idle"
  BY DEF Report
<1>. QED
  BY <1>1, <1>2, <1>3, <1>4, <1>5, <1>6, <1>7, <1>8, <1>9

\* How the sets that the invariants count change when one request steps.
LEMMA CallsMove ==
  ASSUME NEW r \in Requests, \A q \in Requests \ {r} : call'[q] = call[q],
         NEW p \in Partners
  PROVE  /\ Cardinality(Holding(p)') = Cardinality(Holding(p))
                                        + One(r \in Holding(p)') - One(r \in Holding(p))
         /\ Cardinality(CallsOf(p, {"alert"})')
              = Cardinality(CallsOf(p, {"alert"}))
                + One(r \in CallsOf(p, {"alert"})') - One(r \in CallsOf(p, {"alert"}))
<1>1. Holding(p) \in SUBSET Requests /\ Holding(p)' \in SUBSET Requests
  BY DEF Holding, CallsOf
<1>2. Holding(p) \ {r} = Holding(p)' \ {r}
  BY DEF Holding, CallsOf
<1>3. /\ CallsOf(p, {"alert"}) \in SUBSET Requests
      /\ CallsOf(p, {"alert"})' \in SUBSET Requests
  BY DEF CallsOf
<1>4. CallsOf(p, {"alert"}) \ {r} = CallsOf(p, {"alert"})' \ {r}
  BY DEF CallsOf
<1>. QED
  BY <1>1, <1>2, <1>3, <1>4, OneMoves
-----------------------------------------------------------------------------
\* SlotsExact

\* No slot is taken at first.
LEMMA SlotsInit ==
  ASSUME Init
  PROVE  SlotsExact
<1>1. \A p \in Partners : Holding(p) = {}
  BY DEF Init, Holding, CallsOf, Idle
<1>2. 0 <= MaxInflight
  BY QuotaAssumption
<1>3. \A p \in Partners : inflight[p] = 0
  BY DEF Init, PerPartner
<1>. QED
  BY <1>1, <1>2, <1>3, FS_EmptySet DEF SlotsExact

\* A slot that is held is counted.
LEMMA HeldIsPositive ==
  ASSUME NEW p \in Partners, NEW r \in Holding(p)
  PROVE  Cardinality(Holding(p)) \in Nat /\ Cardinality(Holding(p)) > 0
<1>1. Holding(p) \in SUBSET Requests
  BY DEF Holding, CallsOf
<1>. QED
  BY <1>1, FiniteRequests, FS_EmptySet

\* Decide takes a slot, RollBack and DropAdmission free one, nothing else does.
LEMMA SlotsStep ==
  ASSUME Typed, SlotsExact, [Next]_vars
  PROVE  SlotsExact'
<1>. USE DEF counters, audit, bounds, history
<1>1. ASSUME UNCHANGED <<inflight, call>>
      PROVE  SlotsExact'
  BY <1>1 DEF SlotsExact, Holding, CallsOf
<1>2. ASSUME NEW r \in Requests, Call(r) \/ Step(r)
      PROVE  SlotsExact'
  <2>. SUFFICES ASSUME NEW p \in Partners
                PROVE  inflight'[p] = Cardinality(Holding(p)') /\ inflight'[p] <= MaxInflight
    BY DEF SlotsExact
  <2>a. Cardinality(Holding(p)') = Cardinality(Holding(p)) + One(r \in Holding(p)')
                                                          - One(r \in Holding(p))
    BY <1>2, OthersStay, CallsMove
  <2>b. inflight[p] = Cardinality(Holding(p)) /\ inflight[p] <= MaxInflight
        /\ inflight \in [Partners -> Nat]
    BY DEF SlotsExact, Typed, UsageTyped
  <2>c. (r \in Holding(p) <=> call[r].at \in {"audit", "roll_back", "admitted"} /\ call[r].who = p)
        /\ (r \in Holding(p)' <=>
              call'[r].at \in {"audit", "roll_back", "admitted"} /\ call'[r].who = p)
    BY DEF Holding, CallsOf
  <2>1. ASSUME inflight' = inflight, r \in Holding(p) <=> r \in Holding(p)'
        PROVE  inflight'[p] = Cardinality(Holding(p)') /\ inflight'[p] <= MaxInflight
    BY <2>1, <2>a, <2>b DEF One
  <2>2. ASSUME NEW q \in Partners, LoadLimit(r, q)
        PROVE  inflight' = inflight /\ (r \in Holding(p) <=> r \in Holding(p)')
    BY <2>2, <2>c, Moves DEF LoadLimit, At
  <2>3. CASE Decide(r)
    <3>1. CASE inflight' = inflight /\ call'[r].at # "audit"
      BY <2>1, <2>3, <2>c, <3>1, Moves DEF At
    <3>2. CASE /\ inflight[call[r].who] < MaxInflight
               /\ inflight' = [inflight EXCEPT ![call[r].who] = @ + 1]
               /\ call'[r].at = "audit"
      <4>1. r \notin Holding(p) /\ (r \in Holding(p)' <=> call[r].who = p)
        BY <2>3, <2>c, <3>2, Moves DEF At
      <4>. QED
        BY <2>a, <2>b, <3>2, <4>1, QuotaAssumption DEF One
    <3>. QED
      BY <2>3, <3>1, <3>2, Outcomes
  <2>4. CASE Alert(r) \/ BeginClose(r) \/ Report(r)
    BY <2>4, <2>1, <2>c, Moves DEF Alert, BeginClose, Report, At
  <2>5. CASE Audit(r)
    BY <2>5, <2>1, <2>c, Moves DEF Audit, At
  <2>6. CASE RollBack(r) \/ DropAdmission(r)
    <3>1. inflight' = [inflight EXCEPT ![call[r].who] = LessOne(@)]
      BY <2>6 DEF RollBack, DropAdmission, Release
    <3>2. (r \in Holding(p) <=> call[r].who = p) /\ r \notin Holding(p)'
      BY <2>6, <2>c, Moves DEF At
    <3>3. CASE r \in Holding(p)
      BY <2>a, <2>b, <3>1, <3>2, <3>3, HeldIsPositive, QuotaAssumption DEF One, LessOne
    <3>4. CASE r \notin Holding(p)
      BY <2>a, <2>b, <3>1, <3>2, <3>4 DEF One
    <3>. QED
      BY <3>3, <3>4
  <2>7. ASSUME NEW q \in Partners, CloseShard(r, q)
        PROVE  inflight' = inflight /\ (r \in Holding(p) <=> r \in Holding(p)')
    BY <2>7, <2>c, Moves DEF CloseShard, At
  <2>. QED
    BY <1>2, <2>1, <2>2, <2>3, <2>4, <2>5, <2>6, <2>7 DEF Call, Step
<1>3. CASE Reload \/ Shutdown \/ Writer \/ UNCHANGED vars
  BY <1>1, <1>3 DEF Reload, Shutdown, Writer, vars
<1>. QED
  BY <1>2, <1>3 DEF Next
-----------------------------------------------------------------------------
\* OneAlertPerWindow

\* An alert given or on its way belongs to a closed window, or to the open one
\* if its flag is set.
AlertsOwed ==
  \A p \in Partners :
    alerts[p] + Cardinality(CallsOf(p, {"alert"})) <= window[p] + One(alerted[p])

\* The requests about to alert are counted by a number in both states.
LEMMA AlertSizes ==
  ASSUME NEW p \in Partners
  PROVE  Cardinality(CallsOf(p, {"alert"})) \in Nat /\ Cardinality(CallsOf(p, {"alert"})') \in Nat
<1>1. /\ CallsOf(p, {"alert"}) \in SUBSET Requests
      /\ CallsOf(p, {"alert"})' \in SUBSET Requests
  BY DEF CallsOf
<1>. QED
  BY <1>1, FiniteRequests

\* No alert is owed at first.
LEMMA AlertsInit ==
  ASSUME Init
  PROVE  AlertsOwed
<1>1. \A p \in Partners : CallsOf(p, {"alert"}) = {}
  BY DEF Init, CallsOf, Idle
<1>2. \A p \in Partners : alerts[p] = 0 /\ window[p] = 0 /\ alerted[p] = FALSE
  BY DEF Init, PerPartner
<1>. QED
  BY <1>1, <1>2, FS_EmptySet DEF AlertsOwed, One

\* Decide owes an alert only when it sets the flag, and CloseShard resets the flag
\* when it opens a window.
LEMMA AlertsStep ==
  ASSUME Typed, AlertsOwed, [Next]_vars
  PROVE  AlertsOwed'
<1>. USE DEF counters, audit, bounds, history
<1>0. ASSUME NEW p \in Partners
      PROVE  alerts[p] \in Nat /\ window[p] \in Nat /\ alerted[p] \in BOOLEAN
  <2>1. alerts \in [Partners -> Nat] /\ window \in [Partners -> Nat]
    BY DEF Typed, Tallies
  <2>. QED
    BY <2>1 DEF Typed, UsageTyped
<1>1. ASSUME UNCHANGED <<alerts, window, alerted, call>>
      PROVE  AlertsOwed'
  BY <1>1 DEF AlertsOwed, CallsOf
<1>2. ASSUME NEW r \in Requests, Call(r) \/ Step(r)
      PROVE  AlertsOwed'
  <2>. SUFFICES ASSUME NEW p \in Partners
                PROVE  alerts'[p] + Cardinality(CallsOf(p, {"alert"})')
                         <= window'[p] + One(alerted'[p])
    BY DEF AlertsOwed
  <2>. DEFINE size == Cardinality(CallsOf(p, {"alert"}))
              holds == call[r].at = "alert" /\ call[r].who = p
  <2>a. Cardinality(CallsOf(p, {"alert"})')
          = size + One(r \in CallsOf(p, {"alert"})') - One(r \in CallsOf(p, {"alert"}))
    BY <1>2, OthersStay, CallsMove
  <2>b. (r \in CallsOf(p, {"alert"}) <=> holds) /\ (r \in CallsOf(p, {"alert"})' <=> holds')
    BY DEF CallsOf
  <2>c. alerts[p] + size <= window[p] + One(alerted[p]) /\ size \in Nat
    BY AlertSizes DEF AlertsOwed
  <2>. HIDE DEF size
  <2>1. ASSUME alerts'[p] = alerts[p], window'[p] = window[p], alerted'[p] = alerted[p],
               ~holds, ~holds'
        PROVE  alerts'[p] + Cardinality(CallsOf(p, {"alert"})') <= window'[p] + One(alerted'[p])
    BY <2>1, <2>a, <2>b, <2>c DEF One
  <2>2. ASSUME NEW q \in Partners, LoadLimit(r, q)
        PROVE  UNCHANGED <<alerts, window, alerted>> /\ ~holds /\ ~holds'
    BY <2>2, Moves DEF LoadLimit, At
  <2>3. CASE Decide(r)
    <3>0. UNCHANGED <<alerts, window>> /\ ~holds
      BY <2>3 DEF Decide, At
    <3>1. CASE alerted' = alerted /\ call'[r].at # "alert"
      BY <2>1, <3>0, <3>1
    <3>2. CASE /\ alerted' = [alerted EXCEPT ![call[r].who] = TRUE]
               /\ call'[r].at = IF alerted[call[r].who] THEN "idle" ELSE "alert"
      <4>1. holds' <=> ~alerted[call[r].who] /\ call[r].who = p
        BY <2>3, <3>2, Moves
      <4>2. alerted'[p] <=> alerted[p] \/ call[r].who = p
        BY <3>2 DEF Typed, UsageTyped
      <4>3. alerted'[p] \in BOOLEAN /\ alerted[p] \in BOOLEAN
        BY <1>0, <3>2 DEF Typed, UsageTyped
      <4>4. CASE holds'
        <5>1. One(alerted[p]) = 0 /\ One(alerted'[p]) = 1
          BY <4>1, <4>2, <4>4 DEF One
        <5>. QED
          BY <1>0, <2>a, <2>b, <2>c, <3>0, <4>4, <5>1 DEF One
      <4>5. CASE ~holds'
        <5>1. One(alerted[p]) = One(alerted'[p])
          BY <4>1, <4>2, <4>5 DEF One
        <5>. QED
          BY <1>0, <2>a, <2>b, <2>c, <3>0, <4>5, <5>1 DEF One
      <4>. QED
        BY <4>4, <4>5
    <3>. QED
      BY <2>3, <3>1, <3>2, Outcomes
  <2>4. CASE Alert(r)
    <3>1. /\ alerts' = [alerts EXCEPT ![call[r].who] = @ + 1]
          /\ UNCHANGED <<window, alerted>> /\ ~holds' /\ (holds <=> call[r].who = p)
      BY <2>4, Moves DEF Alert, At
    <3>2. alerts'[p] = alerts[p] + One(holds)
      BY <1>0, <3>1 DEF One, Typed, Tallies
    <3>. QED
      BY <1>0, <2>a, <2>b, <2>c, <3>1, <3>2 DEF One
  <2>5. CASE BeginClose(r) \/ Report(r) \/ RollBack(r) \/ DropAdmission(r)
    BY <2>5, <2>1, Moves DEF BeginClose, Report, RollBack, DropAdmission, Release, At
  <2>6. CASE Audit(r)
    BY <2>6, <2>1, Moves DEF Audit, Grant, At
  <2>7. ASSUME NEW q \in Partners, CloseShard(r, q)
        PROVE  alerts'[p] + Cardinality(CallsOf(p, {"alert"})') <= window'[p] + One(alerted'[p])
    <3>1. /\ alerts' = alerts /\ ~holds /\ ~holds'
          /\ window' = [window EXCEPT ![q] = @ + 1] /\ alerted' = [alerted EXCEPT ![q] = FALSE]
      BY <2>7, Moves DEF CloseShard, At
    <3>2. CASE p # q
      BY <2>1, <3>1, <3>2
    <3>3. CASE p = q
      <4>1. window'[p] = window[p] + 1 /\ alerted'[p] = FALSE
        BY <3>1, <3>3 DEF Typed, UsageTyped, Tallies
      <4>. QED
        BY <1>0, <2>a, <2>b, <2>c, <3>1, <4>1 DEF One
    <3>. QED
      BY <3>2, <3>3
  <2>. QED
    BY <1>2, <2>1, <2>2, <2>3, <2>4, <2>5, <2>6, <2>7 DEF Call, Step
<1>3. CASE Reload \/ Shutdown \/ Writer \/ UNCHANGED vars
  BY <1>1, <1>3 DEF Reload, Shutdown, Writer, vars
<1>. QED
  BY <1>2, <1>3 DEF Next
-----------------------------------------------------------------------------
\* AuditComplete

Positions(s, p) == {i \in DOMAIN s : s[i] = Admit(p)}

\* Copies is the number of positions of a record.
LEMMA CopiesCountPositions ==
  ASSUME NEW s \in Seq(Record), NEW p
  PROVE  /\ Copies(s, p) = Cardinality(Positions(s, p)) /\ Copies(s, p) \in Nat
         /\ IsFiniteSet(Positions(s, p))
BY CopiesNat DEF Copies, Positions

\* There is no copy in the empty sequence.
LEMMA CopiesEmpty ==
  ASSUME NEW p
  PROVE  Copies(<<>>, p) = 0
BY FS_EmptySet DEF Copies

\* A record at the end of a sequence adds itself to the copies.
LEMMA CopiesAppend ==
  ASSUME NEW s \in Seq(Record), NEW rec \in Record, NEW p
  PROVE  Copies(Append(s, rec), p) = Copies(s, p) + One(rec = Admit(p))
<1>. DEFINE n == Len(s) + 1
<1>1. IsFiniteSet(Positions(s, p)) /\ Cardinality(Positions(s, p)) \in Nat
  BY CopiesCountPositions
<1>2. n \notin Positions(s, p)
  BY DEF Positions
<1>3. Positions(Append(s, rec), p)
        = IF rec = Admit(p) THEN Positions(s, p) \union {n} ELSE Positions(s, p)
  BY DEF Positions
<1>4. Cardinality(Positions(s, p) \union {n}) = Cardinality(Positions(s, p)) + 1
  BY <1>1, <1>2, FS_AddElement
<1>. QED
  <2>1. Append(s, rec) \in Seq(Record)
    OBVIOUS
  <2>2. Copies(Append(s, rec), p) = Cardinality(Positions(Append(s, rec), p))
    BY <2>1, CopiesCountPositions
  <2>3. Copies(s, p) = Cardinality(Positions(s, p))
    BY CopiesCountPositions
  <2>. QED
    BY <1>1, <1>3, <1>4, <2>2, <2>3 DEF One

\* The copies of two sequences are those of the one and of the other.
LEMMA CopiesConcat ==
  ASSUME NEW s \in Seq(Record), NEW t \in Seq(Record), NEW p
  PROVE  Copies(s \o t, p) = Copies(s, p) + Copies(t, p)
<1>. DEFINE A == Positions(s, p)
            B == Positions(t, p)
            C == {i \in Positions(s \o t, p) : i > Len(s)}
            f == [i \in B |-> i + Len(s)]
<1>1. s \o t \in Seq(Record) /\ Len(s \o t) = Len(s) + Len(t) /\ Len(s) \in Nat /\ Len(t) \in Nat
  OBVIOUS
<1>2. /\ \A i \in 1 .. Len(s) : (s \o t)[i] = s[i]
      /\ \A i \in 1 .. Len(t) : (s \o t)[i + Len(s)] = t[i]
  OBVIOUS
<1>3. A \subseteq 1 .. Len(s) /\ B \subseteq 1 .. Len(t)
  BY <1>1 DEF Positions
<1>4. Positions(s \o t, p) = A \union C /\ A \intersect C = {}
  BY <1>1, <1>2 DEF Positions
<1>5. f \in Bijection(B, C)
  <2>1. \A i \in B : f[i] \in C
    BY <1>1, <1>2 DEF Positions
  <2>2. \A j \in C : \E i \in B : f[i] = j
    <3>. SUFFICES ASSUME NEW j \in C PROVE j - Len(s) \in B /\ f[j - Len(s)] = j
      OBVIOUS
    <3>1. j \in 1 .. Len(s) + Len(t) /\ j > Len(s) /\ (s \o t)[j] = Admit(p)
      BY <1>1 DEF Positions
    <3>2. j - Len(s) \in 1 .. Len(t)
      BY <1>1, <3>1
    <3>3. t[j - Len(s)] = Admit(p)
      BY <1>1, <1>2, <3>1, <3>2
    <3>. QED
      BY <1>1, <3>1, <3>2, <3>3 DEF Positions
  <2>3. \A i, j \in B : f[i] = f[j] => i = j
    BY <1>1, <1>3
  <2>. QED
    <3>1. f \in [B -> C]
      BY <2>1
    <3>. HIDE DEF B, C, f
    <3>. QED
      BY <2>2, <2>3, <3>1 DEF Bijection, Injection, Surjection, IsInjective
<1>6. IsFiniteSet(A) /\ IsFiniteSet(B) /\ Cardinality(A) \in Nat /\ Cardinality(B) \in Nat
  BY CopiesCountPositions
<1>7. IsFiniteSet(C) /\ Cardinality(C) = Cardinality(B)
  BY <1>5, <1>6, FS_Bijection DEF ExistsBijection
<1>8. Cardinality(A \union C) = Cardinality(A) + Cardinality(C)
  <2>1. Cardinality(A \intersect C) = 0
    BY <1>4, FS_EmptySet
  <2>2. IsFiniteSet(A) /\ IsFiniteSet(C) /\ Cardinality(A) \in Nat /\ Cardinality(C) \in Nat
    BY <1>6, <1>7
  <2>. HIDE DEF A, C
  <2>3. Cardinality(A \union C) = Cardinality(A) + Cardinality(C) - Cardinality(A \intersect C)
    BY <2>2, FS_Union
  <2>. QED
    BY <2>1, <2>2, <2>3
<1>. QED
  BY <1>1, <1>4, <1>7, <1>8, CopiesCountPositions

\* What is taken from the head of the channel is missing from its copies.
LEMMA CopiesTake ==
  ASSUME NEW s \in Seq(Record), s # <<>>, NEW p
  PROVE  Copies(s, p) = One(Head(s) = Admit(p)) + Copies(Tail(s), p)
<1>1. Head(s) \in Record /\ Tail(s) \in Seq(Record) /\ <<>> \in Seq(Record)
  OBVIOUS
<1>2. <<Head(s)>> = Append(<<>>, Head(s)) /\ <<Head(s)>> \in Seq(Record)
  BY <1>1
<1>3. Copies(<<Head(s)>>, p) = One(Head(s) = Admit(p))
  <2>1. Positions(<<Head(s)>>, p) = IF Head(s) = Admit(p) THEN {1} ELSE {}
    BY DEF Positions
  <2>2. Copies(<<Head(s)>>, p) = Cardinality(Positions(<<Head(s)>>, p))
    BY <1>2, CopiesCountPositions
  <2>. QED
    BY <2>1, <2>2, FS_EmptySet, FS_Singleton DEF One
<1>4. s = <<Head(s)>> \o Tail(s)
  BY <1>1
<1>. QED
  <2>1. Copies(<<Head(s)>> \o Tail(s), p) = Copies(<<Head(s)>>, p) + Copies(Tail(s), p)
    BY <1>1, <1>2, CopiesConcat
  <2>. QED
    BY <1>3, <1>4, <2>1

\* Records on their way, wherever they are.
OnTheWay(p) == Copies(channel, p) + Copies(batch, p)

\* The channel followed by the batch holds the copies of both.
LEMMA OnTheWayIsCopies ==
  ASSUME Typed, NEW p
  PROVE  /\ Copies(channel \o batch, p) = OnTheWay(p)
         /\ Copies(channel, p) \in Nat /\ Copies(batch, p) \in Nat
<1>1. channel \in Seq(Record) /\ batch \in Seq(Record)
  BY DEF Typed, AuditTyped
<1>. QED
  BY <1>1, CopiesConcat, CopiesNat DEF OnTheWay

AuditInv == \A p \in Partners : OnTheWay(p) + written[p] = granted[p]

\* Nothing is granted or audited at first.
LEMMA AuditInit ==
  ASSUME Init
  PROVE  AuditInv
<1>1. \A p \in Partners : written[p] = 0 /\ granted[p] = 0
  BY DEF Init, PerPartner
<1>2. channel = <<>> /\ batch = <<>>
  BY DEF Init
<1>. QED
  BY <1>1, <1>2, CopiesEmpty DEF AuditInv, OnTheWay

\* Only an admission adds a record of one.
LEMMA AuditStepOfRequest ==
  ASSUME Typed, AuditInv, NEW r \in Requests, Call(r) \/ Step(r)
  PROVE  AuditInv'
<1>. USE DEF counters, audit, bounds, history
<1>0. channel \in Seq(Record) /\ written \in [Partners -> Nat] /\ granted \in [Partners -> Nat]
  BY DEF Typed, AuditTyped, Tallies
<1>1. ASSUME UNCHANGED <<channel, batch, written, granted>>
      PROVE  AuditInv'
  BY <1>1 DEF AuditInv, OnTheWay
<1>2. CASE Call(r)
  BY <1>1, <1>2 DEF Call, LoadLimit, BeginClose, DropAdmission
<1>3. CASE Decide(r) \/ Alert(r) \/ RollBack(r) \/ \E q \in Partners : CloseShard(r, q)
  BY <1>1, <1>3 DEF Decide, Alert, RollBack, CloseShard
<1>4. CASE Audit(r)
  <2>1. CASE ~Room
    BY <1>1, <1>4, <2>1 DEF Audit
  <2>2. CASE Room
    <3>. DEFINE q == call[r].who
    <3>1. /\ q \in Partners /\ channel' = Append(channel, Admit(q)) /\ UNCHANGED <<batch, written>>
          /\ granted' = [granted EXCEPT ![q] = @ + 1]
      BY <1>4, <2>2, Locals DEF Audit, Grant
    <3>2. SUFFICES ASSUME NEW p \in Partners
                   PROVE  Copies(channel', p) + Copies(batch', p) + written'[p] = granted'[p]
      BY DEF AuditInv, OnTheWay
    <3>3. Admit(q) \in Record /\ (Admit(q) = Admit(p) <=> q = p)
      BY <3>1 DEF Admit, Record
    <3>4. Copies(channel', p) = Copies(channel, p) + One(q = p)
      <4>1. Copies(Append(channel, Admit(q)), p) = Copies(channel, p) + One(Admit(q) = Admit(p))
        BY <1>0, <3>3, CopiesAppend
      <4>. QED
        BY <3>1, <3>3, <4>1 DEF One
    <3>5. granted'[p] = granted[p] + One(q = p)
      BY <1>0, <3>1 DEF One
    <3>6. Copies(channel, p) + Copies(batch, p) + written[p] = granted[p]
      BY DEF AuditInv, OnTheWay
    <3>7. Copies(channel, p) \in Nat /\ Copies(batch, p) \in Nat /\ written[p] \in Nat
      BY <1>0, OnTheWayIsCopies
    <3>. QED
      BY <3>1, <3>4, <3>5, <3>6, <3>7 DEF One
  <2>. QED
    BY <2>1, <2>2
<1>5. CASE Report(r)
  <2>. DEFINE rec == WindowClosed(call[r].rows)
  <2>1. /\ channel' = Append(channel, rec) /\ UNCHANGED <<batch, written, granted>>
        /\ call[r].rows \in [Partners -> Nat]
    BY <1>5, Locals DEF Report
  <2>2. rec \in Record
    BY <2>1 DEF WindowClosed, Record
  <2>3. ASSUME NEW p \in Partners PROVE Copies(channel', p) = Copies(channel, p)
    <3>1. rec # Admit(p)
      BY DEF WindowClosed, Admit
    <3>2. Copies(Append(channel, rec), p) = Copies(channel, p) + One(rec = Admit(p))
      BY <1>0, <2>2, CopiesAppend
    <3>3. Copies(channel, p) \in Nat
      BY OnTheWayIsCopies
    <3>. QED
      BY <2>1, <3>1, <3>2, <3>3 DEF One
  <2>. QED
    BY <2>1, <2>3 DEF AuditInv, OnTheWay
<1>. QED
  BY <1>2, <1>3, <1>4, <1>5 DEF Step

\* The writer moves records on and loses none.
LEMMA AuditStepOfWriter ==
  ASSUME Typed, AuditInv, Writer
  PROVE  AuditInv'
<1>0. /\ channel \in Seq(Record) /\ batch \in Seq(Record)
      /\ written \in [Partners -> Nat] /\ granted' = granted
  BY DEF Typed, AuditTyped, Tallies, Writer, history
<1>1. CASE Take /\ channel # <<>> /\ UNCHANGED written
  <2>1. SUFFICES ASSUME NEW p \in Partners PROVE OnTheWay(p)' = OnTheWay(p)
    BY <1>0, <1>1 DEF AuditInv
  <2>. DEFINE moved == One(Head(channel) = Admit(p))
  <2>2. Copies(channel, p) = moved + Copies(channel', p)
    BY <1>0, <1>1, CopiesTake DEF Take
  <2>3. Head(channel) \in Record /\ channel' \in Seq(Record)
    BY <1>0, <1>1 DEF Take
  <2>4. Copies(batch', p) = Copies(batch, p) + moved
    BY <1>0, <1>1, <2>3, CopiesAppend DEF Take
  <2>5. Copies(channel', p) \in Nat /\ Copies(batch, p) \in Nat /\ moved \in Nat
    BY <1>0, <2>3, CopiesNat DEF One
  <2>. QED
    BY <2>2, <2>4, <2>5 DEF OnTheWay
<1>2. CASE Sync
  <2>1. SUFFICES ASSUME NEW p \in Partners
                 PROVE  Copies(channel', p) + Copies(batch', p) + written'[p] = granted'[p]
    BY DEF AuditInv, OnTheWay
  <2>2. channel' = channel /\ batch' = <<>> /\ written'[p] = written[p] + Copies(batch, p)
    BY <1>2 DEF Sync
  <2>3. Copies(batch', p) = 0
    BY <2>2, CopiesEmpty
  <2>4. Copies(channel, p) + Copies(batch, p) + written[p] = granted[p]
    BY DEF AuditInv, OnTheWay
  <2>5. Copies(channel, p) \in Nat /\ Copies(batch, p) \in Nat /\ written[p] \in Nat
    BY <1>0, OnTheWayIsCopies
  <2>. QED
    BY <1>0, <2>2, <2>3, <2>4, <2>5
<1>3. CASE UNCHANGED <<channel, batch, written>>
  BY <1>0, <1>3 DEF AuditInv, OnTheWay
<1>. QED
  BY <1>1, <1>2, <1>3 DEF Writer, Recv, FillBatch

\* Every step keeps records and admissions in agreement.
LEMMA AuditStep ==
  ASSUME Typed, AuditInv, [Next]_vars
  PROVE  AuditInv'
<1>1. CASE Reload \/ Shutdown \/ UNCHANGED vars
  BY <1>1 DEF Reload, Shutdown, vars, audit, history, AuditInv, OnTheWay
<1>. QED
  BY <1>1, AuditStepOfRequest, AuditStepOfWriter DEF Next
-----------------------------------------------------------------------------
\* UsageExact

\* At most is transitive on the natural numbers.
LEMMA AtMost ==
  ASSUME NEW a \in Nat, NEW b \in Nat, NEW c \in Nat, a <= b, b <= c
  PROVE  a <= c
OBVIOUS

\* A window that has been opened is not the next one.
LEMMA BeforeTheNext ==
  ASSUME NEW a \in Nat, NEW b \in Nat, a <= b
  PROVE  a # b + 1
OBVIOUS

\* A limit that a call compares with was published, and a reservation was made
\* in the open window or in an earlier one.
LocalsMeant ==
  \A r \in Requests :
    /\ At(r, "decide") => \E m \in LimitMaps : call[r].who \in DOMAIN m
                                             /\ call[r].limit = m[call[r].who]
    /\ call[r].at \in {"audit", "roll_back"} => call[r].since <= window[call[r].who]

\* No request has locals at first.
LEMMA LocalsMeantInit ==
  ASSUME Init
  PROVE  LocalsMeant
BY DEF Init, LocalsMeant, At, Idle

\* Windows only grow, and limits come from a published map.
LEMMA LocalsMeantStep ==
  ASSUME Typed, LocalsMeant, [Next]_vars
  PROVE  LocalsMeant'
<1>. USE DEF counters, audit, bounds, history
<1>0. window \in [Partners -> Nat] /\ call \in [Requests -> CallState] /\ limits \in LimitMaps
  BY DEF Typed, Tallies, UsageTyped
<1>1. CASE Reload \/ Shutdown \/ Writer \/ UNCHANGED vars
  BY <1>1 DEF Reload, Shutdown, Writer, vars, LocalsMeant, At
<1>2. ASSUME NEW r \in Requests, Call(r) \/ Step(r)
      PROVE  LocalsMeant'
  <2>1. \A q \in Requests \ {r} : call'[q] = call[q]
    BY <1>2, OthersStay
  <2>2. \A p \in Partners : window'[p] \in Nat /\ window[p] <= window'[p]
    <3>1. CASE window' = window
      BY <1>0, <3>1
    <3>2. ASSUME NEW q \in Partners, window' = [window EXCEPT ![q] = @ + 1]
          PROVE  \A p \in Partners : window'[p] \in Nat /\ window[p] <= window'[p]
      BY <1>0, <3>2
    <3>. QED
      BY <1>2, <3>1, <3>2 DEF Call, Step, LoadLimit, BeginClose, DropAdmission, Decide, Alert,
                              Audit, RollBack, CloseShard, Report
  <2>3. ASSUME NEW q \in Requests \ {r}
        PROVE  /\ call'[q].at = "decide" => \E m \in LimitMaps : call'[q].who \in DOMAIN m
                                                 /\ call'[q].limit = m[call'[q].who]
               /\ call'[q].at \in {"audit", "roll_back"} =>
                    call'[q].since <= window'[call'[q].who]
    <3>1. call[q].at \in {"audit", "roll_back"} =>
            /\ call[q].who \in Partners /\ call[q].since \in Nat
            /\ call[q].since <= window[call[q].who]
      BY Locals DEF LocalsMeant, At
    <3>2. call[q].at = "decide" => \E m \in LimitMaps : call[q].who \in DOMAIN m
                                                       /\ call[q].limit = m[call[q].who]
      BY DEF LocalsMeant, At
    <3>3. call[q].at \in {"audit", "roll_back"} => call[q].since <= window'[call[q].who]
      <4>. SUFFICES ASSUME call[q].at \in {"audit", "roll_back"}
                    PROVE  call[q].since <= window'[call[q].who]
        OBVIOUS
      <4>1. window[call[q].who] \in Nat /\ window'[call[q].who] \in Nat
            /\ window[call[q].who] <= window'[call[q].who]
        BY <1>0, <2>2, <3>1
      <4>2. call[q].since \in Nat /\ call[q].since <= window[call[q].who]
        BY <3>1
      <4>. QED
        BY <4>1, <4>2, AtMost
    <3>. QED
      BY <2>1, <3>2, <3>3
  <2>4. call'[r].at = "decide" => \E m \in LimitMaps : call'[r].who \in DOMAIN m
                                                       /\ call'[r].limit = m[call'[r].who]
    <3>1. ASSUME NEW p \in Partners, LoadLimit(r, p), call'[r].at = "decide"
          PROVE  /\ call'[r].who \in DOMAIN limits /\ call'[r].limit = limits[call'[r].who]
      <4>1. CASE p \in DOMAIN limits
        BY <1>0, <3>1, <4>1 DEF LoadLimit, Goto
      <4>2. CASE p \notin DOMAIN limits
        BY <3>1, <4>2 DEF LoadLimit, At
      <4>. QED
        BY <4>1, <4>2
    <3>2. ASSUME NEW p \in Partners, CloseShard(r, p)
          PROVE  call'[r].at # "decide"
      BY <3>2, Moves
    <3>. QED
      BY <1>0, <1>2, <3>1, <3>2, Moves DEF Call, Step
  <2>5. call'[r].at \in {"audit", "roll_back"} => call'[r].since <= window'[call'[r].who]
    <3>1. ASSUME Decide(r), call'[r].at = "audit"
          PROVE  call'[r].since <= window'[call'[r].who]
      <4>1. call[r].who \in Partners /\ window' = window
        BY <3>1, Locals DEF Decide
      <4>. QED
        <5>1. window[call[r].who] \in Nat
          BY <1>0, <4>1
        <5>2. call'[r].who = call[r].who /\ call'[r].since = window[call[r].who]
          BY <3>1, Moves
        <5>. QED
          BY <4>1, <5>1, <5>2
    <3>2. ASSUME Audit(r), call'[r].at = "roll_back"
          PROVE  call'[r].since <= window'[call'[r].who]
      BY <3>2, Moves DEF Audit, LocalsMeant, At
    <3>3. ASSUME NEW p \in Partners, LoadLimit(r, p) \/ CloseShard(r, p)
          PROVE  call'[r].at \notin {"audit", "roll_back"}
      BY <3>3, Moves
    <3>. QED
      BY <1>2, <3>1, <3>2, <3>3, Moves DEF Call, Step
  <2>. QED
    BY <2>3, <2>4, <2>5 DEF LocalsMeant, At
<1>. QED
  BY <1>1, <1>2 DEF Next

\* The reservations of the open window.
Pending(p) == {r \in Undecided(p) : call[r].since = window[p]}

\* The reservations of the open window are counted by a number.
LEMMA PendingSizes ==
  ASSUME NEW p \in Partners
  PROVE  Cardinality(Pending(p)) \in Nat
<1>1. Pending(p) \in SUBSET Requests
  BY DEF Pending, Undecided, CallsOf
<1>. QED
  BY <1>1, FiniteRequests

\* How their number changes when one request steps and the window stays.
LEMMA PendingMoves ==
  ASSUME NEW r \in Requests, \A q \in Requests \ {r} : call'[q] = call[q],
         NEW p \in Partners, window'[p] = window[p]
  PROVE  Cardinality(Pending(p)') = Cardinality(Pending(p))
                                      + One(r \in Pending(p)') - One(r \in Pending(p))
<1>1. Pending(p) \in SUBSET Requests /\ Pending(p)' \in SUBSET Requests
  BY DEF Pending, Undecided, CallsOf
<1>2. Pending(p) \ {r} = Pending(p)' \ {r}
  BY DEF Pending, Undecided, CallsOf
<1>. QED
  BY <1>1, <1>2, OneMoves

\* No usage at first.
LEMMA UsageInit ==
  ASSUME Init
  PROVE  UsageExact
<1>1. \A p \in Partners : used[p] = 0 /\ strayed[p] = 0 /\ won[p] = 0
  BY DEF Init, PerPartner
<1>2. \A p \in Partners : Pending(p) = {}
  BY DEF Init, Pending, Undecided, CallsOf, Idle
<1>. QED
  BY <1>1, <1>2, FS_EmptySet DEF UsageExact, Pending

\* What a step does to one partner's counter, and what it must do to its history.
Exact(p) ==
  /\ used[p] + strayed[p] = won[p] + Cardinality(Pending(p))
  /\ used[p] > 0 => \E m \in LimitMaps : p \in DOMAIN m /\ used[p] <= m[p]

\* Every step of a request moves the counter and what it counts together.
LEMMA UsageStep ==
  ASSUME Typed, LocalsMeant, UsageExact, [Next]_vars
  PROVE  UsageExact'
<1>. USE DEF counters, audit, bounds, history
<1>a. \A p \in Partners : Exact(p)
  BY DEF UsageExact, Exact, Pending
<1>b. (\A p \in Partners : Exact(p)') => UsageExact'
  BY DEF UsageExact, Exact, Pending
<1>c. /\ used \in [Partners -> Nat] /\ won \in [Partners -> Nat] /\ window \in [Partners -> Nat]
      /\ strayed \in [Partners -> Int]
  BY DEF Typed, UsageTyped, Tallies
<1>1. CASE Reload \/ Shutdown \/ Writer \/ UNCHANGED vars
  <2>1. UNCHANGED <<used, strayed, won, window, call>>
    BY <1>1 DEF Reload, Shutdown, Writer, vars
  <2>. QED
    BY <1>a, <1>b, <2>1 DEF Exact, Pending, Undecided, CallsOf
<1>2. ASSUME NEW r \in Requests, Call(r) \/ Step(r)
      PROVE  UsageExact'
  <2>. SUFFICES ASSUME NEW p \in Partners PROVE Exact(p)'
    BY <1>b
  <2>. DEFINE size == Cardinality(Pending(p))
  <2>a. window'[p] = window[p] =>
          Cardinality(Pending(p)') = size + One(r \in Pending(p)') - One(r \in Pending(p))
    BY <1>2, OthersStay, PendingMoves
  <2>b. /\ r \in Pending(p) <=> /\ call[r].at \in {"audit", "roll_back"} /\ call[r].who = p
                              /\ call[r].since = window[p]
        /\ r \in Pending(p)' <=> /\ call'[r].at \in {"audit", "roll_back"} /\ call'[r].who = p
                               /\ call'[r].since = window'[p]
    BY DEF Pending, Undecided, CallsOf
  <2>c. size \in Nat /\ Exact(p)
    BY <1>a, PendingSizes
  <2>1. ASSUME UNCHANGED <<used, strayed, won, window>>, r \in Pending(p)' <=> r \in Pending(p)
        PROVE  Exact(p)'
    BY <2>1, <2>a, <2>c DEF Exact, One
  <2>2. ASSUME NEW q \in Partners, LoadLimit(r, q)
        PROVE  Exact(p)'
    BY <2>2, <2>1, <2>b, Moves DEF LoadLimit, At
  <2>3. CASE Decide(r)
    <3>0. UNCHANGED <<strayed, won, window>> /\ At(r, "decide") /\ call[r].who \in Partners
      BY <2>3, Locals DEF Decide
    <3>1. CASE used' = used /\ call'[r].at # "audit"
      BY <2>1, <2>3, <2>b, <3>0, <3>1, Moves DEF At
    <3>2. CASE /\ ~Exhausted(r) /\ used' = [used EXCEPT ![call[r].who] = @ + 1]
               /\ call'[r].at = "audit"
      <4>1. r \notin Pending(p) /\ (r \in Pending(p)' <=> call[r].who = p)
        BY <2>3, <2>b, <3>0, <3>2, Moves DEF At
      <4>2. used'[p] = used[p] + One(call[r].who = p)
        BY <1>c, <3>2 DEF One
      <4>3. used'[p] + strayed'[p] = won'[p] + Cardinality(Pending(p)')
        BY <1>c, <2>a, <2>c, <3>0, <4>1, <4>2 DEF Exact, One
      <4>4. CASE call[r].who = p
        <5>1. PICK m \in LimitMaps : p \in DOMAIN m /\ call[r].limit = m[p]
          BY <3>0, <4>4 DEF LocalsMeant
        <5>2. call[r].limit \in Nat /\ used[p] < call[r].limit
          <6>1. call[r].limit \in Nat /\ used[p] \in Nat
            BY <1>c, <3>0, Locals
          <6>2. ~(used[p] >= call[r].limit)
            BY <3>2, <4>4 DEF Exhausted
          <6>. QED
            BY <6>1, <6>2
        <5>3. used'[p] <= m[p]
          BY <1>c, <4>2, <4>4, <5>1, <5>2 DEF One
        <5>. QED
          BY <4>3, <5>1, <5>3 DEF Exact
      <4>5. CASE call[r].who # p
        <5>1. used'[p] = used[p]
          BY <1>c, <4>2, <4>5 DEF One
        <5>. QED
          BY <2>c, <4>3, <5>1 DEF Exact
      <4>. QED
        BY <4>4, <4>5
    <3>. QED
      BY <2>3, <3>1, <3>2, Outcomes
  <2>4. CASE Alert(r) \/ BeginClose(r) \/ Report(r) \/ DropAdmission(r)
    BY <2>4, <2>1, <2>b, Moves DEF Alert, BeginClose, Report, DropAdmission, At
  <2>5. CASE Audit(r)
    <3>1. UNCHANGED <<used, strayed, window>>
      BY <2>5 DEF Audit
    <3>2. CASE ~Room
      BY <2>1, <2>5, <2>b, <3>1, <3>2, Moves DEF Audit, At
    <3>3. CASE Room
      <4>1. /\ r \notin Pending(p)'
            /\ won' = IF call[r].since = window[call[r].who]
                       THEN [won EXCEPT ![call[r].who] = @ + 1] ELSE won
        BY <2>5, <2>b, <3>3, Moves DEF Audit, Grant
      <4>2. r \in Pending(p) <=> call[r].who = p /\ call[r].since = window[p]
        BY <2>5, <2>b, Moves DEF At
      <4>3. won'[p] = won[p] + One(r \in Pending(p))
        BY <1>c, <4>1, <4>2 DEF One
      <4>. QED
        BY <1>c, <2>a, <2>c, <3>1, <4>1, <4>3 DEF Exact, One
    <3>. QED
      BY <3>2, <3>3
  <2>6. CASE RollBack(r)
    <3>. DEFINE q == call[r].who
    <3>1. /\ used' = [used EXCEPT ![q] = LessOne(@)] /\ UNCHANGED <<won, window>>
          /\ r \notin Pending(p)' /\ (r \in Pending(p) <=> q = p /\ call[r].since = window[p])
      BY <2>6, <2>b, Moves DEF RollBack, Release, At
    <3>2. strayed' = [strayed EXCEPT ![q] = CASE call[r].since # window[q] /\ used[q] > 0 -> @ + 1
                                              [] call[r].since = window[q] /\ used[q] = 0 -> @ - 1
                                              [] OTHER -> @]
      BY <2>6 DEF RollBack, NoteRollBack
    <3>3. CASE q # p
      <4>1. used'[p] = used[p] /\ strayed'[p] = strayed[p]
        BY <1>c, <3>1, <3>2, <3>3
      <4>. QED
        BY <1>c, <2>a, <2>c, <3>1, <3>3, <4>1 DEF Exact, One
    <3>4. CASE q = p
      <4>1. used'[p] = LessOne(used[p])
        BY <1>c, <3>1, <3>4
      <4>2. strayed'[p] = CASE call[r].since # window[p] /\ used[p] > 0 -> strayed[p] + 1
                            [] call[r].since = window[p] /\ used[p] = 0 -> strayed[p] - 1
                            [] OTHER -> strayed[p]
        BY <1>c, <3>2, <3>4
      <4>3. used'[p] + strayed'[p] = won'[p] + Cardinality(Pending(p)')
        BY <1>c, <2>a, <2>c, <3>1, <3>4, <4>1, <4>2 DEF Exact, One, LessOne
      <4>4. used'[p] > 0 => used[p] > 0 /\ used'[p] = used[p] - 1
        BY <1>c, <4>1 DEF LessOne
      <4>5. ASSUME used'[p] > 0
            PROVE  \E m \in LimitMaps : p \in DOMAIN m /\ used'[p] <= m[p]
        <5>1. PICK m \in LimitMaps : p \in DOMAIN m /\ used[p] <= m[p]
          BY <2>c, <4>4, <4>5 DEF Exact
        <5>2. m[p] \in Nat
          BY <5>1, QuotaAssumption
        <5>. QED
          BY <1>c, <4>4, <4>5, <5>1, <5>2
      <4>. QED
        BY <4>3, <4>5 DEF Exact
    <3>. QED
      BY <3>3, <3>4
  <2>7. ASSUME NEW q \in Partners, CloseShard(r, q)
        PROVE  Exact(p)'
    <3>0. /\ used' = [used EXCEPT ![q] = 0] /\ window' = [window EXCEPT ![q] = @ + 1]
          /\ won' = [won EXCEPT ![q] = 0] /\ strayed' = [strayed EXCEPT ![q] = 0]
          /\ r \notin Pending(p) /\ r \notin Pending(p)'
      BY <2>7, <2>b, Moves DEF CloseShard, At
    <3>1. CASE p # q
      BY <1>c, <2>a, <2>c, <3>0, <3>1 DEF Exact, One
    <3>2. CASE p = q
      <4>1. used'[p] = 0 /\ won'[p] = 0 /\ strayed'[p] = 0 /\ window'[p] = window[p] + 1
        BY <1>c, <3>0, <3>2
      <4>2. ASSUME NEW s \in Requests PROVE s \notin Pending(p)'
        <5>1. CASE s = r
          BY <3>0, <5>1
        <5>2. CASE s # r
          <6>1. call'[s] = call[s]
            BY <1>2, <5>2, OthersStay
          <6>2. call[s].at \in {"audit", "roll_back"} /\ call[s].who = p =>
                  call[s].since \in Nat /\ call[s].since <= window[p]
            BY Locals DEF LocalsMeant, At
          <6>3. window[p] \in Nat /\ window'[p] = window[p] + 1
            BY <1>c, <4>1
          <6>4. call[s].at \in {"audit", "roll_back"} /\ call[s].who = p =>
                  call[s].since # window'[p]
            BY <6>2, <6>3, BeforeTheNext
          <6>. QED
            BY <6>1, <6>4 DEF Pending, Undecided, CallsOf
        <5>. QED
          BY <5>1, <5>2
      <4>3. Pending(p)' = {}
        BY <4>2 DEF Pending, Undecided, CallsOf
      <4>. QED
        BY <4>1, <4>3, FS_EmptySet DEF Exact
    <3>. QED
      BY <3>1, <3>2
  <2>. QED
    BY <1>2, <2>2, <2>3, <2>4, <2>5, <2>6, <2>7 DEF Call, Step
<1>. QED
  BY <1>1, <1>2 DEF Next
-----------------------------------------------------------------------------
\* The inductive invariant.
QuotaInv ==
  Typed /\ BatchEmptied /\ SlotsExact /\ AlertsOwed /\ AuditInv /\ LocalsMeant /\ UsageExact

\* The invariant of the tracker: types, slots, alerts, audit records and usage
\* agree with the calls in progress, in every interleaving of try_acquire,
\* close_window, reload_limits, shutdown and the writer.
THEOREM QuotaInvariant == Spec => []QuotaInv
<1>1. Init => QuotaInv
  <2>1. Init => BatchEmptied
    BY DEF Init, BatchEmptied
  <2>. QED
    BY <2>1, TypeInit, SlotsInit, AlertsInit, AuditInit, LocalsMeantInit, UsageInit DEF QuotaInv
<1>2. QuotaInv /\ [Next]_vars => QuotaInv'
  BY TypeStep, BatchEmptiedStep, SlotsStep, AlertsStep, AuditStep, LocalsMeantStep, UsageStep
  DEF QuotaInv
<1>. QED
  BY <1>1, <1>2, PTL DEF Spec

\* In-flight slots are neither leaked nor freed twice: inflight counts the
\* requests between decide and the drop of their Admission, up to max_inflight.
THEOREM SlotsNeverLeak == Spec => []SlotsExact
BY QuotaInvariant, PTL DEF QuotaInv

\* A partner's used counter is that window's admissions and reservations, off
\* only by compensations that came late, and within a published limit.
THEOREM UsageIsExact == Spec => []UsageExact
BY QuotaInvariant, PTL DEF QuotaInv

\* Every admission has an audit record in the channel, in the batch or written.
THEOREM AuditIsComplete == Spec => []AuditComplete
<1>1. QuotaInv => AuditComplete
  BY OnTheWayIsCopies DEF QuotaInv, AuditInv, AuditComplete
<1>. QED
  BY <1>1, QuotaInvariant, PTL

\* on_exceeded runs at most once per partner and window, however many requests
\* find the quota exhausted at once.
THEOREM AlertOncePerWindow == Spec => []OneAlertPerWindow
<1>1. QuotaInv => OneAlertPerWindow
  <2>. SUFFICES ASSUME QuotaInv, NEW p \in Partners PROVE alerts[p] <= window[p] + 1
    BY DEF OneAlertPerWindow
  <2>1. alerts[p] + Cardinality(CallsOf(p, {"alert"})) <= window[p] + One(alerted[p])
    BY DEF QuotaInv, AlertsOwed
  <2>2. alerts[p] \in Nat /\ window[p] \in Nat
    BY DEF QuotaInv, Typed, Tallies
  <2>3. Cardinality(CallsOf(p, {"alert"})) \in Nat
    BY AlertSizes
  <2>. QED
    BY <2>1, <2>2, <2>3 DEF One
<1>. QED
  BY <1>1, QuotaInvariant, PTL

-----------------------------------------------------------------------------
\* Sums over finite sets.  The sum of w over S is the number of units <<x, i>>
\* with 1 <= i <= w[x]; cardinalities give what folds need induction for.
Units(S, w) == {u \in S \X Nat : 1 <= u[2] /\ u[2] <= w[u[1]]}
Total(S, w) == Cardinality(Units(S, w))

\* A set of numbers that is not empty has a least element.
LEMMA Least ==
  ASSUME NEW S \in SUBSET Nat, S # {}
  PROVE  \E n \in S : \A m \in S : n <= m
<1>1. PICK n \in S : \A m \in S : ~(<<m, n>> \in OpToRel(<, Nat))
  BY NatLessThanWellFounded, WFMin
<1>2. ASSUME NEW m \in S, m < n PROVE FALSE
  <2>1. <<m, n>> \in Nat \X Nat
    OBVIOUS
  <2>2. <<m, n>> \in OpToRel(<, Nat)
    BY <1>2, <2>1 DEF OpToRel
  <2>. QED
    BY <1>1, <2>2
<1>3. S \subseteq Nat
  OBVIOUS
<1>. QED
  BY <1>2, <1>3

\* A family that has the empty set, and a set as soon as it has the set without
\* any one element, has every finite set.
LEMMA SmallerFirst ==
  ASSUME NEW D, IsFiniteSet(D), NEW Good, {} \in Good,
         \A T \in SUBSET D : T # {} /\ (\A x \in T : T \ {x} \in Good) => T \in Good
  PROVE  D \in Good
<1>. DEFINE Bad == {T \in SUBSET D : T \notin Good}
            Sizes == {Cardinality(T) : T \in Bad}
<1>. SUFFICES ASSUME D \notin Good PROVE FALSE
  OBVIOUS
<1>1. \A T \in SUBSET D : IsFiniteSet(T) /\ Cardinality(T) \in Nat
  BY FS_Subset, FS_CardinalityType
<1>2. Sizes \in SUBSET Nat /\ Sizes # {}
  <2>1. D \in Bad
    OBVIOUS
  <2>2. Bad \subseteq SUBSET D
    OBVIOUS
  <2>. HIDE DEF Bad
  <2>. QED
    BY <1>1, <2>1, <2>2
<1>3. PICK n \in Sizes : \A m \in Sizes : n <= m
  <2>. HIDE DEF Sizes
  <2>. QED
    BY <1>2, Least
<1>4. PICK T \in Bad : n = Cardinality(T)
  BY <1>3
<1>5. T \in SUBSET D /\ T \notin Good /\ T # {}
  BY <1>4
<1>6. PICK x \in T : T \ {x} \notin Good
  BY <1>5
<1>7. T \ {x} \in Bad
  BY <1>5, <1>6
<1>8. Cardinality(T \ {x}) \in Sizes
  BY <1>7
<1>9. Cardinality(T \ {x}) = Cardinality(T) - 1
  BY <1>1, <1>5, <1>6, FS_RemoveElement
<1>10. Cardinality(T) <= Cardinality(T \ {x}) /\ Cardinality(T) \in Nat
  BY <1>1, <1>3, <1>4, <1>5, <1>8
<1>. QED
  BY <1>9, <1>10

\* The numbers up to n are finitely many, n of them.
LEMMA UpTo ==
  ASSUME NEW n \in Nat
  PROVE  IsFiniteSet(1 .. n) /\ Cardinality(1 .. n) = n
<1>1. 1 \in Int /\ n \in Int
  OBVIOUS
<1>2. IsFiniteSet(1 .. n) /\ Cardinality(1 .. n) = IF 1 > n THEN 0 ELSE n - 1 + 1
  BY <1>1, FS_Interval
<1>. QED
  BY <1>2

\* Nothing has no units.
LEMMA TotalEmpty ==
  ASSUME NEW w
  PROVE  IsFiniteSet(Units({}, w)) /\ Total({}, w) = 0
<1>1. Units({}, w) = {}
  BY DEF Units
<1>. QED
  BY <1>1, FS_EmptySet DEF Total

\* One element more adds its weight, if the units so far are finite.
LEMMA UnitsAdd ==
  ASSUME NEW S, NEW w, NEW x, x \notin S, w[x] \in Nat, IsFiniteSet(Units(S, w))
  PROVE  /\ IsFiniteSet(Units(S \union {x}, w))
         /\ Total(S \union {x}, w) = Total(S, w) + w[x]
<1>. DEFINE A == Units(S, w)
            B == {x} \X (1 .. w[x])
<1>1. Units(S \union {x}, w) = A \union B
  <2>1. ASSUME NEW u \in Units(S \union {x}, w) PROVE u \in A \union B
    <3>1. u \in (S \union {x}) \X Nat /\ 1 <= u[2] /\ u[2] <= w[u[1]]
      BY DEF Units
    <3>. QED
      BY <3>1 DEF Units
  <2>2. ASSUME NEW u \in A \union B PROVE u \in Units(S \union {x}, w)
    BY <2>2 DEF Units
  <2>. QED
    BY <2>1, <2>2
<1>2. A \intersect B = {}
  BY DEF Units
<1>3. IsFiniteSet({x}) /\ Cardinality({x}) = 1
  BY FS_Singleton
<1>4. IsFiniteSet(1 .. w[x]) /\ Cardinality(1 .. w[x]) = w[x]
  BY UpTo
<1>5. IsFiniteSet(B) /\ Cardinality(B) = w[x]
  <2>1. IsFiniteSet(B) /\ Cardinality(B) = Cardinality({x}) * Cardinality(1 .. w[x])
    BY <1>3, <1>4, FS_Product
  <2>2. 1 * w[x] = w[x]
    OBVIOUS
  <2>. QED
    BY <1>3, <1>4, <2>1, <2>2
<1>6. Cardinality(A \intersect B) = 0
  BY <1>2, FS_EmptySet
<1>. HIDE DEF B
<1>7. /\ IsFiniteSet(A \union B)
      /\ Cardinality(A \union B) = Cardinality(A) + Cardinality(B) - Cardinality(A \intersect B)
  BY <1>5, FS_Union
<1>8. Cardinality(A) \in Nat
  BY FS_CardinalityType
<1>. HIDE DEF A
<1>9. Cardinality(A \union B) = Cardinality(A) + w[x]
  BY <1>5, <1>6, <1>7, <1>8
<1>. USE DEF A
<1>. QED
  BY <1>1, <1>7, <1>9 DEF Total

\* A sum of numbers over a finite set is a number.
LEMMA TotalType ==
  ASSUME NEW S, IsFiniteSet(S), NEW w, \A x \in S : w[x] \in Nat
  PROVE  IsFiniteSet(Units(S, w)) /\ Total(S, w) \in Nat
<1>. DEFINE Good == {T \in SUBSET S : IsFiniteSet(Units(T, w))}
<1>1. {} \in Good
  BY TotalEmpty
<1>2. ASSUME NEW T \in SUBSET S, T # {}, \A x \in T : T \ {x} \in Good
      PROVE  T \in Good
  <2>1. PICK x : x \in T
    BY <1>2
  <2>2. IsFiniteSet(Units(T \ {x}, w)) /\ x \notin T \ {x} /\ w[x] \in Nat
    BY <1>2, <2>1
  <2>3. IsFiniteSet(Units((T \ {x}) \union {x}, w))
    BY <2>2, UnitsAdd
  <2>4. (T \ {x}) \union {x} = T
    BY <2>1
  <2>. QED
    BY <2>3, <2>4
<1>3. S \in Good
  <2>. HIDE DEF Good
  <2>. QED
    BY <1>1, <1>2, SmallerFirst
<1>. QED
  BY <1>3, FS_CardinalityType DEF Total

\* One element more adds its weight.
LEMMA TotalAdd ==
  ASSUME NEW S, IsFiniteSet(S), NEW w, NEW x, x \notin S,
         \A y \in S \union {x} : w[y] \in Nat
  PROVE  Total(S \union {x}, w) = Total(S, w) + w[x] /\ Total(S, w) \in Nat
BY TotalType, UnitsAdd

\* One element less takes its weight away.
LEMMA TotalRemove ==
  ASSUME NEW S, IsFiniteSet(S), NEW w, NEW x \in S, \A y \in S : w[y] \in Nat
  PROVE  Total(S, w) = Total(S \ {x}, w) + w[x] /\ Total(S \ {x}, w) \in Nat
<1>1. PICK R : R = S \ {x}
  OBVIOUS
<1>2. IsFiniteSet(R) /\ x \notin R /\ \A y \in R \union {x} : w[y] \in Nat
  BY <1>1, FS_Subset
<1>3. Total(R \union {x}, w) = Total(R, w) + w[x] /\ Total(R, w) \in Nat
  BY <1>2, TotalAdd
<1>4. R \union {x} = S
  BY <1>1
<1>. QED
  BY <1>1, <1>3, <1>4

\* Sums of the same weights are the same.
LEMMA TotalSame ==
  ASSUME NEW S, NEW v, NEW w, \A x \in S : v[x] = w[x]
  PROVE  Total(S, v) = Total(S, w)
<1>1. Units(S, v) = Units(S, w)
  BY DEF Units
<1>. QED
  BY <1>1 DEF Total

\* A function that adds up some element after another computes the sum.
LEMMA FoldIsTotal ==
  ASSUME NEW D, IsFiniteSet(D), NEW w, \A x \in D : w[x] \in Nat,
         NEW f, f[{}] = 0,
         \A s \in SUBSET D : s # {} => \E x \in s : f[s] = f[s \ {x}] + w[x]
  PROVE  f[D] = Total(D, w)
<1>. DEFINE Good == {T \in SUBSET D : f[T] = Total(T, w)}
<1>1. {} \in Good
  BY TotalEmpty
<1>2. ASSUME NEW T \in SUBSET D, T # {}, \A x \in T : T \ {x} \in Good
      PROVE  T \in Good
  <2>1. PICK x \in T : f[T] = f[T \ {x}] + w[x]
    BY <1>2
  <2>2. f[T \ {x}] = Total(T \ {x}, w)
    BY <1>2, <2>1
  <2>3. IsFiniteSet(T) /\ \A y \in T : w[y] \in Nat
    BY <1>2, FS_Subset
  <2>4. Total(T, w) = Total(T \ {x}, w) + w[x]
    BY <2>3, TotalRemove
  <2>. QED
    BY <2>1, <2>2, <2>4
<1>3. D \in Good
  <2>. HIDE DEF Good
  <2>. QED
    BY <1>1, <1>2, SmallerFirst
<1>. QED
  BY <1>3

\* The sum over one position more.
LEMMA TotalUpTo ==
  ASSUME NEW a \in Nat, NEW w, \A i \in 1 .. (a + 1) : w[i] \in Nat
  PROVE  Total(1 .. (a + 1), w) = Total(1 .. a, w) + w[a + 1] /\ Total(1 .. a, w) \in Nat
<1>1. PICK x \in Nat : x = a + 1
  OBVIOUS
<1>2. (1 .. a) \union {x} = 1 .. x /\ x \notin 1 .. a
  BY <1>1
<1>3. IsFiniteSet(1 .. a) /\ \A i \in (1 .. a) \union {x} : w[i] \in Nat
  BY <1>1, <1>2, UpTo
<1>4. Total((1 .. a) \union {x}, w) = Total(1 .. a, w) + w[x] /\ Total(1 .. a, w) \in Nat
  BY <1>2, <1>3, TotalAdd
<1>. QED
  BY <1>1, <1>2, <1>4

\* The sum over one position.
LEMMA TotalOne ==
  ASSUME NEW w, w[1] \in Nat
  PROVE  Total(1 .. 1, w) = w[1]
<1>1. PICK none : none = {}
  OBVIOUS
<1>2. IsFiniteSet(Units(none, w)) /\ Total(none, w) = 0
  BY <1>1, TotalEmpty
<1>3. Total(none \union {1}, w) = Total(none, w) + w[1]
  BY <1>1, <1>2, UnitsAdd
<1>4. none \union {1} = 1 .. 1
  BY <1>1
<1>5. Total(1 .. 1, w) = Total(none \union {1}, w)
  BY <1>4
<1>. QED
  BY <1>2, <1>3, <1>5

Numbers(v, l) == \A i \in 1 .. l : v[i] \in Nat
Follows(w, n, v, m) == \A i \in 1 .. n : v[m + i] = w[i]

\* Sums over positions of two sequences put together.
LEMMA TotalShifted ==
  ASSUME NEW m \in Nat, NEW n \in Nat, NEW l, l = m + n, NEW v, NEW w,
         Numbers(v, l), Follows(w, n, v, m)
  PROVE  Total(1 .. l, v) = Total(1 .. m, v) + Total(1 .. n, w)
<1>. USE DEF Numbers, Follows
<1>. DEFINE Wrong == {k \in 0 .. n : Total(1 .. (m + k), v) # Total(1 .. m, v) + Total(1 .. k, w)}
<1>. SUFFICES ASSUME Wrong # {} PROVE FALSE
  OBVIOUS
<1>1. PICK k \in Wrong : \A j \in Wrong : k <= j
  <2>1. Wrong \in SUBSET Nat
    OBVIOUS
  <2>. HIDE DEF Wrong
  <2>. QED
    BY <2>1, Least
<1>2. k \in 0 .. n /\ Total(1 .. (m + k), v) # Total(1 .. m, v) + Total(1 .. k, w)
  BY <1>1
<1>3. IsFiniteSet(1 .. m) /\ \A i \in 1 .. m : v[i] \in Nat
  BY UpTo
<1>4. Total(1 .. m, v) \in Nat
  BY <1>3, TotalType
<1>5. k # 0
  <2>1. ASSUME k = 0 PROVE FALSE
    <3>1. 1 .. k = {} /\ m + k = m
      BY <2>1
    <3>2. Total(1 .. k, w) = 0
      BY <3>1, TotalEmpty
    <3>3. Total(1 .. (m + k), v) = Total(1 .. m, v)
      BY <3>1
    <3>. QED
      BY <1>2, <1>4, <3>2, <3>3
  <2>. QED
    BY <2>1
<1>6. PICK j \in Nat : k = j + 1
  <2>1. k - 1 \in Nat /\ k = (k - 1) + 1
    BY <1>2, <1>5
  <2>. QED
    BY <2>1
<1>7. j \in 0 .. n /\ j \notin Wrong
  BY <1>1, <1>2, <1>6
<1>8. Total(1 .. (m + j), v) = Total(1 .. m, v) + Total(1 .. j, w)
  BY <1>7
<1>9. Total(1 .. (m + k), v) = Total(1 .. (m + j), v) + v[m + k]
  <2>1. PICK a \in Nat : a = m + j
    OBVIOUS
  <2>2. m + k = a + 1
    BY <1>6, <2>1
  <2>3. \A i \in 1 .. (a + 1) : v[i] \in Nat
    BY <1>2, <2>2
  <2>4. Total(1 .. (a + 1), v) = Total(1 .. a, v) + v[a + 1]
    BY <2>3, TotalUpTo
  <2>. QED
    BY <2>1, <2>2, <2>4
<1>10. Total(1 .. k, w) = Total(1 .. j, w) + w[k] /\ Total(1 .. j, w) \in Nat
  <2>1. ASSUME NEW i \in 1 .. (j + 1) PROVE w[i] \in Nat
    <3>1. i \in 1 .. n /\ m + i \in 1 .. (m + n)
      BY <1>2, <1>6
    <3>. QED
      BY <3>1
  <2>. QED
    BY <1>6, <2>1, TotalUpTo
<1>11. v[m + k] = w[k] /\ w[k] \in Nat
  <2>1. k \in 1 .. n /\ m + k \in 1 .. (m + n)
    BY <1>2, <1>5
  <2>. QED
    BY <2>1
<1>. QED
  BY <1>2, <1>4, <1>8, <1>9, <1>10, <1>11
-----------------------------------------------------------------------------
\* Billed and Collected are sums.

\* What a record adds to the bill of partner p.
Weight(rec, p) == IF rec[1] = "admit" THEN 0 ELSE rec[2][p]
Weights(s, p) == [i \in DOMAIN s |-> Weight(s[i], p)]

LEMMA WeightType ==
  ASSUME NEW rec \in Record, NEW p \in Partners
  PROVE  Weight(rec, p) \in Nat
<1>1. CASE rec \in {"admit"} \X Partners
  BY <1>1 DEF Weight
<1>2. CASE rec \in {"window_closed"} \X [Partners -> Nat]
  <2>1. PICK rows \in [Partners -> Nat] : rec = <<"window_closed", rows>>
    BY <1>2
  <2>. QED
    BY <2>1 DEF Weight
<1>. QED
  BY <1>1, <1>2 DEF Record

\* The bill of a sequence of records is the sum of their weights.
LEMMA BilledIsTotal ==
  ASSUME NEW s \in Seq(Record), NEW p \in Partners
  PROVE  Billed(s, p) = Total(1 .. Len(s), Weights(s, p)) /\ Billed(s, p) \in Nat
<1>. DEFINE D == DOMAIN s
            w == Weights(s, p)
            Adds(f) == f = [t \in SUBSET D |->
                             IF t = {} THEN 0
                             ELSE LET x == CHOOSE x \in t : TRUE
                                  IN  f[t \ {x}] + (IF s[x][1] = "admit" THEN 0 ELSE s[x][2][p])]
            iter == CHOOSE f : Adds(f)
            g == [t \in SUBSET D |-> Total(t, w)]
<1>1. Billed(s, p) = iter[D]
  BY Zenon DEF Billed, FoldSeq, FoldFunction, FoldFunctionOnSet, MapThenFoldSet
<1>2. D = 1 .. Len(s) /\ Len(s) \in Nat /\ \A i \in D : s[i] \in Record
  OBVIOUS
<1>3. IsFiniteSet(D)
  BY <1>2, UpTo
<1>4. \A x \in D : w[x] = (IF s[x][1] = "admit" THEN 0 ELSE s[x][2][p]) /\ w[x] \in Nat
  BY <1>2, WeightType DEF Weights, Weight
<1>4a. \A x \in D : w[x] \in Nat
  BY <1>4
<1>5. ASSUME NEW t \in SUBSET D, t # {}
      PROVE  LET x == CHOOSE x \in t : TRUE
             IN  /\ x \in t /\ t \ {x} \in SUBSET D
                 /\ Total(t, w) = Total(t \ {x}, w)
                                    + (IF s[x][1] = "admit" THEN 0 ELSE s[x][2][p])
  <2>1. PICK x : x = CHOOSE y \in t : TRUE
    OBVIOUS
  <2>2. x \in t
    BY <1>5, <2>1
  <2>3. IsFiniteSet(t) /\ \A y \in t : w[y] \in Nat
    BY <1>3, <1>4, <1>5, FS_Subset
  <2>. HIDE DEF w
  <2>4. Total(t, w) = Total(t \ {x}, w) + w[x]
    BY <2>2, <2>3, TotalRemove
  <2>. QED
    BY <1>4, <2>1, <2>2, <2>4
<1>6. Adds(g)
  <2>1. g[{}] = 0
    BY TotalEmpty
  <2>. QED
    BY <1>5, TotalEmpty
<1>7. Adds(iter)
  <2>. HIDE DEF Adds
  <2>. QED
    BY <1>6
<1>8. iter[{}] = 0
  BY <1>7
<1>9. ASSUME NEW t \in SUBSET D, t # {}
      PROVE  \E x \in t : iter[t] = iter[t \ {x}] + w[x]
  <2>1. PICK x : x = CHOOSE y \in t : TRUE
    OBVIOUS
  <2>2. x \in t
    BY <1>9, <2>1
  <2>3. iter[t] = iter[t \ {x}] + (IF s[x][1] = "admit" THEN 0 ELSE s[x][2][p])
    BY <1>7, <1>9, <2>1
  <2>. QED
    BY <1>4, <2>2, <2>3
<1>10. Total(D, w) \in Nat
  <2>. HIDE DEF D, w
  <2>. QED
    BY <1>3, <1>4, TotalType
<1>11. iter[D] = Total(D, w)
  <2>. HIDE DEF D, w, iter
  <2>. QED
    BY <1>3, <1>4a, <1>8, <1>9, FoldIsTotal
<1>. QED
  BY <1>1, <1>2, <1>10, <1>11

\* The calls of close_window under way in c, and what they carry of partner p.
Closing(c) == {r \in Requests : c[r].at \in {"collect", "report"}}
CollectedIn(c, p) == FoldSet(LAMBDA r, acc : acc + c[r].rows[p], 0, Closing(c))

LEMMA CollectedIsTotal ==
  ASSUME NEW c, NEW p, \A r \in Closing(c) : c[r].rows[p] \in Nat
  PROVE  CollectedIn(c, p) = Total(Closing(c), [r \in Closing(c) |-> c[r].rows[p]])
<1>. DEFINE D == Closing(c)
            w == [r \in D |-> c[r].rows[p]]
            Adds(f) == f = [t \in SUBSET D |->
                             IF t = {} THEN 0
                             ELSE LET x == CHOOSE x \in t : TRUE
                                  IN  f[t \ {x}] + c[x].rows[p]]
            iter == CHOOSE f : Adds(f)
            g == [t \in SUBSET D |-> Total(t, w)]
<1>1. CollectedIn(c, p) = iter[D]
  BY Zenon DEF CollectedIn, FoldSet, MapThenFoldSet
<1>3. IsFiniteSet(D)
  BY FiniteRequests DEF Closing
<1>4. \A x \in D : w[x] = c[x].rows[p] /\ w[x] \in Nat
  OBVIOUS
<1>4a. \A x \in D : w[x] \in Nat
  BY <1>4
<1>5. ASSUME NEW t \in SUBSET D, t # {}
      PROVE  LET x == CHOOSE x \in t : TRUE
             IN  /\ x \in t /\ t \ {x} \in SUBSET D
                 /\ Total(t, w) = Total(t \ {x}, w) + c[x].rows[p]
  <2>1. PICK x : x = CHOOSE y \in t : TRUE
    OBVIOUS
  <2>2. x \in t
    BY <1>5, <2>1
  <2>3. IsFiniteSet(t) /\ \A y \in t : w[y] \in Nat
    BY <1>3, <1>4, <1>5, FS_Subset
  <2>. HIDE DEF w
  <2>4. Total(t, w) = Total(t \ {x}, w) + w[x]
    BY <2>2, <2>3, TotalRemove
  <2>. QED
    BY <1>4, <2>1, <2>2, <2>4
<1>6. Adds(g)
  <2>1. g[{}] = 0
    BY TotalEmpty
  <2>. QED
    BY <1>5, TotalEmpty
<1>7. Adds(iter)
  <2>. HIDE DEF Adds
  <2>. QED
    BY <1>6
<1>8. iter[{}] = 0
  BY <1>7
<1>9. ASSUME NEW t \in SUBSET D, t # {}
      PROVE  \E x \in t : iter[t] = iter[t \ {x}] + w[x]
  <2>1. PICK x : x = CHOOSE y \in t : TRUE
    OBVIOUS
  <2>2. x \in t
    BY <1>9, <2>1
  <2>3. iter[t] = iter[t \ {x}] + c[x].rows[p]
    BY <1>7, <1>9, <2>1
  <2>. QED
    BY <1>4, <2>2, <2>3
<1>11. iter[D] = Total(D, w)
  <2>. HIDE DEF D, w, iter
  <2>. QED
    BY <1>3, <1>4a, <1>8, <1>9, FoldIsTotal
<1>. QED
  BY <1>1, <1>11

\* Nothing is billed for no records.
LEMMA BilledEmpty ==
  ASSUME NEW p \in Partners
  PROVE  Billed(<<>>, p) = 0
<1>1. <<>> \in Seq(Record) /\ Len(<<>>) = 0
  BY EmptySequence
<1>2. 1 .. 0 = {}
  OBVIOUS
<1>3. Billed(<<>>, p) = Total(1 .. Len(<<>>), Weights(<<>>, p))
  BY <1>1, BilledIsTotal
<1>4. Total({}, Weights(<<>>, p)) = 0
  BY TotalEmpty
<1>. QED
  BY <1>1, <1>2, <1>3, <1>4

\* Two sequences put together are billed as the one and the other.
LEMMA BilledConcat ==
  ASSUME NEW s \in Seq(Record), NEW t \in Seq(Record), NEW p \in Partners
  PROVE  Billed(s \o t, p) = Billed(s, p) + Billed(t, p)
<1>0. s \o t \in Seq(Record)
  OBVIOUS
<1>1. PICK both \in Seq(Record) : both = s \o t
  BY <1>0
<1>2. PICK m \in Nat : m = Len(s)
  OBVIOUS
<1>3. PICK n \in Nat : n = Len(t)
  OBVIOUS
<1>b. PICK l \in Nat : l = m + n
  OBVIOUS
<1>4. /\ Len(both) = l /\ \A i \in 1 .. l : both[i] \in Record
      /\ \A i \in 1 .. m : both[i] = s[i]
      /\ \A i \in 1 .. n : both[m + i] = t[i]
  BY <1>1, <1>2, <1>3, <1>b
<1>5. DOMAIN both = 1 .. l /\ DOMAIN s = 1 .. m /\ DOMAIN t = 1 .. n
  BY <1>2, <1>3, <1>4
<1>a. PICK u, v, w : u = Weights(s, p) /\ v = Weights(both, p) /\ w = Weights(t, p)
  OBVIOUS
<1>6. \A i \in 1 .. l : v[i] \in Nat
  BY <1>4, <1>5, <1>a, WeightType DEF Weights
<1>7. \A i \in 1 .. n : v[m + i] = w[i]
  BY <1>b, <1>4, <1>5, <1>a DEF Weights
<1>8. \A i \in 1 .. m : v[i] = u[i]
  BY <1>b, <1>4, <1>5, <1>a DEF Weights
<1>9. /\ Billed(both, p) = Total(1 .. l, v)
      /\ Billed(s, p) = Total(1 .. m, u) /\ Billed(t, p) = Total(1 .. n, w)
  BY <1>2, <1>3, <1>4, <1>a, BilledIsTotal
<1>10. Total(1 .. m, v) = Total(1 .. m, u)
  BY <1>8, TotalSame
<1>11. Total(1 .. l, v) = Total(1 .. m, v) + Total(1 .. n, w)
  <2>1. Numbers(v, l) /\ Follows(w, n, v, m)
    BY <1>6, <1>7 DEF Numbers, Follows
  <2>2. m \in Nat /\ n \in Nat /\ l = m + n
    BY <1>2, <1>3, <1>b
  <2>. QED
    BY <2>1, <2>2, TotalShifted
<1>. QED
  BY <1>1, <1>9, <1>10, <1>11

\* One record is billed as its weight.
LEMMA BilledOne ==
  ASSUME NEW rec \in Record, NEW p \in Partners
  PROVE  Billed(<<rec>>, p) = Weight(rec, p)
<1>0. <<rec>> \in Seq(Record)
  OBVIOUS
<1>1. PICK s \in Seq(Record) : s = <<rec>>
  BY <1>0
<1>2. Len(s) = 1 /\ s[1] = rec /\ DOMAIN s = 1 .. 1
  BY <1>1
<1>3. PICK w : w = Weights(s, p)
  OBVIOUS
<1>4. w[1] = Weight(rec, p) /\ Weight(rec, p) \in Nat
  BY <1>2, <1>3, WeightType DEF Weights
<1>8. Total(1 .. 1, w) = w[1]
  BY <1>4, TotalOne
<1>9. Billed(s, p) = Total(1 .. 1, w)
  BY <1>2, <1>3, BilledIsTotal
<1>. QED
  BY <1>1, <1>4, <1>8, <1>9

\* A record at the end is billed in addition.
LEMMA BilledAppend ==
  ASSUME NEW s \in Seq(Record), NEW rec \in Record, NEW p \in Partners
  PROVE  Billed(Append(s, rec), p) = Billed(s, p) + Weight(rec, p)
<1>1. Append(s, rec) = s \o <<rec>> /\ <<rec>> \in Seq(Record)
  OBVIOUS
<1>. QED
  BY <1>1, BilledConcat, BilledOne

\* What is taken from the head of a sequence is missing from its bill.
LEMMA BilledTake ==
  ASSUME NEW s \in Seq(Record), s # <<>>, NEW p \in Partners
  PROVE  Billed(s, p) = Weight(Head(s), p) + Billed(Tail(s), p)
<1>1. Head(s) \in Record /\ Tail(s) \in Seq(Record) /\ <<Head(s)>> \in Seq(Record)
  OBVIOUS
<1>2. s = <<Head(s)>> \o Tail(s)
  OBVIOUS
<1>3. Billed(<<Head(s)>> \o Tail(s), p) = Billed(<<Head(s)>>, p) + Billed(Tail(s), p)
  BY <1>1, BilledConcat
<1>4. Billed(<<Head(s)>>, p) = Weight(Head(s), p)
  BY <1>1, BilledOne
<1>. QED
  BY <1>2, <1>3, <1>4

\* What call r carries of partner p.
Carried(c, r, p) == IF r \in Closing(c) THEN c[r].rows[p] ELSE 0

\* When only request r steps, what is collected changes by what r carries.
LEMMA CollectedMoves ==
  ASSUME NEW c, NEW d, NEW p, NEW r \in Requests,
         \A q \in Requests \ {r} : d[q] = c[q],
         \A q \in Closing(c) : c[q].rows[p] \in Nat,
         \A q \in Closing(d) : d[q].rows[p] \in Nat
  PROVE  /\ CollectedIn(c, p) \in Nat /\ CollectedIn(d, p) \in Nat
         /\ CollectedIn(d, p) = CollectedIn(c, p) + Carried(d, r, p) - Carried(c, r, p)
<1>. DEFINE Rest == Closing(c) \ {r}
            w == [q \in Rest |-> c[q].rows[p]]
<1>1. Rest = Closing(d) \ {r} /\ \A q \in Rest : d[q] = c[q]
  BY DEF Closing
<1>2. Rest \in SUBSET Requests /\ \A q \in Rest : w[q] \in Nat
  BY DEF Closing
<1>3. IsFiniteSet(Rest)
  BY <1>2, FiniteRequests
<1>4. Total(Rest, w) \in Nat
  <2>. HIDE DEF Rest, w
  <2>. QED
    BY <1>2, <1>3, TotalType
<1>5. ASSUME NEW e, \A q \in Closing(e) : e[q].rows[p] \in Nat, Rest = Closing(e) \ {r},
             \A q \in Rest : e[q] = c[q]
      PROVE  CollectedIn(e, p) = Total(Rest, w) + Carried(e, r, p) /\ Carried(e, r, p) \in Nat
  <2>. DEFINE v == [q \in Closing(e) |-> e[q].rows[p]]
  <2>1. CollectedIn(e, p) = Total(Closing(e), v)
    BY <1>5, CollectedIsTotal
  <2>2. \A q \in Rest : v[q] = w[q]
    BY <1>5
  <2>3. Total(Rest, v) = Total(Rest, w)
    <3>. HIDE DEF Rest, v, w
    <3>. QED
      BY <2>2, TotalSame
  <2>4. CASE r \in Closing(e)
    <3>1. Rest \union {r} = Closing(e) /\ r \notin Rest
      BY <1>5, <2>4
    <3>2. v[r] = Carried(e, r, p) /\ Carried(e, r, p) \in Nat
      BY <1>5, <2>4 DEF Carried
    <3>3. \A q \in Closing(e) : v[q] \in Nat
      BY <1>5
    <3>4. \A q \in Rest \union {r} : v[q] \in Nat
      BY <3>1, <3>3
    <3>5. Total(Rest \union {r}, v) = Total(Rest, v) + v[r]
      <4>. HIDE DEF Rest, v, w
      <4>. QED
        BY <1>3, <3>1, <3>4, TotalAdd
    <3>6. Total(Closing(e), v) = Total(Rest, v) + v[r]
      BY <3>1, <3>5
    <3>. QED
      BY <2>1, <2>3, <3>2, <3>6
  <2>5. CASE r \notin Closing(e)
    <3>1. Rest = Closing(e) /\ Carried(e, r, p) = 0
      BY <1>5, <2>5 DEF Carried
    <3>2. CollectedIn(e, p) = Total(Rest, v)
      BY <2>1, <3>1
    <3>3. CollectedIn(e, p) = Total(Rest, w)
      BY <2>3, <3>2
    <3>. HIDE DEF Rest, w
    <3>. QED
      BY <1>4, <3>1, <3>3
  <2>. QED
    BY <2>4, <2>5
<1>6. CollectedIn(c, p) = Total(Rest, w) + Carried(c, r, p) /\ Carried(c, r, p) \in Nat
  BY <1>5
<1>7. CollectedIn(d, p) = Total(Rest, w) + Carried(d, r, p) /\ Carried(d, r, p) \in Nat
  BY <1>1, <1>5
<1>. HIDE DEF Rest, w
<1>. QED
  BY <1>4, <1>6, <1>7

-----------------------------------------------------------------------------
\* BillingConserved

\* What close_window has not yet collected of a partner is not in its rows.
RowsFresh ==
  \A r \in Requests : At(r, "collect") => \A q \in call[r].left : call[r].rows[q] = 0

\* Usage of one partner, wherever it is on its way to billing, is accounted for.
Balance(p) ==
  billed[p] + Billed(channel, p) + Billed(batch, p) + CollectedIn(call, p) + used[p]
    = granted[p] + Cardinality(Undecided(p)) + forgiven[p]

BillingInv ==
  billed \in [Partners -> Nat] /\ RowsFresh /\ \A p \in Partners : Balance(p)

\* The rows of calls of close_window are numbers.
LEMMA RowsAreNumbers ==
  ASSUME NEW c \in [Requests -> CallState], NEW p \in Partners, NEW r \in Closing(c)
  PROVE  c[r].rows[p] \in Nat
<1>1. c[r] \in CallState /\ c[r].at \in {"collect", "report"}
  BY DEF Closing
<1>2. c[r] \in [at : {"collect", "report"}, rows : [Partners -> Nat], left : SUBSET Partners]
  BY <1>1 DEF CallState, Idle
<1>. QED
  BY <1>2

\* The terms of the balance are numbers.
LEMMA BalanceTypes ==
  ASSUME Typed, billed \in [Partners -> Nat], NEW p \in Partners
  PROVE  /\ billed[p] \in Nat /\ used[p] \in Nat /\ granted[p] \in Nat /\ forgiven[p] \in Nat
         /\ Billed(channel, p) \in Nat /\ Billed(batch, p) \in Nat
         /\ Cardinality(Undecided(p)) \in Nat
<1>1. /\ used \in [Partners -> Nat] /\ granted \in [Partners -> Nat]
      /\ forgiven \in [Partners -> Nat]
      /\ channel \in Seq(Record) /\ batch \in Seq(Record)
  BY DEF Typed, UsageTyped, AuditTyped, Tallies
<1>2. Undecided(p) \in SUBSET Requests
  BY DEF Undecided, CallsOf
<1>. QED
  BY <1>1, <1>2, BilledIsTotal, FiniteRequests

\* How many requests are undecided after one request stepped.
LEMMA UndecidedMoves ==
  ASSUME NEW r \in Requests, \A q \in Requests \ {r} : call'[q] = call[q],
         NEW p \in Partners
  PROVE  Cardinality(Undecided(p)') = Cardinality(Undecided(p))
                                        + One(r \in Undecided(p)') - One(r \in Undecided(p))
<1>1. Undecided(p) \in SUBSET Requests /\ Undecided(p)' \in SUBSET Requests
  BY DEF Undecided, CallsOf
<1>2. Undecided(p) \ {r} = Undecided(p)' \ {r}
  BY DEF Undecided, CallsOf
<1>. QED
  BY <1>1, <1>2, OneMoves

\* A step of request r changes the terms of partner p's balance by these
\* amounts: the channel, what is collected, used, granted, undecided, forgiven.
Changes(r, p, b, c, u, g, d, f) ==
  /\ {b, c, u, g, d, f} \subseteq Int
  /\ Billed(channel', p) = Billed(channel, p) + b
  /\ c = Carried(call', r, p) - Carried(call, r, p)
  /\ used'[p] = used[p] + u
  /\ granted'[p] = granted[p] + g
  /\ d = One(r \in Undecided(p)') - One(r \in Undecided(p))
  /\ forgiven'[p] = forgiven[p] + f
  /\ b + c + u = g + d + f

\* The balance is kept by changes that add up to the same on both sides.
LEMMA BalanceKept ==
  ASSUME Typed, BillingInv, Typed', NEW r \in Requests, Call(r) \/ Step(r),
         NEW p \in Partners, NEW b, NEW c, NEW u, NEW g, NEW d, NEW f,
         Changes(r, p, b, c, u, g, d, f),
         UNCHANGED <<batch, billed>>
  PROVE  Balance(p)'
<1>. USE DEF Changes
<1>1. \A q \in Requests \ {r} : call'[q] = call[q]
  BY OthersStay
<1>2. call \in [Requests -> CallState] /\ call' \in [Requests -> CallState]
  BY DEF Typed
<1>3. /\ CollectedIn(call, p) \in Nat
      /\ CollectedIn(call', p) = CollectedIn(call, p) + Carried(call', r, p) - Carried(call, r, p)
  <2>1. \A q \in Closing(call) : call[q].rows[p] \in Nat
    BY <1>2, RowsAreNumbers
  <2>2. \A q \in Closing(call') : call'[q].rows[p] \in Nat
    BY <1>2, RowsAreNumbers
  <2>. QED
    BY <1>1, <2>1, <2>2, CollectedMoves
<1>4. Carried(call, r, p) \in Int /\ Carried(call', r, p) \in Int
  BY <1>2, RowsAreNumbers DEF Carried
<1>5. CollectedIn(call', p) = CollectedIn(call, p) + c
  BY <1>3, <1>4
<1>6. Cardinality(Undecided(p)') = Cardinality(Undecided(p)) + d
  <2>1. Cardinality(Undecided(p)') = Cardinality(Undecided(p))
                                        + One(r \in Undecided(p)') - One(r \in Undecided(p))
    BY <1>1, UndecidedMoves
  <2>2. Cardinality(Undecided(p)) \in Nat
    BY BalanceTypes DEF BillingInv
  <2>3. One(r \in Undecided(p)') \in Int /\ One(r \in Undecided(p)) \in Int
    BY DEF One
  <2>. QED
    BY <2>1, <2>2, <2>3
<1>7. billed[p] + Billed(channel, p) + Billed(batch, p) + CollectedIn(call, p) + used[p]
        = granted[p] + Cardinality(Undecided(p)) + forgiven[p]
  BY DEF BillingInv, Balance
<1>8. /\ billed[p] \in Nat /\ used[p] \in Nat /\ granted[p] \in Nat /\ forgiven[p] \in Nat
      /\ Billed(channel, p) \in Nat /\ Billed(batch, p) \in Nat
      /\ Cardinality(Undecided(p)) \in Nat
  BY BalanceTypes DEF BillingInv
<1>9. billed'[p] = billed[p] /\ Billed(batch', p) = Billed(batch, p)
  OBVIOUS
<1>10. billed'[p] + Billed(channel', p) + Billed(batch', p) + CollectedIn(call', p) + used'[p]
         = granted'[p] + Cardinality(Undecided(p)') + forgiven'[p]
  <2>1. b \in Int /\ c \in Int /\ u \in Int /\ g \in Int /\ d \in Int /\ f \in Int
    OBVIOUS
  <2>3. b + c + u = g + d + f
    OBVIOUS
  <2>2. /\ Billed(channel', p) = Billed(channel, p) + b /\ used'[p] = used[p] + u
        /\ granted'[p] = granted[p] + g /\ forgiven'[p] = forgiven[p] + f
    OBVIOUS
  <2>. HIDE DEF Changes
  <2>4. billed[p] + (Billed(channel, p) + b) + Billed(batch, p) + (CollectedIn(call, p) + c)
            + (used[p] + u)
          = (granted[p] + g) + (Cardinality(Undecided(p)) + d) + (forgiven[p] + f)
    <3>1. CollectedIn(call, p) \in Nat
      BY <1>3
    <3>2. billed[p] + (Billed(channel, p) + b) + Billed(batch, p) + (CollectedIn(call, p) + c)
              + (used[p] + u)
            = (billed[p] + Billed(channel, p) + Billed(batch, p) + CollectedIn(call, p) + used[p])
                + (b + c + u)
      BY <1>8, <2>1, <3>1
    <3>3. (granted[p] + g) + (Cardinality(Undecided(p)) + d) + (forgiven[p] + f)
            = (granted[p] + Cardinality(Undecided(p)) + forgiven[p]) + (g + d + f)
      BY <1>8, <2>1
    <3>. QED
      BY <1>7, <2>3, <3>2, <3>3, Zenon
  <2>. QED
    BY <1>5, <1>6, <1>9, <2>2, <2>4, Zenon
<1>. QED
  BY <1>10 DEF Balance

\* Who carries what, and who is undecided, before and after a request's step.
LEMMA WhoCarries ==
  ASSUME NEW r \in Requests, NEW p \in Partners
  PROVE  /\ call[r].at \notin {"collect", "report"} => Carried(call, r, p) = 0
         /\ call'[r].at \notin {"collect", "report"} => Carried(call', r, p) = 0
         /\ call[r].at \in {"collect", "report"} => Carried(call, r, p) = call[r].rows[p]
         /\ call'[r].at \in {"collect", "report"} => Carried(call', r, p) = call'[r].rows[p]
         /\ r \in Undecided(p) <=> call[r].at \in {"audit", "roll_back"} /\ call[r].who = p
         /\ r \in Undecided(p)' <=> call'[r].at \in {"audit", "roll_back"} /\ call'[r].who = p
BY DEF Carried, Closing, Undecided, CallsOf

\* A step of a request takes from one place what it adds to another.
LEMMA BalanceStepOfRequest ==
  ASSUME Typed, BillingInv, Typed', NEW r \in Requests, Call(r) \/ Step(r),
         NEW p \in Partners
  PROVE  Balance(p)'
<1>. USE DEF counters, audit, bounds, history
<1>a. /\ used[p] \in Nat /\ granted[p] \in Nat /\ forgiven[p] \in Nat
      /\ Billed(channel, p) \in Nat
  BY BalanceTypes DEF BillingInv
<1>b. used \in [Partners -> Nat] /\ granted \in [Partners -> Nat] /\ forgiven \in [Partners -> Nat]
      /\ channel \in Seq(Record)
  BY DEF Typed, UsageTyped, AuditTyped, Tallies
<1>c. used'[p] \in Nat /\ call \in [Requests -> CallState] /\ call' \in [Requests -> CallState]
  BY DEF Typed, UsageTyped
<1>d. \A n \in Nat : n + 0 = n
  OBVIOUS
<1>1. ASSUME UNCHANGED <<channel, batch, billed, used, granted, forgiven>>,
             Carried(call', r, p) = 0, Carried(call, r, p) = 0,
             r \in Undecided(p) <=> r \in Undecided(p)'
      PROVE  Balance(p)'
  <2>1. /\ Billed(channel', p) = Billed(channel, p) + 0 /\ used'[p] = used[p] + 0
        /\ granted'[p] = granted[p] + 0 /\ forgiven'[p] = forgiven[p] + 0
    BY <1>1, <1>a
  <2>2. 0 = Carried(call', r, p) - Carried(call, r, p)
        /\ 0 = One(r \in Undecided(p)') - One(r \in Undecided(p))
    BY <1>1 DEF One
  <2>3. 0 \in Int /\ 0 + 0 + 0 = 0 + 0 + 0
    OBVIOUS
  <2>20. Changes(r, p, 0, 0, 0, 0, 0, 0)
    BY <1>1, <2>1, <2>2, <2>3 DEF Changes
  <2>. QED
    BY <1>1, <2>20, BalanceKept
<1>2. ASSUME NEW q \in Partners, LoadLimit(r, q) PROVE Balance(p)'
  <2>1. call[r].at = "idle" /\ call'[r].at \in {"idle", "decide"}
    BY <1>2, Moves DEF At
  <2>2. UNCHANGED <<channel, batch, billed, used, granted, forgiven>>
    BY <1>2 DEF LoadLimit
  <2>. QED
    BY <1>1, <2>1, <2>2, WhoCarries
<1>3. CASE Decide(r)
  <2>1. /\ call[r].at = "decide" /\ call'[r].at \in {"idle", "alert", "audit"}
        /\ call'[r].at = "audit" => call'[r].who = call[r].who
    BY <1>3, Moves DEF At
  <2>2. UNCHANGED <<channel, batch, billed, granted, forgiven>>
    BY <1>3 DEF Decide
  <2>3. CASE used' = used /\ call'[r].at # "audit"
    BY <1>1, <2>1, <2>2, <2>3, WhoCarries
  <2>4. CASE used' = [used EXCEPT ![call[r].who] = @ + 1] /\ call'[r].at = "audit"
    <3>1. PICK n \in Int : n = One(call[r].who = p)
      BY DEF One
    <3>2. used'[p] = used[p] + n
      BY <1>a, <1>b, <2>4, <3>1 DEF One
    <3>3. Carried(call, r, p) = 0 /\ Carried(call', r, p) = 0
      BY <2>1, WhoCarries
    <3>4. n = One(r \in Undecided(p)') - One(r \in Undecided(p))
      <4>1. r \notin Undecided(p) /\ (r \in Undecided(p)' <=> call[r].who = p)
        BY <2>1, <2>4, WhoCarries
      <4>. QED
        BY <3>1, <4>1 DEF One
    <3>5. 0 = Carried(call', r, p) - Carried(call, r, p)
      BY <3>3
    <3>6. /\ Billed(channel', p) = Billed(channel, p) + 0
          /\ granted'[p] = granted[p] + 0 /\ forgiven'[p] = forgiven[p] + 0
      BY <1>a, <2>2
    <3>7. 0 + 0 + n = 0 + n + 0 /\ 0 \in Int
      BY <3>1
    <3>10. Changes(r, p, 0, 0, n, 0, n, 0)
      BY <2>2, <3>1, <3>2, <3>4, <3>5, <3>6, <3>7 DEF Changes
    <3>. QED
      BY <2>2, <3>10, BalanceKept
  <2>5. \/ used' = used /\ call'[r].at # "audit"
        \/ used' = [used EXCEPT ![call[r].who] = @ + 1] /\ call'[r].at = "audit"
    BY <1>3, Outcomes
  <2>. QED
    BY <2>3, <2>4, <2>5
<1>4. CASE Alert(r)
  <2>1. call[r].at = "alert" /\ call'[r].at = "idle"
    BY <1>4, Moves DEF At
  <2>2. UNCHANGED <<channel, batch, billed, used, granted, forgiven>>
    BY <1>4 DEF Alert
  <2>. QED
    BY <1>1, <2>1, <2>2, WhoCarries
<1>5. CASE Audit(r)
  <2>. DEFINE q == call[r].who
  <2>1. /\ call[r].at = "audit" /\ call'[r].who = q
        /\ call'[r].at = IF Room THEN "admitted" ELSE "roll_back"
    BY <1>5, Moves DEF At
  <2>2. UNCHANGED <<batch, billed, used, forgiven>>
    BY <1>5 DEF Audit
  <2>3. Carried(call, r, p) = 0 /\ Carried(call', r, p) = 0
    BY <2>1, WhoCarries
  <2>4. CASE ~Room
    <3>1. UNCHANGED <<channel, granted>>
      BY <1>5, <2>4 DEF Audit
    <3>2. r \in Undecided(p) <=> r \in Undecided(p)'
      BY <2>1, <2>4, WhoCarries
    <3>. QED
      BY <1>1, <2>2, <2>3, <3>1, <3>2
  <2>5. CASE Room
    <3>0. q \in Partners
      BY <2>1, Locals DEF At
    <3>1. channel' = Append(channel, Admit(q)) /\ granted' = [granted EXCEPT ![q] = @ + 1]
      BY <1>5, <2>5 DEF Audit, Grant
    <3>2. PICK n \in Int : n = One(q = p)
      BY DEF One
    <3>3. granted'[p] = granted[p] + n
      BY <1>a, <1>b, <3>1, <3>2 DEF One
    <3>4. PICK d \in Int : d = 0 - n
      BY <3>2
    <3>5. d = One(r \in Undecided(p)') - One(r \in Undecided(p))
      <4>1. r \notin Undecided(p)' /\ (r \in Undecided(p) <=> q = p)
        BY <2>1, <2>5, WhoCarries
      <4>. QED
        BY <3>2, <3>4, <4>1 DEF One
    <3>6. Billed(channel', p) = Billed(channel, p) + 0
      <4>1. Admit(q) \in Record /\ Weight(Admit(q), p) = 0
        BY <3>0 DEF Admit, Record, Weight
      <4>. QED
        BY <1>b, <3>1, <4>1, BilledAppend
    <3>7. 0 = Carried(call', r, p) - Carried(call, r, p)
      BY <2>3
    <3>8. used'[p] = used[p] + 0 /\ forgiven'[p] = forgiven[p] + 0
      BY <1>a, <2>2
    <3>9. 0 + 0 + 0 = n + d + 0 /\ 0 \in Int
      BY <3>2, <3>4
    <3>10. Changes(r, p, 0, 0, 0, n, d, 0)
      BY <2>2, <3>2, <3>3, <3>4, <3>5, <3>6, <3>7, <3>8, <3>9 DEF Changes
    <3>. QED
      BY <2>2, <3>10, BalanceKept
  <2>. QED
    BY <2>4, <2>5
<1>6. CASE RollBack(r)
  <2>. DEFINE q == call[r].who
  <2>1. call[r].at = "roll_back" /\ call'[r].at = "idle"
    BY <1>6, Moves DEF At
  <2>2. UNCHANGED <<channel, batch, billed, granted>>
    BY <1>6 DEF RollBack
  <2>3. /\ used' = [used EXCEPT ![q] = LessOne(@)]
        /\ forgiven' = IF used[q] = 0 THEN [forgiven EXCEPT ![q] = @ + 1] ELSE forgiven
    BY <1>6 DEF RollBack, Release, NoteRollBack
  <2>4. 0 = Carried(call', r, p) - Carried(call, r, p)
    BY <2>1, WhoCarries
  <2>5. r \notin Undecided(p)' /\ (r \in Undecided(p) <=> q = p)
    BY <2>1, WhoCarries
  <2>6. PICK d \in Int : d = One(r \in Undecided(p)') - One(r \in Undecided(p))
    BY DEF One
  <2>7. PICK u \in Int : u = used'[p] - used[p]
    BY <1>a, <1>c
  <2>8. PICK f \in Int : f = IF q = p /\ used[q] = 0 THEN 1 ELSE 0
    OBVIOUS
  <2>9. used'[p] = used[p] + u
    BY <1>a, <1>c, <2>7
  <2>10. forgiven'[p] = forgiven[p] + f
    BY <1>a, <1>b, <2>3, <2>8
  <2>11. 0 + 0 + u = 0 + d + f
    <3>1. CASE q # p
      <4>1. d = 0 /\ f = 0
        BY <2>5, <2>6, <2>8, <3>1 DEF One
      <4>2. used'[p] = used[p]
        BY <1>b, <2>3, <3>1
      <4>. QED
        BY <1>a, <2>7, <4>1, <4>2
    <3>2. CASE q = p
      <4>1. d = 0 - 1
        BY <2>5, <2>6, <3>2 DEF One
      <4>2. used'[p] = LessOne(used[p])
        BY <1>b, <2>3, <3>2
      <4>. QED
        BY <1>a, <2>7, <2>8, <3>2, <4>1, <4>2 DEF LessOne
    <3>. QED
      BY <3>1, <3>2
  <2>12. Billed(channel', p) = Billed(channel, p) + 0 /\ granted'[p] = granted[p] + 0 /\ 0 \in Int
    BY <1>a, <2>2
  <2>20. Changes(r, p, 0, 0, u, 0, d, f)
    BY <2>2, <2>4, <2>6, <2>7, <2>8, <2>9, <2>10, <2>11, <2>12 DEF Changes
  <2>. QED
    BY <2>2, <2>20, BalanceKept
<1>7. CASE DropAdmission(r)
  <2>1. call[r].at = "admitted" /\ call'[r].at = "idle"
    BY <1>7, Moves DEF At
  <2>2. UNCHANGED <<channel, batch, billed, used, granted, forgiven>>
    BY <1>7 DEF DropAdmission
  <2>. QED
    BY <1>1, <2>1, <2>2, WhoCarries
<1>8. CASE BeginClose(r)
  <2>1. call[r].at = "idle" /\ call'[r].at = "collect"
    BY <1>8, Moves DEF At
  <2>2. UNCHANGED <<channel, batch, billed, used, granted, forgiven>>
    BY <1>8 DEF BeginClose
  <2>3. call'[r].rows[p] = 0
    BY <1>8 DEF BeginClose, Goto, PerPartner, Typed
  <2>. QED
    BY <1>1, <2>1, <2>2, <2>3, WhoCarries
<1>9. ASSUME NEW q \in Partners, CloseShard(r, q) PROVE Balance(p)'
  <2>1. /\ call[r].at = "collect" /\ call'[r].at \in {"collect", "report"}
        /\ q \in call[r].left
    BY <1>9, Moves DEF CloseShard, At
  <2>2. UNCHANGED <<channel, batch, billed, granted, forgiven>>
        /\ used' = [used EXCEPT ![q] = 0]
    BY <1>9 DEF CloseShard
  <2>3. call'[r].rows = [call[r].rows EXCEPT ![q] = used[q]]
    BY <1>9 DEF CloseShard, Goto, Typed
  <2>4. call[r].rows \in [Partners -> Nat] /\ call[r].rows[q] = 0
    BY <2>1, Locals DEF BillingInv, RowsFresh, At
  <2>5. PICK c \in Int : c = IF p = q THEN used[q] ELSE 0
    BY <1>b
  <2>6. c = Carried(call', r, p) - Carried(call, r, p)
    <3>1. Carried(call, r, p) = call[r].rows[p] /\ Carried(call', r, p) = call'[r].rows[p]
      BY <2>1, WhoCarries
    <3>2. call[r].rows[p] \in Nat /\ used[q] \in Nat
      BY <1>b, <2>4
    <3>3. call'[r].rows[p] = IF p = q THEN used[q] ELSE call[r].rows[p]
      BY <2>3, <2>4
    <3>. QED
      BY <2>4, <2>5, <3>1, <3>2, <3>3
  <2>7. PICK u \in Int : u = 0 - c
    BY <2>5
  <2>8. used'[p] = used[p] + u
    BY <1>a, <1>b, <2>2, <2>5, <2>7
  <2>9. 0 = One(r \in Undecided(p)') - One(r \in Undecided(p))
    <3>1. r \notin Undecided(p) /\ r \notin Undecided(p)'
      BY <2>1, WhoCarries
    <3>. QED
      BY <3>1 DEF One
  <2>10. /\ Billed(channel', p) = Billed(channel, p) + 0
         /\ granted'[p] = granted[p] + 0 /\ forgiven'[p] = forgiven[p] + 0
    BY <1>a, <2>2
  <2>11. 0 + c + u = 0 + 0 + 0 /\ 0 \in Int
    BY <2>5, <2>7
  <2>20. Changes(r, p, 0, c, u, 0, 0, 0)
    BY <2>2, <2>5, <2>6, <2>7, <2>8, <2>9, <2>10, <2>11 DEF Changes
  <2>. QED
    BY <2>2, <2>20, BalanceKept
<1>10. CASE Report(r)
  <2>1. call[r].at = "report" /\ call'[r].at = "idle"
    BY <1>10, Moves DEF At
  <2>2. /\ UNCHANGED <<batch, billed, used, granted, forgiven>>
        /\ channel' = Append(channel, WindowClosed(call[r].rows))
    BY <1>10 DEF Report
  <2>3. call[r].rows \in [Partners -> Nat]
    BY <2>1, Locals DEF At
  <2>4. PICK b \in Int : b = call[r].rows[p]
    BY <2>3
  <2>5. Billed(channel', p) = Billed(channel, p) + b
    <3>1. WindowClosed(call[r].rows) \in Record
      BY <2>3 DEF WindowClosed, Record
    <3>2. Weight(WindowClosed(call[r].rows), p) = call[r].rows[p]
      BY DEF WindowClosed, Weight
    <3>. QED
      BY <1>b, <2>2, <2>4, <3>1, <3>2, BilledAppend
  <2>6. PICK c \in Int : c = 0 - b
    BY <2>4
  <2>7. c = Carried(call', r, p) - Carried(call, r, p)
    <3>1. Carried(call, r, p) = call[r].rows[p] /\ Carried(call', r, p) = 0
      BY <2>1, WhoCarries
    <3>. QED
      BY <2>4, <2>6, <3>1
  <2>8. 0 = One(r \in Undecided(p)') - One(r \in Undecided(p))
    <3>1. r \notin Undecided(p) /\ r \notin Undecided(p)'
      BY <2>1, WhoCarries
    <3>. QED
      BY <3>1 DEF One
  <2>9. used'[p] = used[p] + 0 /\ granted'[p] = granted[p] + 0 /\ forgiven'[p] = forgiven[p] + 0
    BY <1>a, <2>2
  <2>10. b + c + 0 = 0 + 0 + 0 /\ 0 \in Int
    BY <2>4, <2>6
  <2>20. Changes(r, p, b, c, 0, 0, 0, 0)
    BY <2>2, <2>4, <2>5, <2>6, <2>7, <2>8, <2>9, <2>10 DEF Changes
  <2>. QED
    BY <2>2, <2>20, BalanceKept
<1>. QED
  BY <1>2, <1>3, <1>4, <1>5, <1>6, <1>7, <1>8, <1>9, <1>10 DEF Call, Step

\* Rows are zero until their shard is locked and read.
LEMMA RowsFreshStep ==
  ASSUME Typed, RowsFresh, NEW r \in Requests, Call(r) \/ Step(r)
  PROVE  RowsFresh'
<1>. SUFFICES ASSUME NEW s \in Requests, call'[s].at = "collect", NEW q \in call'[s].left
              PROVE  call'[s].rows[q] = 0
  BY DEF RowsFresh, At
<1>1. CASE s # r
  <2>1. call'[s] = call[s]
    BY <1>1, OthersStay
  <2>. QED
    BY <2>1 DEF RowsFresh, At
<1>2. CASE s = r
  <2>1. CASE BeginClose(r)
    <3>1. call'[r] = [at |-> "collect", rows |-> PerPartner(0), left |-> Partners]
      BY <2>1 DEF BeginClose, Goto, Typed
    <3>. QED
      BY <1>2, <3>1 DEF PerPartner
  <2>2. ASSUME NEW p \in Partners, CloseShard(r, p) PROVE call'[r].rows[q] = 0
    <3>1. /\ call'[r].rows = [call[r].rows EXCEPT ![p] = used[p]]
          /\ call'[r].left = call[r].left \ {p}
      BY <2>2 DEF CloseShard, Goto, Typed
    <3>2. At(r, "collect")
      BY <2>2 DEF CloseShard
    <3>3. call[r].rows \in [Partners -> Nat] /\ call[r].left \in SUBSET Partners
      BY <3>2, Locals
    <3>4. q \in call[r].left /\ q # p
      BY <1>2, <3>1
    <3>5. call[r].rows[q] = 0
      BY <3>2, <3>4 DEF RowsFresh
    <3>. QED
      BY <3>1, <3>3, <3>4, <3>5
  <2>3. ASSUME NEW p \in Partners, LoadLimit(r, p) PROVE FALSE
    BY <1>2, <2>3, Moves
  <2>4. CASE Decide(r) \/ Alert(r) \/ Audit(r) \/ RollBack(r) \/ DropAdmission(r) \/ Report(r)
    BY <1>2, <2>4, Moves
  <2>. QED
    BY <1>2, <2>1, <2>2, <2>3, <2>4 DEF Call, Step
<1>. QED
  BY <1>1, <1>2

\* Nothing is used, billed or collected at first.
LEMMA BillingInit ==
  ASSUME Init
  PROVE  BillingInv
<1>1. billed \in [Partners -> Nat]
  BY DEF Init, PerPartner
<1>2. RowsFresh
  BY DEF Init, RowsFresh, At, Idle
<1>3. ASSUME NEW p \in Partners PROVE Balance(p)
  <2>1. billed[p] = 0 /\ used[p] = 0 /\ granted[p] = 0 /\ forgiven[p] = 0
    BY DEF Init, PerPartner
  <2>2. Billed(channel, p) = 0 /\ Billed(batch, p) = 0
    BY BilledEmpty DEF Init
  <2>3. Closing(call) = {} /\ Undecided(p) = {}
    BY DEF Init, Closing, Undecided, CallsOf, Idle
  <2>4. Cardinality(Undecided(p)) = 0
    BY <2>3, FS_EmptySet
  <2>5. CollectedIn(call, p) = 0
    <3>1. \A r \in Closing(call) : call[r].rows[p] \in Nat
      BY <2>3
    <3>2. PICK w : CollectedIn(call, p) = Total(Closing(call), w)
      BY <3>1, CollectedIsTotal
    <3>. QED
      BY <2>3, <3>2, TotalEmpty
  <2>. QED
    BY <2>1, <2>2, <2>4, <2>5 DEF Balance
<1>. QED
  BY <1>1, <1>2, <1>3 DEF BillingInv

\* The record that moves from the channel to the batch is billed in one or the
\* other.
LEMMA TakeKeepsBill ==
  ASSUME Typed, Take, channel # <<>>, NEW p \in Partners
  PROVE  Billed(channel', p) + Billed(batch', p) = Billed(channel, p) + Billed(batch, p)
<1>1. channel \in Seq(Record) /\ batch \in Seq(Record)
  BY DEF Typed, AuditTyped
<1>2. Head(channel) \in Record /\ Tail(channel) \in Seq(Record)
  BY <1>1
<1>3. Billed(channel, p) = Weight(Head(channel), p) + Billed(Tail(channel), p)
  BY <1>1, BilledTake
<1>4. Billed(Append(batch, Head(channel)), p) = Billed(batch, p) + Weight(Head(channel), p)
  BY <1>1, <1>2, BilledAppend
<1>5. /\ Billed(batch, p) \in Nat /\ Billed(Tail(channel), p) \in Nat
      /\ Weight(Head(channel), p) \in Nat
  BY <1>1, <1>2, BilledIsTotal, WeightType
<1>6. channel' = Tail(channel) /\ batch' = Append(batch, Head(channel))
  BY DEF Take
<1>. QED
  BY <1>3, <1>4, <1>5, <1>6

\* The writer moves records and bills what it has written.
LEMMA BillingStepOfWriter ==
  ASSUME Typed, BillingInv, Writer
  PROVE  BillingInv'
<1>. USE DEF counters, audit, bounds, history
<1>a. UNCHANGED <<used, granted, forgiven, call>>
  BY DEF Writer
<1>b. channel \in Seq(Record) /\ batch \in Seq(Record) /\ billed \in [Partners -> Nat]
  BY DEF Typed, AuditTyped, BillingInv
<1>1. RowsFresh'
  BY <1>a DEF BillingInv, RowsFresh, At
<1>2. billed' \in [Partners -> Nat]
  <2>1. CASE UNCHANGED billed
    BY <1>b, <2>1
  <2>2. CASE Sync
    <3>1. ASSUME NEW p \in Partners PROVE billed[p] + Billed(batch, p) \in Nat
      <4>1. billed[p] \in Nat /\ Billed(batch, p) \in Nat
        BY <1>b, BilledIsTotal
      <4>. QED
        BY <4>1
    <3>2. billed' = [p \in Partners |-> billed[p] + Billed(batch, p)]
      BY <2>2 DEF Sync
    <3>. QED
      BY <3>1, <3>2
  <2>. QED
    BY <2>1, <2>2 DEF Writer
<1>3. ASSUME NEW p \in Partners PROVE Balance(p)'
  <2>1. /\ billed[p] \in Nat /\ used[p] \in Nat /\ granted[p] \in Nat /\ forgiven[p] \in Nat
        /\ Billed(channel, p) \in Nat /\ Billed(batch, p) \in Nat
        /\ Cardinality(Undecided(p)) \in Nat
    BY BalanceTypes DEF BillingInv
  <2>2. CollectedIn(call', p) = CollectedIn(call, p) /\ Undecided(p)' = Undecided(p)
    BY <1>a DEF Undecided, CallsOf
  <2>3. CollectedIn(call, p) \in Nat
    <3>1. call \in [Requests -> CallState]
      BY DEF Typed
    <3>2. \A r \in Closing(call) : call[r].rows[p] \in Nat
      BY <3>1, RowsAreNumbers
    <3>. DEFINE w == [r \in Closing(call) |-> call[r].rows[p]]
    <3>3. CollectedIn(call, p) = Total(Closing(call), w)
      BY <3>2, CollectedIsTotal
    <3>4. IsFiniteSet(Closing(call)) /\ \A r \in Closing(call) : w[r] \in Nat
      BY <3>2, FiniteRequests DEF Closing
    <3>. HIDE DEF w
    <3>. QED
      BY <3>3, <3>4, TotalType
  <2>4. billed[p] + Billed(channel, p) + Billed(batch, p) + CollectedIn(call, p) + used[p]
          = granted[p] + Cardinality(Undecided(p)) + forgiven[p]
    BY DEF BillingInv, Balance
  <2>5. ASSUME NEW x \in Nat, NEW y \in Nat, NEW z \in Nat,
               x = billed'[p], y = Billed(channel', p), z = Billed(batch', p),
               x + y + z = billed[p] + Billed(channel, p) + Billed(batch, p)
        PROVE  Balance(p)'
    <3>1. x + y + z + CollectedIn(call, p) + used[p]
            = granted[p] + Cardinality(Undecided(p)) + forgiven[p]
      BY <2>1, <2>3, <2>4, <2>5
    <3>2. used'[p] = used[p] /\ granted'[p] = granted[p] /\ forgiven'[p] = forgiven[p]
      BY <1>a
    <3>. QED
      BY <2>2, <2>5, <3>1, <3>2 DEF Balance
  <2>6. billed'[p] \in Nat
    BY <1>2
  <2>7. CASE UNCHANGED <<channel, batch, billed>>
    <3>1. billed'[p] = billed[p] /\ Billed(channel', p) = Billed(channel, p)
          /\ Billed(batch', p) = Billed(batch, p)
      BY <2>7
    <3>. QED
      BY <2>1, <2>5, <3>1
  <2>8. CASE Take /\ channel # <<>> /\ UNCHANGED billed
    <3>1. channel' \in Seq(Record) /\ batch' \in Seq(Record)
      BY <2>8, TakeTypes DEF Typed
    <3>2. Billed(channel', p) \in Nat /\ Billed(batch', p) \in Nat
      BY <3>1, BilledIsTotal
    <3>3. Billed(channel', p) + Billed(batch', p) = Billed(channel, p) + Billed(batch, p)
      BY <2>8, TakeKeepsBill
    <3>4. billed'[p] = billed[p]
      BY <2>8
    <3>5. billed'[p] + Billed(channel', p) + Billed(batch', p)
            = billed[p] + Billed(channel, p) + Billed(batch, p)
      BY <2>1, <3>2, <3>3, <3>4
    <3>. QED
      BY <2>5, <2>6, <3>2, <3>5
  <2>9. CASE Sync
    <3>1. billed'[p] = billed[p] + Billed(batch, p)
      BY <2>9 DEF Sync
    <3>2. channel' = channel /\ batch' = <<>>
      BY <2>9 DEF Sync
    <3>3. Billed(channel', p) = Billed(channel, p) /\ Billed(batch', p) = 0
      BY <3>2, BilledEmpty
    <3>4. billed'[p] + Billed(channel', p) + Billed(batch', p)
            = billed[p] + Billed(channel, p) + Billed(batch, p)
      BY <2>1, <3>1, <3>3
    <3>. QED
      BY <2>1, <2>5, <2>6, <3>3, <3>4
  <2>10. \/ Take /\ channel # <<>> /\ UNCHANGED billed
         \/ UNCHANGED <<channel, batch, billed>>
         \/ Sync
    BY DEF Writer, Recv, FillBatch
  <2>. QED
    BY <2>7, <2>8, <2>9, <2>10
<1>. QED
  BY <1>1, <1>2, <1>3 DEF BillingInv

\* Every step keeps the bills balanced.
LEMMA BillingStep ==
  ASSUME Typed, Typed', BillingInv, [Next]_vars
  PROVE  BillingInv'
<1>. USE DEF counters, audit, bounds, history
<1>1. ASSUME NEW r \in Requests, Call(r) \/ Step(r) PROVE BillingInv'
  <2>1. billed' = billed
    BY <1>1 DEF Call, Step, LoadLimit, BeginClose, DropAdmission, Decide, Alert, Audit, RollBack,
                CloseShard, Report
  <2>2. RowsFresh'
    BY <1>1, RowsFreshStep DEF BillingInv
  <2>3. \A p \in Partners : Balance(p)'
    BY <1>1, BalanceStepOfRequest
  <2>. QED
    BY <2>1, <2>2, <2>3 DEF BillingInv
<1>2. CASE Reload \/ Shutdown \/ UNCHANGED vars
  <2>1. UNCHANGED <<channel, batch, billed, used, granted, forgiven, call>>
    BY <1>2 DEF Reload, Shutdown, vars
  <2>. QED
    BY <2>1 DEF BillingInv, RowsFresh, At, Balance, Undecided, CallsOf
<1>3. CASE Writer
  BY <1>3, BillingStepOfWriter
<1>. QED
  BY <1>1, <1>2, <1>3 DEF Next

\* The invariant with the bills.
THEOREM BillsBalance == Spec => []BillingInv
<1>1. Init => BillingInv
  BY BillingInit
<1>2. QuotaInv /\ QuotaInv' /\ BillingInv /\ [Next]_vars => BillingInv'
  BY BillingStep DEF QuotaInv
<1>. QED
  BY <1>1, <1>2, QuotaInvariant, PTL DEF Spec

\* No usage is lost on its way to billing, whatever windows close, however late
\* a compensation comes and wherever the audit records are.
THEOREM BillingIsConserved == Spec => []BillingConserved
<1>1. QuotaInv /\ BillingInv => BillingConserved
  <2>. SUFFICES ASSUME QuotaInv, BillingInv, NEW p \in Partners
                PROVE  billed[p] + Billed(channel \o batch, p) + Collected(p) + used[p]
                         = granted[p] + Cardinality(Undecided(p)) + forgiven[p]
    BY DEF BillingConserved
  <2>1. channel \in Seq(Record) /\ batch \in Seq(Record)
    BY DEF QuotaInv, Typed, AuditTyped
  <2>2. Billed(channel \o batch, p) = Billed(channel, p) + Billed(batch, p)
    BY <2>1, BilledConcat
  <2>3. Collected(p) = CollectedIn(call, p)
    BY DEF Collected, CollectedIn, Closing
  <2>4. Balance(p)
    BY DEF BillingInv
  <2>5. Billed(channel, p) \in Nat /\ Billed(batch, p) \in Nat /\ billed[p] \in Nat
    BY BalanceTypes DEF QuotaInv, BillingInv
  <2>. QED
    BY <2>2, <2>3, <2>4, <2>5 DEF Balance
<1>. QED
  BY <1>1, QuotaInvariant, BillsBalance, PTL
=============================================================================
