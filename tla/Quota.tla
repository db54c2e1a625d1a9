------------------------------- MODULE Quota -------------------------------
(***************************************************************************)
(* The quota tracker as fixed in the review: partners' usage per window in *)
(* sharded counters, admissions that must be audited to count, and a       *)
(* writer thread that drains a bounded audit channel.  Each partner has a  *)
(* shard of its own, the finest sharding there is.  A critical section     *)
(* under a shard's lock is one step.                                       *)
(*                                                                         *)
(* since, window, won, granted, strayed and forgiven are history: they     *)
(* say which window a reservation belongs to and are read by no step.      *)
(***************************************************************************)
EXTENDS Integers, Sequences, SequencesExt, FiniteSets, FiniteSetsExt, Functions

CONSTANTS
  Requests,      \* threads that call try_acquire or close_window
  Partners,
  LimitMaps,     \* the limits that reload_limits may publish
  MaxInflight,   \* Config::max_inflight
  Capacity,      \* Config::audit_capacity
  BatchMax,      \* records the writer takes for one fsync (256)
  MaxCalls,      \* bound: calls of try_acquire
  MaxWindows     \* bound: calls of close_window

ASSUME QuotaAssumption ==
  /\ \A m \in LimitMaps : DOMAIN m \subseteq Partners /\ \A p \in DOMAIN m : m[p] \in Nat
  /\ IsFiniteSet(Requests) /\ {MaxCalls, MaxWindows} \subseteq Nat
  /\ {MaxInflight, Capacity, BatchMax} \subseteq Nat \ {0}

VARIABLES
  limits,     \* the published map
  used, inflight, alerted,         \* Window, per partner
  channel,    \* audit records on their way to the writer
  closed,     \* the sender has been dropped
  writer,     \* where write_loop is
  batch,      \* the records of the fsync in progress
  written,    \* admissions written, per partner
  billed,     \* usage in written window summaries, per partner
  alerts,     \* Stats::alerts, per partner
  call,       \* per request: the call it is in, its step and its locals
  calls, closes,                   \* how many calls of each kind have begun
  window, won, granted, strayed, forgiven

counters == <<used, inflight, alerted>>
audit == <<channel, closed, writer, batch, written, billed>>
bounds == <<calls, closes>>
history == <<window, won, granted, strayed, forgiven>>
vars == <<limits, counters, audit, alerts, call, bounds, history>>

PerPartner(x) == [p \in Partners |-> x]
Admit(p) == <<"admit", p>>
WindowClosed(summary) == <<"window_closed", summary>>

Idle == [at |-> "idle"]

Record == ({"admit"} \X Partners) \union ({"window_closed"} \X [Partners -> Nat])

\* Where a call is, and the locals it has there.
CallState ==
  {Idle} \union [at : {"decide"}, who : Partners, limit : Nat]
    \union [at : {"audit", "roll_back"}, who : Partners, since : Nat]
    \union [at : {"alert", "admitted"}, who : Partners]
    \union [at : {"collect", "report"}, rows : [Partners -> Nat], left : SUBSET Partners]

Init ==
  /\ limits \in LimitMaps
  /\ used = PerPartner(0) /\ inflight = PerPartner(0) /\ alerted = PerPartner(FALSE)
  /\ channel = <<>> /\ closed = FALSE /\ writer = "recv" /\ batch = <<>>
  /\ written = PerPartner(0) /\ billed = PerPartner(0) /\ alerts = PerPartner(0)
  /\ call = [r \in Requests |-> Idle]
  /\ calls = 0 /\ closes = 0
  /\ window = PerPartner(0) /\ won = PerPartner(0) /\ granted = PerPartner(0)
  /\ strayed = PerPartner(0) /\ forgiven = PerPartner(0)

Goto(r, next) == call' = [call EXCEPT ![r] = next]
At(r, step) == call[r].at = step

-----------------------------------------------------------------------------
\* try_acquire

\* The limits are loaded before the shard is locked; a partner without one is
\* refused at once.
LoadLimit(r, p) ==
  /\ At(r, "idle") /\ ~closed /\ calls < MaxCalls
  /\ calls' = calls + 1
  /\ IF p \in DOMAIN limits
       THEN Goto(r, [at |-> "decide", who |-> p, limit |-> limits[p]])
       ELSE UNCHANGED call
  /\ UNCHANGED <<limits, counters, audit, alerts, closes, history>>

\* Seeded fault: the comparison admits one request too many.
ExhaustedOffByOne(r) == used[call[r].who] > call[r].limit

Exhausted(r) == used[call[r].who] >= call[r].limit

\* Seeded fault: one slot too many is given out.
SlotsTakenOffByOne(p) == inflight[p] > MaxInflight

SlotsTaken(p) == inflight[p] >= MaxInflight

\* Seeded fault: the alert is not remembered.
RememberAlertNever(p) == p \in Partners /\ UNCHANGED alerted

RememberAlert(p) == alerted' = [alerted EXCEPT ![p] = TRUE]

\* Check and increment under one lock.
Decide(r) ==
  /\ At(r, "decide")
  /\ LET p == call[r].who
     IN  \/ /\ Exhausted(r)
            /\ RememberAlert(p)
            /\ Goto(r, IF alerted[p] THEN Idle ELSE [at |-> "alert", who |-> p])
            /\ UNCHANGED <<used, inflight>>
         \/ /\ ~Exhausted(r) /\ SlotsTaken(p)
            /\ Goto(r, Idle)
            /\ UNCHANGED counters
         \/ /\ ~Exhausted(r) /\ ~SlotsTaken(p)
            /\ used' = [used EXCEPT ![p] = @ + 1]
            /\ inflight' = [inflight EXCEPT ![p] = @ + 1]
            /\ Goto(r, [at |-> "audit", who |-> p, since |-> window[p]])
            /\ UNCHANGED alerted
  /\ UNCHANGED <<limits, audit, alerts, bounds, history>>

\* on_exceeded runs after the lock is released.
Alert(r) ==
  /\ At(r, "alert") /\ Goto(r, Idle)
  /\ alerts' = [alerts EXCEPT ![call[r].who] = @ + 1]
  /\ UNCHANGED <<limits, counters, audit, bounds, history>>

\* The request is admitted, in the window it was counted in.
Grant(r) ==
  LET p == call[r].who
  IN  /\ Goto(r, [at |-> "admitted", who |-> p])
      /\ granted' = [granted EXCEPT ![p] = @ + 1]
      /\ won' = IF call[r].since = window[p] THEN [won EXCEPT ![p] = @ + 1] ELSE won

Room == Len(channel) < Capacity

\* Seeded fault: a full channel does not refuse the request.
AuditOptional(r) ==
  /\ At(r, "audit") /\ Grant(r)
  /\ channel' = IF Room THEN Append(channel, Admit(call[r].who)) ELSE channel
  /\ UNCHANGED <<limits, counters, closed, writer, batch, written, billed, alerts,
                 bounds, window, strayed, forgiven>>

\* try_send: no audit, no admission.
Audit(r) ==
  /\ At(r, "audit")
  /\ IF Room
       THEN channel' = Append(channel, Admit(call[r].who)) /\ Grant(r)
       ELSE /\ Goto(r, [call[r] EXCEPT !.at = "roll_back"])
            /\ UNCHANGED <<channel, granted, won>>
  /\ UNCHANGED <<limits, counters, closed, writer, batch, written, billed, alerts,
                 bounds, window, strayed, forgiven>>

\* saturating_sub(1)
LessOne(n) == IF n = 0 THEN 0 ELSE n - 1

\* History: a compensation of an earlier window's reservation takes one use
\* away from this window; one that finds no use left takes nothing.
NoteRollBack(r) ==
  LET p == call[r].who
      late == call[r].since # window[p]
  IN  /\ strayed' = [strayed EXCEPT ![p] = CASE late /\ used[p] > 0 -> @ + 1
                                            [] ~late /\ used[p] = 0 -> @ - 1
                                            [] OTHER -> @]
      /\ forgiven' = IF used[p] = 0 THEN [forgiven EXCEPT ![p] = @ + 1] ELSE forgiven

Release(p) ==
  /\ used' = [used EXCEPT ![p] = LessOne(@)]
  /\ inflight' = [inflight EXCEPT ![p] = LessOne(@)]

\* The compensation, in a second critical section.
RollBack(r) ==
  /\ At(r, "roll_back") /\ Goto(r, Idle)
  /\ Release(call[r].who) /\ NoteRollBack(r)
  /\ UNCHANGED <<limits, alerted, audit, alerts, bounds, window, won, granted>>

\* The request ends and drops its Admission.
DropAdmission(r) ==
  /\ At(r, "admitted") /\ Goto(r, Idle)
  /\ inflight' = [inflight EXCEPT ![call[r].who] = LessOne(@)]
  /\ UNCHANGED <<limits, used, alerted, audit, alerts, bounds, history>>

-----------------------------------------------------------------------------
\* close_window and reload_limits

BeginClose(r) ==
  /\ At(r, "idle") /\ ~closed /\ closes < MaxWindows
  /\ closes' = closes + 1
  /\ Goto(r, [at |-> "collect", rows |-> PerPartner(0), left |-> Partners])
  /\ UNCHANGED <<limits, counters, audit, alerts, calls, history>>

\* One shard at a time, in the order of the shards, which is any order of the
\* partners; requests in flight keep their slots.
CloseShard(r, p) ==
  /\ At(r, "collect") /\ p \in call[r].left
  /\ Goto(r, [at |-> IF call[r].left = {p} THEN "report" ELSE "collect",
              rows |-> [call[r].rows EXCEPT ![p] = used[p]],
              left |-> call[r].left \ {p}])
  /\ used' = [used EXCEPT ![p] = 0] /\ alerted' = [alerted EXCEPT ![p] = FALSE]
  /\ window' = [window EXCEPT ![p] = @ + 1]
  /\ won' = [won EXCEPT ![p] = 0] /\ strayed' = [strayed EXCEPT ![p] = 0]
  /\ UNCHANGED <<limits, inflight, audit, alerts, bounds, granted, forgiven>>

\* Seeded fault: the summary is offered with try_send, and dropped when the
\* channel is full.
ReportOrDrop(r) ==
  /\ At(r, "report") /\ Goto(r, Idle)
  /\ channel' = IF Room THEN Append(channel, WindowClosed(call[r].rows)) ELSE channel
  /\ UNCHANGED <<limits, counters, closed, writer, batch, written, billed, alerts,
                 bounds, history>>

\* send: the summary waits for room in the channel.
Report(r) ==
  /\ At(r, "report") /\ Room /\ Goto(r, Idle)
  /\ channel' = Append(channel, WindowClosed(call[r].rows))
  /\ UNCHANGED <<limits, counters, closed, writer, batch, written, billed, alerts,
                 bounds, history>>

Reload ==
  /\ ~closed /\ limits' \in LimitMaps \ {limits}
  /\ UNCHANGED <<counters, audit, alerts, call, bounds, history>>

-----------------------------------------------------------------------------
\* The audit writer, and shutdown

\* shutdown and Drop own the tracker: no call is running, no Admission is left.
Shutdown ==
  /\ ~closed /\ \A r \in Requests : At(r, "idle")
  /\ closed' = TRUE
  /\ UNCHANGED <<limits, counters, channel, writer, batch, written, billed, alerts,
                 call, bounds, history>>

Take ==
  /\ batch' = Append(batch, Head(channel)) /\ channel' = Tail(channel)

\* Seeded fault: a closed channel ends the loop with records still in it.
RecvOrLeave ==
  \/ /\ writer = "recv" /\ channel # <<>> /\ ~closed /\ Take /\ writer' = "fill"
  \/ /\ writer = "recv" /\ closed /\ writer' = "done" /\ UNCHANGED <<batch, channel>>

\* recv: an error only when the senders are gone and the queue is drained.
Recv ==
  \/ /\ writer = "recv" /\ channel # <<>> /\ Take /\ writer' = "fill"
  \/ /\ writer = "recv" /\ channel = <<>> /\ closed /\ writer' = "done"
     /\ UNCHANGED <<batch, channel>>

\* try_iter: whatever is there, up to the size of a batch.
FillBatch ==
  /\ writer = "fill"
  /\ IF channel # <<>> /\ Len(batch) < BatchMax
       THEN Take /\ UNCHANGED writer
       ELSE writer' = "sync" /\ UNCHANGED <<batch, channel>>

Copies(records, p) == Cardinality({i \in DOMAIN records : records[i] = Admit(p)})

Billed(records, p) ==
  FoldSeq(LAMBDA rec, acc : acc + (IF rec[1] = "admit" THEN 0 ELSE rec[2][p]), 0, records)

Sync ==
  /\ writer = "sync" /\ writer' = "recv"
  /\ written' = [p \in Partners |-> written[p] + Copies(batch, p)]
  /\ billed' = [p \in Partners |-> billed[p] + Billed(batch, p)]
  /\ batch' = <<>>
  /\ UNCHANGED channel

Writer ==
  /\ \/ (Recv \/ FillBatch) /\ UNCHANGED <<written, billed>>
     \/ Sync
  /\ UNCHANGED <<limits, counters, closed, alerts, call, bounds, history>>

-----------------------------------------------------------------------------
Step(r) ==
  \/ Decide(r) \/ Alert(r) \/ Audit(r) \/ RollBack(r)
  \/ \E p \in Partners : CloseShard(r, p)
  \/ Report(r)

Call(r) == \/ \E p \in Partners : LoadLimit(r, p)
           \/ BeginClose(r) \/ DropAdmission(r)

Next == (\E r \in Requests : Call(r) \/ Step(r)) \/ Reload \/ Shutdown \/ Writer

\* A call that has begun goes on, and so does the writer; nothing forces a
\* caller to call, to drop its Admission or to shut down.  SF because a send
\* waits in a queue for a slot others may take first.
Spec == /\ Init /\ [][Next]_vars
        /\ WF_vars(Writer) /\ \A r \in Requests : SF_vars(Step(r))
-----------------------------------------------------------------------------
CallsOf(p, steps) == {r \in Requests : call[r].at \in steps /\ call[r].who = p}
Holding(p) == CallsOf(p, {"audit", "roll_back", "admitted"})
Undecided(p) == CallsOf(p, {"audit", "roll_back"})

\* What the summaries being collected have taken over from the counters.
Collected(p) ==
  FoldSet(LAMBDA r, acc : acc + call[r].rows[p], 0,
          {r \in Requests : call[r].at \in {"collect", "report"}})

\* A slot is taken for exactly the requests that hold one, across refusals,
\* compensations and closed windows: none leaks and none is freed twice.
SlotsExact ==
  \A p \in Partners : inflight[p] = Cardinality(Holding(p)) /\ inflight[p] <= MaxInflight

\* The counter of a window is the admissions of that window and those being
\* decided, short only of compensations that came late from an earlier window,
\* and it passes no limit that was ever published.
UsageExact ==
  \A p \in Partners :
    /\ used[p] + strayed[p]
         = won[p] + Cardinality({r \in Undecided(p) : call[r].since = window[p]})
    /\ used[p] > 0 => \E m \in LimitMaps : p \in DOMAIN m /\ used[p] <= m[p]

\* Every admission, and nothing else, has a record in the channel, in the batch
\* being written or in the log.
AuditComplete ==
  \A p \in Partners : Copies(channel \o batch, p) + written[p] = granted[p]

\* No usage is lost on its way to billing: what is billed, or on its way, and
\* what the open window has used is what was admitted, plus reservations still
\* undecided and those whose compensation came when nothing was left to take.
BillingConserved ==
  \A p \in Partners :
    billed[p] + Billed(channel \o batch, p) + Collected(p) + used[p]
      = granted[p] + Cardinality(Undecided(p)) + forgiven[p]

\* The hook runs at most once per partner and window.
OneAlertPerWindow == \A p \in Partners : alerts[p] <= window[p] + 1

\* A partner is admitted no more often in a window than its limit says.
QuotaHeld ==
  \A p \in Partners : \A m \in LimitMaps : p \in DOMAIN m => won[p] <= m[p]

\* After shutdown the writer drains the channel and stops, and a summary that
\* waits for the channel is reported.
Drained ==
  /\ closed ~> (writer = "done" /\ channel = <<>> /\ batch = <<>>)
  /\ \A r \in Requests : At(r, "report") ~> At(r, "idle")
=============================================================================
