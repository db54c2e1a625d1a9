------------------------------- MODULE Relay -------------------------------
(***************************************************************************)
(* The webhook relay after its review: an intake that never waits, a       *)
(* dispatcher per merchant with a bounded queue and a bounded number of    *)
(* deliveries in flight, and a shutdown with a deadline.                   *)
(* Source: listings/part-13/review-02-webhook-relay-fixed.rs.              *)
(*                                                                         *)
(* Every task runs on one thread, so a step is what runs between two       *)
(* awaits. Time is left out: a timeout may come at any point.              *)
(***************************************************************************)
EXTENDS Integers, Sequences, FiniteSets, SequencesExt

CONSTANTS Merchants, NoEvent,
          Load,              \* the merchant of each event, in the order they arrive
          QueueLen, Permits, Attempts, AuditBatch

Ids == 1 .. Len(Load)

ASSUME RelayAssumption ==
  /\ Load \in Seq(Merchants)
  /\ QueueLen \in Nat \ {0} /\ Permits \in Nat \ {0} /\ Attempts \in Nat \ {0} /\ AuditBatch \in Nat \ {0}
  /\ NoEvent \notin Ids

Kinds == {"delivered", "dead_letter", "spilled", "requeued"}

VARIABLES arrived,           \* events intake has handled
          main,              \* simulate(): "intake", "joining" or "reported"
          stop,              \* the cancellation token
          queue,             \* of each merchant
          disp, held,        \* the position of each dispatcher, and the event it holds
          task, tries,       \* the delivery task of each event, and the attempts that failed
          inFlight,          \* in_flight_ids of each merchant
          out,               \* how often an event is in each of the four lists
          pending, durable,  \* audit lines
          peak               \* peak_in_flight

intakeVars == <<arrived, main, stop>>
taskVars   == <<task, tries, inFlight, peak>>
auditVars  == <<pending, durable>>
relayVars  == <<intakeVars, queue, disp, held, taskVars, out, auditVars>>

RelayInit ==
  /\ arrived = 0 /\ main = "intake" /\ stop = FALSE
  /\ queue = [m \in Merchants |-> <<>>]
  /\ disp = [m \in Merchants |-> "recv"]
  /\ held = [m \in Merchants |-> NoEvent]
  /\ task = [e \in Ids |-> "none"]
  /\ tries = [e \in Ids |-> 0]
  /\ inFlight = [m \in Merchants |-> {}]
  /\ peak = [m \in Merchants |-> 0]
  /\ out = [p \in Kinds \X Ids |-> 0]
  /\ pending = 0 /\ durable = 0

PutAll(k, S) == out' = [p \in Kinds \X Ids |-> IF p[1] = k /\ p[2] \in S THEN out[p] + 1 ELSE out[p]]
Live(m)      == {e \in Ids : Load[e] = m /\ task[e] \in {"spawned", "attempt", "backoff"}}

(***************************************************************************)
(* simulate()                                                              *)
(***************************************************************************)
Offer ==
  LET e == arrived + 1 IN
  /\ main = "intake"
  /\ e \in Ids
  /\ arrived' = e
  /\ IF Len(queue[Load[e]]) < QueueLen
     THEN queue' = [queue EXCEPT ![Load[e]] = Append(@, e)] /\ UNCHANGED out
     ELSE PutAll("spilled", {e}) /\ UNCHANGED queue
  /\ UNCHANGED <<main, stop, disp, held, taskVars, auditVars>>

\* Intake is over before the token is cancelled, and the token before the senders are
\* dropped: try_send never finds the queue closed, nor recv all senders gone.
Deploy ==
  /\ main = "intake"
  /\ arrived = Len(Load)
  /\ stop' = TRUE
  /\ main' = "joining"
  /\ UNCHANGED <<arrived, queue, disp, held, taskVars, out, auditVars>>

\* Seeded fault: the last lines are left to Drop.
ReportUnflushed ==
  /\ main = "joining"
  /\ \A m \in Merchants : disp[m] = "done"
  /\ main' = "reported"
  /\ UNCHANGED <<arrived, stop, queue, disp, held, taskVars, out, auditVars>>

Report ==
  /\ main = "joining"
  /\ \A m \in Merchants : disp[m] = "done"
  /\ main' = "reported"
  /\ durable' = durable + pending
  /\ pending' = 0
  /\ UNCHANGED <<arrived, stop, queue, disp, held, taskVars, out>>

(***************************************************************************)
(* dispatcher(m)                                                           *)
(***************************************************************************)
Take(m) ==
  /\ disp[m] = "recv"
  /\ ~stop
  /\ queue[m] /= <<>>
  /\ held' = [held EXCEPT ![m] = Head(queue[m])]
  /\ queue' = [queue EXCEPT ![m] = Tail(@)]
  /\ disp' = [disp EXCEPT ![m] = "permit"]
  /\ UNCHANGED <<intakeVars, taskVars, out, auditVars>>

\* A task holds its permit for as long as it lives.
Deliver(m) ==
  /\ disp[m] = "permit"
  /\ ~stop
  /\ Cardinality(Live(m)) < Permits
  /\ task' = [task EXCEPT ![held[m]] = "spawned"]
  /\ held' = [held EXCEPT ![m] = NoEvent]
  /\ disp' = [disp EXCEPT ![m] = "recv"]
  /\ UNCHANGED <<intakeVars, queue, tries, inFlight, peak, out, auditVars>>

\* Seeded fault: only what is still in the queue is requeued.
StopForgettingHeld(m) ==
  /\ disp[m] \in {"recv", "permit"}
  /\ stop
  /\ PutAll("requeued", ToSet(queue[m]))
  /\ queue' = [queue EXCEPT ![m] = <<>>]
  /\ held' = [held EXCEPT ![m] = NoEvent]
  /\ disp' = [disp EXCEPT ![m] = "joining"]
  /\ UNCHANGED <<intakeVars, taskVars, auditVars>>

\* Both selects look at the token first. The event that waits for a permit and
\* what is still in the queue were never attempted.
Stop(m) ==
  /\ disp[m] \in {"recv", "permit"}
  /\ stop
  /\ PutAll("requeued", ToSet(queue[m]) \cup ({held[m]} \ {NoEvent}))
  /\ queue' = [queue EXCEPT ![m] = <<>>]
  /\ held' = [held EXCEPT ![m] = NoEvent]
  /\ disp' = [disp EXCEPT ![m] = "joining"]
  /\ UNCHANGED <<intakeVars, taskVars, auditVars>>

Joined(m) ==
  /\ disp[m] = "joining"
  /\ Live(m) = {}
  /\ disp' = [disp EXCEPT ![m] = "done"]
  /\ UNCHANGED <<intakeVars, queue, held, taskVars, out, auditVars>>

\* Seeded fault: the dispatcher waits for as long as it takes.
DeadlineNever(m) == FALSE /\ UNCHANGED relayVars

\* The run queue is first in, first out, and a task enters it when it is spawned:
\* it was polled, and is in inFlight, before the dispatcher is woken by its deadline.
Deadline(m) ==
  /\ disp[m] = "joining"
  /\ Live(m) /= {}
  /\ \A e \in Live(m) : task[e] /= "spawned"
  /\ task' = [e \in Ids |-> IF e \in Live(m) THEN "aborted" ELSE task[e]]
  /\ disp' = [disp EXCEPT ![m] = "aborted"]
  /\ UNCHANGED <<intakeVars, queue, held, tries, inFlight, peak, out, auditVars>>

RequeueInFlight(m) ==
  /\ disp[m] = "aborted"
  /\ PutAll("requeued", inFlight[m])
  /\ inFlight' = [inFlight EXCEPT ![m] = {}]
  /\ disp' = [disp EXCEPT ![m] = "done"]
  /\ UNCHANGED <<intakeVars, queue, held, task, tries, peak, auditVars>>

(***************************************************************************)
(* The delivery task of e.                                                 *)
(***************************************************************************)
\* A permit that was released may already be given to the waiting dispatcher.
FirstPoll(e) ==
  LET m == Load[e] IN
  /\ task[e] = "spawned"
  /\ task' = [task EXCEPT ![e] = "attempt"]
  /\ inFlight' = [inFlight EXCEPT ![m] = @ \cup {e}]
  /\ \E given \in {0, 1} :
       LET n == Cardinality(Live(m)) + given IN
       /\ given = 1 => disp[m] = "permit" /\ n <= Permits
       /\ peak' = [peak EXCEPT ![m] = IF n > @ THEN n ELSE @]
  /\ UNCHANGED <<intakeVars, queue, disp, held, tries, out, auditVars>>

Ends(e) == /\ task' = [task EXCEPT ![e] = "ended"]
           /\ inFlight' = [inFlight EXCEPT ![Load[e]] = @ \ {e}]

\* record(): a full batch is written at once.
Answered(e) ==
  /\ task[e] = "attempt"
  /\ Ends(e)
  /\ IF pending + 1 = AuditBatch
     THEN durable' = durable + pending + 1 /\ pending' = 0
     ELSE pending' = pending + 1 /\ UNCHANGED durable
  /\ PutAll("delivered", {e})
  /\ UNCHANGED <<intakeVars, queue, disp, held, tries, peak>>

\* Whatever came of it at the endpoint: the attempt timed out.
AttemptFails(e) ==
  /\ task[e] = "attempt"
  /\ task' = [task EXCEPT ![e] = "backoff"]
  /\ tries' = [tries EXCEPT ![e] = @ + 1]
  /\ UNCHANGED <<intakeVars, queue, disp, held, inFlight, peak, out, auditVars>>

TryAgain(e) ==
  /\ task[e] = "backoff"
  /\ tries[e] < Attempts
  /\ task' = [task EXCEPT ![e] = "attempt"]
  /\ UNCHANGED <<intakeVars, queue, disp, held, tries, inFlight, peak, out, auditVars>>

GiveUp(e) ==
  /\ task[e] = "backoff"
  /\ tries[e] = Attempts
  /\ Ends(e)
  /\ PutAll("dead_letter", {e})
  /\ UNCHANGED <<intakeVars, queue, disp, held, tries, peak, auditVars>>

Simulate      == Offer \/ Deploy \/ Report
Dispatcher(m) == Take(m) \/ Deliver(m) \/ Stop(m) \/ Joined(m) \/ Deadline(m) \/ RequeueInFlight(m)
Delivery(e)   == FirstPoll(e) \/ Answered(e) \/ AttemptFails(e) \/ TryAgain(e) \/ GiveUp(e)

RelayNext == Simulate \/ (\E m \in Merchants : Dispatcher(m)) \/ (\E e \in Ids : Delivery(e))

\* A task in the run queue is polled; the time of the deploy and every deadline come.
\* Nothing is assumed of the endpoints.
RelayFairness == /\ WF_relayVars(Simulate)
                 /\ \A m \in Merchants : WF_relayVars(Dispatcher(m))
                 /\ \A e \in Ids : WF_relayVars(FirstPoll(e))
RelaySpec == RelayInit /\ [][RelayNext]_relayVars /\ RelayFairness

-----------------------------------------------------------------------------
Lists(e)   == out[<<"delivered", e>>] + out[<<"dead_letter", e>>] + out[<<"spilled", e>>] + out[<<"requeued", e>>]
AsOne(b)   == IF b THEN 1 ELSE 0
Waits(e)   == e \in ToSet(queue[Load[e]])
Held(e)    == e = held[Load[e]]
Going(e)   == e \in Live(Load[e]) \/ e \in inFlight[Load[e]]

Single(q)  == \A i, j \in DOMAIN q : q[i] = q[j] => i = j

\* At any time an event that came is in exactly one place, once: its merchant's
\* queue, the dispatcher's hand, a delivery, or one of the four lists; also when
\* the stop finds it waiting for a permit and when its delivery is aborted.
EventsOnce ==
  \A e \in Ids :
    /\ AsOne(Waits(e)) + AsOne(Held(e)) + AsOne(Going(e)) + Lists(e) = AsOne(e <= arrived)
    /\ Single(queue[Load[e]])

AllAccountedFor == \A e \in Ids : Lists(e) = 1
AuditMatches    == durable = Cardinality({e \in Ids : out[<<"delivered", e>>] = 1})
PermitsHeld     == \A m \in Merchants : peak[m] <= Permits

\* The report finds every event in one list, an audit line on durable storage for
\* each delivery, and no merchant that had more deliveries than permits.
ReportComplete == main = "reported" => AllAccountedFor /\ AuditMatches /\ PermitsHeld

\* The deploy is over some time, whatever the endpoints do.
RelayReports == <>(main = "reported")
=============================================================================
