----------------------------- MODULE AsyncProofs -----------------------------
(***************************************************************************)
(* Proofs about the webhook relay and about the ring of one producer and   *)
(* one consumer, two of the machines that MCAsync runs.                    *)
(***************************************************************************)
EXTENDS Relay, SpscRing, FiniteSetTheorems, TLAPS

(***************************************************************************)
(* The relay loses and doubles no event, for any merchants, any load and   *)
(* any limits. EventsOnce is not inductive alone: a dispatcher must hold   *)
(* an event exactly while it waits for a permit, what it drains must be    *)
(* its own, and what it aborts must have been noted in inFlight.           *)
(***************************************************************************)
States == {"none", "spawned", "attempt", "backoff", "ended", "aborted"}

Typed ==
  /\ arrived \in 0 .. Len(Load)
  /\ main \in {"intake", "joining", "reported"}
  /\ stop \in BOOLEAN
  /\ queue \in [Merchants -> Seq(Ids)]
  /\ disp \in [Merchants -> {"recv", "permit", "joining", "aborted", "done"}]
  /\ held \in [Merchants -> Ids \cup {NoEvent}]
  /\ task \in [Ids -> States]
  /\ inFlight \in [Merchants -> SUBSET Ids]
  /\ out \in [Kinds \X Ids -> Nat]

\* Every event is with its own merchant's dispatcher.
Own ==
  \A m \in Merchants :
    /\ \A e \in ToSet(queue[m]) \cup inFlight[m] : Load[e] = m
    /\ held[m] /= NoEvent => Load[held[m]] = m
    /\ held[m] /= NoEvent <=> disp[m] = "permit"

\* A delivery that was polled is in inFlight, and one in inFlight goes on or was aborted.
Noted ==
  \A e \in Ids :
    /\ task[e] \in {"attempt", "backoff"} => e \in inFlight[Load[e]]
    /\ e \in inFlight[Load[e]] => \/ task[e] \in {"attempt", "backoff"}
                                  \/ disp[Load[e]] = "aborted"

\* What each position of a dispatcher and of simulate() has behind it.
Order ==
  /\ main /= "intake" => arrived = Len(Load)
  /\ stop <=> main /= "intake"
  /\ main = "reported" => \A m \in Merchants : disp[m] = "done"
  /\ \A m \in Merchants :
       /\ disp[m] \in {"joining", "aborted", "done"} => stop /\ queue[m] = <<>>
       /\ disp[m] \in {"aborted", "done"} => Live(m) = {}
       /\ disp[m] = "done" => inFlight[m] = {}

\* The counts: what was delivered, what is in flight.
Delivered == {e \in Ids : out[<<"delivered", e>>] = 1}
Audited   == /\ durable \in Nat /\ pending \in Nat
             /\ durable + pending = Cardinality(Delivered)
             /\ main = "reported" => pending = 0
Limited   == /\ peak \in [Merchants -> Nat]
             /\ \A m \in Merchants : Cardinality(Live(m)) <= Permits /\ peak[m] <= Permits

RelayInv == Typed /\ Own /\ Noted /\ Order /\ EventsOnce

-----------------------------------------------------------------------------
(***************************************************************************)
(* Queues as sets.                                                         *)
(***************************************************************************)
LEMMA LoadOf ==
  /\ Len(Load) \in Nat
  /\ \A e \in Ids : e \in Nat /\ Load[e] \in Merchants
BY RelayAssumption DEF Ids

LEMMA Appended ==
  ASSUME NEW S, NEW q \in Seq(S), NEW x \in S
  PROVE  /\ Append(q, x) \in Seq(S)
         /\ ToSet(Append(q, x)) = ToSet(q) \cup {x}
         /\ Single(q) /\ x \notin ToSet(q) => Single(Append(q, x))
<1>1. /\ DOMAIN Append(q, x) = 1 .. (Len(q) + 1)
      /\ DOMAIN q = 1 .. Len(q)
      /\ \A i \in 1 .. Len(q) : Append(q, x)[i] = q[i]
      /\ Append(q, x)[Len(q) + 1] = x
      /\ Len(q) \in Nat
  OBVIOUS
<1>2. Append(q, x) \in Seq(S)
  OBVIOUS
<1>3. ToSet(Append(q, x)) = ToSet(q) \cup {x}
  BY <1>1 DEF ToSet
<1>4. Single(q) /\ x \notin ToSet(q) => Single(Append(q, x))
  BY <1>1 DEF ToSet, Single
<1> QED
  BY <1>2, <1>3, <1>4

LEMMA Taken ==
  ASSUME NEW S, NEW q \in Seq(S), q /= <<>>
  PROVE  /\ Head(q) \in S
         /\ Tail(q) \in Seq(S)
         /\ ToSet(q) = ToSet(Tail(q)) \cup {Head(q)}
         /\ Single(q) => Single(Tail(q)) /\ Head(q) \notin ToSet(Tail(q))
<1>1. /\ DOMAIN q = 1 .. Len(q)
      /\ Len(q) \in Nat \ {0}
      /\ Head(q) = q[1]
      /\ DOMAIN Tail(q) = 1 .. (Len(q) - 1)
      /\ \A i \in 1 .. (Len(q) - 1) : Tail(q)[i] = q[i + 1]
  OBVIOUS
<1>2. Head(q) \in S /\ Tail(q) \in Seq(S)
  OBVIOUS
<1>3. ToSet(q) = ToSet(Tail(q)) \cup {Head(q)}
  <2>1. \A i \in 2 .. Len(q) : i - 1 \in 1 .. (Len(q) - 1) /\ Tail(q)[i - 1] = q[i]
    BY <1>1
  <2>2. \A i \in 1 .. Len(q) : q[i] \in ToSet(Tail(q)) \cup {Head(q)}
    <3> TAKE i \in 1 .. Len(q)
    <3>1. CASE i = 1
      BY <1>1, <3>1
    <3>2. CASE i \in 2 .. Len(q)
      BY <1>1, <2>1, <3>2 DEF ToSet
    <3> QED
      BY <1>1, <3>1, <3>2
  <2>3. ToSet(Tail(q)) \cup {Head(q)} \subseteq ToSet(q)
    BY <1>1 DEF ToSet
  <2> QED
    BY <1>1, <2>2, <2>3 DEF ToSet
<1>4. Single(q) => Single(Tail(q)) /\ Head(q) \notin ToSet(Tail(q))
  BY <1>1 DEF ToSet, Single
<1> QED
  BY <1>2, <1>3, <1>4

LEMMA Emptied == ToSet(<<>>) = {} /\ Single(<<>>)
BY DEF ToSet, Single

LEMMA QueueSets == 
  ASSUME Typed, NEW m \in Merchants
  PROVE  ToSet(queue[m]) \subseteq Ids
BY DEF Typed, ToSet

(***************************************************************************)
(* The lists.                                                              *)
(***************************************************************************)
LEMMA ListsNat ==
  ASSUME Typed, NEW e \in Ids
  PROVE  Lists(e) \in Nat
<1>1. \A k \in Kinds : out[<<k, e>>] \in Nat
  BY DEF Typed
<1>2. \A k \in {"delivered", "dead_letter", "spilled", "requeued"} : out[<<k, e>>] \in Nat
  BY <1>1 DEF Kinds
<1> QED
  BY <1>2 DEF Lists

\* EventsOnce without the counting.
LEMMA Places ==
  ASSUME Typed, EventsOnce, NEW e \in Ids
  PROVE  /\ Lists(e) \in Nat
         /\ Single(queue[Load[e]])
         /\ e > arrived => ~Waits(e) /\ ~Held(e) /\ ~Going(e) /\ Lists(e) = 0
         /\ Waits(e) => e <= arrived /\ ~Held(e) /\ ~Going(e) /\ Lists(e) = 0
         /\ Held(e) => e <= arrived /\ ~Waits(e) /\ ~Going(e) /\ Lists(e) = 0
         /\ Going(e) => e <= arrived /\ ~Waits(e) /\ ~Held(e) /\ Lists(e) = 0
         /\ e <= arrived /\ ~Waits(e) /\ ~Held(e) /\ ~Going(e) => Lists(e) = 1
<1>1. /\ AsOne(Waits(e)) + AsOne(Held(e)) + AsOne(Going(e)) + Lists(e) = AsOne(e <= arrived)
      /\ Single(queue[Load[e]])
  BY DEF EventsOnce
<1>2. Lists(e) \in Nat /\ e \in Int /\ arrived \in Int
  BY ListsNat, LoadOf DEF Typed
<1>3. \A b \in BOOLEAN : AsOne(b) = IF b THEN 1 ELSE 0
  BY DEF AsOne
<1> QED
  BY <1>1, <1>2 DEF AsOne

LEMMA Put ==
  ASSUME Typed, NEW k \in Kinds, NEW S \in SUBSET Ids, PutAll(k, S)
  PROVE  /\ out' \in [Kinds \X Ids -> Nat]
         /\ \A e \in Ids : Lists(e) \in Nat /\ Lists(e)' = Lists(e) + AsOne(e \in S)
<1>1. out \in [Kinds \X Ids -> Nat]
  BY DEF Typed
<1>2. out' = [p \in Kinds \X Ids |-> IF p[1] = k /\ p[2] \in S THEN out[p] + 1 ELSE out[p]]
  BY DEF PutAll
<1>3. \A p \in Kinds \X Ids : out[p] \in Nat
  BY <1>1
<1>4. out' \in [Kinds \X Ids -> Nat]
  BY <1>2, <1>3
<1>5. ASSUME NEW e \in Ids, NEW j \in Kinds
      PROVE  out'[<<j, e>>] = out[<<j, e>>] + AsOne(j = k /\ e \in S) /\ out[<<j, e>>] \in Nat
  <2>1. <<j, e>> \in Kinds \X Ids /\ <<j, e>>[1] = j /\ <<j, e>>[2] = e
    OBVIOUS
  <2> QED
    BY <1>2, <1>3, <2>1 DEF AsOne
<1>6. ASSUME NEW e \in Ids
      PROVE  Lists(e) \in Nat /\ Lists(e)' = Lists(e) + AsOne(e \in S)
  <2>1. \A j \in Kinds : out'[<<j, e>>] = out[<<j, e>>] + AsOne(j = k /\ e \in S) /\ out[<<j, e>>] \in Nat
    BY <1>5
  <2> QED
    BY <2>1 DEF Lists, AsOne, Kinds
<1> QED
  BY <1>4, <1>6

LEMMA NotPut ==
  ASSUME Typed, UNCHANGED out
  PROVE  \A e \in Ids : Lists(e) \in Nat /\ Lists(e)' = Lists(e)
<1>1. \A j \in Kinds, e \in Ids : out[<<j, e>>] \in Nat
  BY DEF Typed
<1>2. out' = out
  OBVIOUS
<1>3. \A e \in Ids : Lists(e)' = Lists(e)
  BY <1>2 DEF Lists
<1>4. ASSUME NEW e \in Ids PROVE Lists(e) \in Nat
  <2>1. \A j \in Kinds : out[<<j, e>>] \in Nat
    BY <1>1
  <2>2. \A j \in {"delivered", "dead_letter", "spilled", "requeued"} : out[<<j, e>>] \in Nat
    BY <2>1 DEF Kinds
  <2> QED
    BY <2>2 DEF Lists
<1> QED
  BY <1>3, <1>4

(***************************************************************************)
(* The initial states.                                                     *)
(***************************************************************************)
LEMMA InitInv == RelayInit => RelayInv
<1> SUFFICES ASSUME RelayInit PROVE RelayInv
  OBVIOUS
<1>1. Typed
  <2>1. \A m \in Merchants : <<>> \in Seq(Ids)
    OBVIOUS
  <2>2. /\ arrived \in 0 .. Len(Load) /\ main = "intake" /\ stop \in BOOLEAN
    <3>1. arrived = 0 /\ main = "intake" /\ stop = FALSE
      BY DEF RelayInit
    <3>2. Len(Load) \in Nat
      BY LoadOf
    <3>3. arrived \in 0 .. Len(Load)
      BY <3>1, <3>2
    <3> QED
      BY <3>1, <3>3
  <2>5. queue \in [Merchants -> Seq(Ids)]
    BY <2>1 DEF RelayInit
  <2>6. /\ disp \in [Merchants -> {"recv", "permit", "joining", "aborted", "done"}]
        /\ held \in [Merchants -> Ids \cup {NoEvent}]
    BY DEF RelayInit
  <2>3. task \in [Ids -> States] /\ inFlight \in [Merchants -> SUBSET Ids]
    BY DEF RelayInit, States
  <2>4. out \in [Kinds \X Ids -> Nat]
    BY DEF RelayInit
  <2> QED
    BY <2>2, <2>3, <2>4, <2>5, <2>6 DEF Typed
<1>2. Own
  BY Emptied DEF RelayInit, Own
<1>3. Noted
  BY LoadOf DEF RelayInit, Noted
<1>4. Order
  BY DEF RelayInit, Order
<1>5. ASSUME NEW e \in Ids
      PROVE  /\ ~Waits(e) /\ ~Held(e) /\ ~Going(e) /\ Lists(e) = 0
             /\ ~(e <= arrived) /\ Single(queue[Load[e]])
  <2>1. ~Waits(e) /\ ~Held(e) /\ Single(queue[Load[e]])
    BY Emptied, LoadOf, RelayAssumption DEF RelayInit, Waits, Held
  <2>2. ~Going(e)
    BY LoadOf DEF RelayInit, Going, Live
  <2>3. Lists(e) = 0
    <3>1. \A k \in {"delivered", "dead_letter", "spilled", "requeued"} : out[<<k, e>>] = 0
      BY DEF RelayInit, Kinds
    <3> QED
      BY <3>1 DEF Lists
  <2> QED
    BY <2>1, <2>2, <2>3 DEF RelayInit, Ids
<1>6. EventsOnce
  BY <1>5 DEF EventsOnce, AsOne
<1> QED
  BY <1>1, <1>2, <1>3, <1>4, <1>6 DEF RelayInv

(***************************************************************************)
(* simulate()                                                              *)
(***************************************************************************)
LEMMA OfferStep ==
  ASSUME RelayInv, Offer
  PROVE  RelayInv'
<1>1. Typed /\ Own /\ Noted /\ Order /\ EventsOnce
  BY DEF RelayInv
<1>0. PICK new \in Ids : new = arrived + 1
  BY DEF Offer
<1> DEFINE to == Load[new]
<1>2. /\ new \in Ids /\ to \in Merchants /\ arrived' = new
      /\ UNCHANGED <<main, stop, disp, held, task, tries, inFlight, peak>>
      /\ main = "intake" /\ ~stop
  BY <1>0, <1>1, LoadOf DEF Offer, taskVars, Order
<1>3. ~Waits(new) /\ ~Held(new) /\ ~Going(new) /\ Lists(new) = 0 /\ new \notin ToSet(queue[to])
  BY <1>0, <1>1, <1>2, Places, LoadOf DEF Typed, Waits
<1>4. /\ \/ /\ queue' = [queue EXCEPT ![to] = Append(@, new)]
            /\ UNCHANGED out
         \/ /\ PutAll("spilled", {new})
            /\ UNCHANGED queue
      /\ queue \in [Merchants -> Seq(Ids)]
  BY <1>0, <1>1 DEF Offer, Typed
<1>5. /\ queue' \in [Merchants -> Seq(Ids)]
      /\ \A m \in Merchants : Single(queue[m]) => Single(queue'[m]) \/ m = to
      /\ \A m \in Merchants : ToSet(queue'[m]) \subseteq ToSet(queue[m]) \cup {new}
      /\ \A m \in Merchants : m /= to => queue'[m] = queue[m]
      /\ Single(queue[to]) => Single(queue'[to])
  <2>1. CASE UNCHANGED queue
    BY <1>4, <2>1
  <2>2. CASE queue' = [queue EXCEPT ![to] = Append(@, new)]
    <3>1. queue'[to] = Append(queue[to], new) /\ \A m \in Merchants : m /= to => queue'[m] = queue[m]
      BY <1>2, <1>4, <2>2
    <3>2. queue[to] \in Seq(Ids)
      BY <1>2, <1>4
    <3>3. /\ Append(queue[to], new) \in Seq(Ids)
          /\ ToSet(Append(queue[to], new)) = ToSet(queue[to]) \cup {new}
          /\ Single(queue[to]) => Single(Append(queue[to], new))
      BY <1>2, <1>3, <3>2, Appended
    <3> QED
      BY <1>2, <1>4, <2>2, <3>1, <3>3
  <2> QED
    BY <1>4, <2>1, <2>2
<1>6. out' \in [Kinds \X Ids -> Nat]
  BY <1>1, <1>2, <1>4, Put DEF Typed, Kinds
<1>7. Typed'
  BY <1>1, <1>2, <1>5, <1>6, LoadOf DEF Typed, Ids
<1>8. Own'
  BY <1>1, <1>2, <1>5 DEF Own
<1>9. Noted'
  BY <1>1, <1>2 DEF Noted
<1>10. Order'
  BY <1>1, <1>2, <1>5 DEF Order, Live
<1>11. ASSUME NEW e \in Ids
       PROVE  /\ Held(e)' = Held(e) /\ Going(e)' = Going(e)
              /\ e /= new => Waits(e)' = Waits(e) /\ Lists(e)' = Lists(e)
              /\ AsOne(Waits(new)') + Lists(new)' = 1
              /\ Single(queue'[Load[e]])
  <2>0. e \in Nat /\ Load[e] \in Merchants /\ Typed /\ Load[new] = to
    BY <1>1, LoadOf
  <2>1. Held(e)' = Held(e) /\ Going(e)' = Going(e)
    BY <1>2 DEF Held, Going, Live
  <2>2. Single(queue'[Load[e]])
    BY <1>1, <1>5, <2>0, Places
  <2>3. CASE UNCHANGED out /\ queue' = [queue EXCEPT ![to] = Append(@, new)]
    <3>1. ToSet(queue'[to]) = ToSet(queue[to]) \cup {new}
      <4>1. queue[to] \in Seq(Ids) /\ queue'[to] = Append(queue[to], new)
        BY <1>2, <1>4, <2>3
      <4> QED
        BY <1>2, <4>1, Appended
    <3>2. e /= new => Waits(e)' = Waits(e)
      BY <1>5, <2>0, <3>1 DEF Waits
    <3>3. Waits(new)'
      BY <3>1 DEF Waits
    <3>4. Lists(e)' = Lists(e) /\ Lists(new)' = 0
      BY <1>2, <1>3, <2>0, <2>3, NotPut
    <3> QED
      BY <2>1, <2>2, <3>2, <3>3, <3>4 DEF AsOne
  <2>4. CASE PutAll("spilled", {new}) /\ UNCHANGED queue
    <3>1. Waits(e)' = Waits(e) /\ ~Waits(new)'
      BY <1>3, <2>4 DEF Waits
    <3>2. \A f \in Ids : Lists(f) \in Nat /\ Lists(f)' = Lists(f) + AsOne(f \in {new})
      <4>1. "spilled" \in Kinds /\ {new} \in SUBSET Ids
        BY <1>2 DEF Kinds
      <4> QED
        BY <2>0, <2>4, <4>1, Put
    <3> QED
      BY <1>2, <1>3, <2>1, <2>2, <3>1, <3>2 DEF AsOne
  <2> QED
    BY <1>4, <2>3, <2>4
<1>12. ASSUME NEW e \in Ids
       PROVE  /\ AsOne(Waits(e))' + AsOne(Held(e))' + AsOne(Going(e))' + Lists(e)' = AsOne(e <= arrived)'
              /\ Single(queue'[Load[e]])
  <2>1. CASE e = new
    BY <1>2, <1>3, <1>11, <2>1, LoadOf DEF AsOne
  <2>2. CASE e /= new
    <3>1. AsOne(e <= arrived)' = AsOne(e <= arrived)
      BY <1>0, <1>1, <1>2, <2>2, LoadOf DEF Typed, AsOne
    <3> QED
      BY <1>1, <1>11, <2>2, <3>1 DEF EventsOnce, AsOne
  <2> QED
    BY <2>1, <2>2
<1>13. EventsOnce'
  BY <1>12 DEF EventsOnce
<1> QED
  BY <1>7, <1>8, <1>9, <1>10, <1>13 DEF RelayInv

\* EventsOnce is kept by a step that moves events from place to place.
LEMMA Moved ==
  ASSUME EventsOnce, UNCHANGED arrived,
         \A e \in Ids : /\ AsOne(Waits(e))' + AsOne(Held(e))' + AsOne(Going(e))' + Lists(e)'
                              = AsOne(Waits(e)) + AsOne(Held(e)) + AsOne(Going(e)) + Lists(e)
                         /\ Single(queue'[Load[e]])
  PROVE  EventsOnce'
<1> SUFFICES ASSUME NEW e \in Ids
             PROVE  /\ AsOne(Waits(e))' + AsOne(Held(e))' + AsOne(Going(e))' + Lists(e)' = AsOne(e <= arrived)'
                    /\ Single(queue'[Load[e]])
  BY DEF EventsOnce
<1>1. AsOne(e <= arrived)' = AsOne(e <= arrived)
  BY DEF AsOne
<1> QED
  BY <1>1 DEF EventsOnce

\* What Going depends on.
LEMMA SameGoing ==
  ASSUME UNCHANGED <<task, inFlight>>
  PROVE  /\ \A m \in Merchants : Live(m)' = Live(m)
         /\ \A e \in Ids : Going(e)' = Going(e)
BY DEF Going, Live

LEMMA DeployStep ==
  ASSUME RelayInv, Deploy \/ Report
  PROVE  RelayInv'
<1>1. Typed /\ Own /\ Noted /\ Order /\ EventsOnce
  BY DEF RelayInv
<1>2. UNCHANGED <<arrived, queue, disp, held, task, inFlight, out>>
  BY DEF Deploy, Report, taskVars
<1>3. \/ main = "intake" /\ arrived = Len(Load) /\ stop' = TRUE /\ main' = "joining"
      \/ /\ main = "joining" /\ main' = "reported" /\ stop' = stop
         /\ \A m \in Merchants : disp[m] = "done"
  BY DEF Deploy, Report
<1>4. stop' \in BOOLEAN
  BY <1>1, <1>3 DEF Typed
<1>5. Typed'
  BY <1>1, <1>2, <1>3, <1>4 DEF Typed
<1>6. Own' /\ Noted'
  BY <1>1, <1>2 DEF Own, Noted
<1>7. Order'
  BY <1>1, <1>2, <1>3 DEF Order, Live
<1>8. \A e \in Ids : Waits(e)' = Waits(e) /\ Held(e)' = Held(e) /\ Going(e)' = Going(e) /\ Lists(e)' = Lists(e)
  BY <1>1, <1>2, SameGoing, NotPut DEF Waits, Held
<1>9. EventsOnce'
  BY <1>1, <1>2, <1>8, Moved, Places DEF AsOne
<1> QED
  BY <1>5, <1>6, <1>7, <1>9 DEF RelayInv

(***************************************************************************)
(* dispatcher(m)                                                           *)
(***************************************************************************)
LEMMA TakeStep ==
  ASSUME RelayInv, NEW m \in Merchants, Take(m)
  PROVE  RelayInv'
<1>1. Typed /\ Own /\ Noted /\ Order /\ EventsOnce
  BY DEF RelayInv
<1>2. /\ UNCHANGED <<arrived, main, stop, task, inFlight, out>>
      /\ disp[m] = "recv" /\ ~stop
      /\ queue[m] \in Seq(Ids) /\ queue[m] /= <<>>
      /\ held' = [held EXCEPT ![m] = Head(queue[m])]
      /\ queue' = [queue EXCEPT ![m] = Tail(queue[m])]
      /\ disp' = [disp EXCEPT ![m] = "permit"]
  BY <1>1 DEF Take, intakeVars, taskVars, Typed
<1>3. PICK first \in Ids : first = Head(queue[m])
  BY <1>2, Taken
<1>4. /\ Tail(queue[m]) \in Seq(Ids)
      /\ ToSet(queue[m]) = ToSet(Tail(queue[m])) \cup {first}
      /\ Single(queue[m]) => Single(Tail(queue[m])) /\ first \notin ToSet(Tail(queue[m]))
  BY <1>2, <1>3, Taken
<1>5. first \in ToSet(queue[m]) /\ Load[first] = m
  BY <1>1, <1>4 DEF Own
<1>6. /\ queue'[m] = Tail(queue[m]) /\ held'[m] = first /\ disp'[m] = "permit"
      /\ \A n \in Merchants \ {m} : queue'[n] = queue[n] /\ held'[n] = held[n] /\ disp'[n] = disp[n]
  BY <1>1, <1>2, <1>3 DEF Typed
<1>7. Typed'
  BY <1>1, <1>2, <1>3, <1>4 DEF Typed
<1>8. first /= NoEvent /\ held[m] = NoEvent
  BY <1>1, <1>2, RelayAssumption DEF Own
<1>9. Own'
  BY <1>1, <1>2, <1>4, <1>5, <1>6, <1>8 DEF Own
<1>10. Noted' /\ Order'
  BY <1>1, <1>2, <1>6, LoadOf, SameGoing DEF Noted, Order
<1>11. ASSUME NEW e \in Ids
       PROVE  /\ AsOne(Waits(e))' + AsOne(Held(e))' + AsOne(Going(e))' + Lists(e)'
                   = AsOne(Waits(e)) + AsOne(Held(e)) + AsOne(Going(e)) + Lists(e)
              /\ Single(queue'[Load[e]])
  <2>1. Going(e)' = Going(e) /\ Lists(e)' = Lists(e) /\ Lists(e) \in Nat /\ Load[e] \in Merchants /\ Single(queue[Load[e]])
    BY <1>1, <1>2, SameGoing, NotPut, Places, LoadOf
  <2>2. CASE e = first
    <3>1. Waits(e) /\ ~Held(e) /\ ~Waits(e)' /\ Held(e)'
      BY <1>4, <1>5, <1>6, <1>8, <2>1, <2>2 DEF Waits, Held
    <3> QED
      BY <1>4, <1>5, <1>6, <2>1, <2>2, <3>1 DEF AsOne
  <2>3. CASE e /= first
    <3>1. Waits(e)' = Waits(e) /\ Held(e)' = Held(e)
      BY <1>4, <1>5, <1>6, <1>8, <2>1, <2>3, RelayAssumption DEF Waits, Held
    <3>2. Single(queue'[Load[e]])
      BY <1>4, <1>6, <2>1
    <3> QED
      BY <2>1, <3>1, <3>2 DEF AsOne
  <2> QED
    BY <2>2, <2>3
<1>12. EventsOnce'
  BY <1>1, <1>2, <1>11, Moved
<1> QED
  BY <1>7, <1>9, <1>10, <1>12 DEF RelayInv

LEMMA DeliverStep ==
  ASSUME RelayInv, NEW m \in Merchants, Deliver(m)
  PROVE  RelayInv'
<1>1. Typed /\ Own /\ Noted /\ Order /\ EventsOnce
  BY DEF RelayInv
<1>2. /\ UNCHANGED <<arrived, main, stop, queue, inFlight, out>>
      /\ disp[m] = "permit" /\ ~stop
      /\ task' = [task EXCEPT ![held[m]] = "spawned"]
      /\ held' = [held EXCEPT ![m] = NoEvent]
      /\ disp' = [disp EXCEPT ![m] = "recv"]
  BY DEF Deliver, intakeVars, taskVars
<1>3. PICK ev \in Ids : ev = held[m] /\ Load[ev] = m
  BY <1>1, <1>2 DEF Own, Typed
<1>4. Held(ev) /\ ~Going(ev) /\ ~Waits(ev) /\ Lists(ev) = 0
  BY <1>1, <1>3, Places DEF Held
<1>5. /\ held'[m] = NoEvent /\ disp'[m] = "recv" /\ task'[ev] = "spawned"
      /\ \A n \in Merchants \ {m} : held'[n] = held[n] /\ disp'[n] = disp[n]
      /\ \A e \in Ids \ {ev} : task'[e] = task[e]
  BY <1>1, <1>2, <1>3 DEF Typed
<1>6. Typed'
  BY <1>1, <1>2, <1>3 DEF Typed, States
<1>7. Own'
  BY <1>1, <1>2, <1>5 DEF Own
<1>8. Noted'
  BY <1>1, <1>2, <1>3, <1>4, <1>5, LoadOf DEF Noted, Going
<1>9. \A n \in Merchants : Live(n)' = IF n = m THEN Live(n) \cup {ev} ELSE Live(n)
  BY <1>3, <1>5 DEF Live
<1>10. Order'
  BY <1>1, <1>2, <1>5, <1>9 DEF Order
<1>11. ASSUME NEW e \in Ids
       PROVE  /\ AsOne(Waits(e))' + AsOne(Held(e))' + AsOne(Going(e))' + Lists(e)'
                   = AsOne(Waits(e)) + AsOne(Held(e)) + AsOne(Going(e)) + Lists(e)
              /\ Single(queue'[Load[e]])
  <2>1. Waits(e)' = Waits(e) /\ Lists(e)' = Lists(e) /\ Lists(e) \in Nat /\ Load[e] \in Merchants /\ Single(queue'[Load[e]])
    BY <1>1, <1>2, NotPut, Places, LoadOf DEF Waits
  <2>2. CASE e = ev
    <3>1. ~Held(e)' /\ Going(e)'
      BY <1>3, <1>5, <1>9, <2>1, <2>2, RelayAssumption DEF Held, Going
    <3> QED
      BY <1>4, <2>1, <2>2, <3>1 DEF AsOne
  <2>3. CASE e /= ev
    <3>1. Held(e)' = Held(e) /\ Going(e)' = Going(e)
      BY <1>2, <1>3, <1>5, <1>9, <2>1, <2>3, RelayAssumption DEF Held, Going
    <3> QED
      BY <2>1, <3>1 DEF AsOne
  <2> QED
    BY <2>2, <2>3
<1>12. EventsOnce'
  BY <1>1, <1>2, <1>11, Moved
<1> QED
  BY <1>6, <1>7, <1>8, <1>10, <1>12 DEF RelayInv

LEMMA StopStep ==
  ASSUME RelayInv, NEW m \in Merchants, Stop(m)
  PROVE  RelayInv'
<1>1. Typed /\ Own /\ Noted /\ Order /\ EventsOnce
  BY DEF RelayInv
<1>2. /\ UNCHANGED <<arrived, main, stop, task, inFlight>>
      /\ disp[m] \in {"recv", "permit"} /\ stop
      /\ queue' = [queue EXCEPT ![m] = <<>>]
      /\ held' = [held EXCEPT ![m] = NoEvent]
      /\ disp' = [disp EXCEPT ![m] = "joining"]
  BY DEF Stop, intakeVars, taskVars
<1>3. PICK S \in SUBSET Ids : S = ToSet(queue[m]) \cup ({held[m]} \ {NoEvent})
  BY <1>1, QueueSets DEF Typed
<1>4. PutAll("requeued", S) /\ "requeued" \in Kinds
  BY <1>3 DEF Stop, Kinds
<1>5. /\ queue'[m] = <<>> /\ held'[m] = NoEvent /\ disp'[m] = "joining"
      /\ \A n \in Merchants \ {m} : queue'[n] = queue[n] /\ held'[n] = held[n] /\ disp'[n] = disp[n]
  BY <1>1, <1>2 DEF Typed
<1>6. out' \in [Kinds \X Ids -> Nat] /\ \A e \in Ids : Lists(e) \in Nat /\ Lists(e)' = Lists(e) + AsOne(e \in S)
  BY <1>1, <1>4, Put
<1>7. Typed'
  <2>1. <<>> \in Seq(Ids)
    OBVIOUS
  <2> QED
    BY <1>1, <1>2, <1>6, <2>1 DEF Typed
<1>8. Own'
  BY <1>1, <1>2, <1>5, Emptied DEF Own
<1>9. Noted' /\ Order'
  BY <1>1, <1>2, <1>5, LoadOf, SameGoing DEF Noted, Order
<1>10. ASSUME NEW e \in Ids
       PROVE  /\ AsOne(Waits(e))' + AsOne(Held(e))' + AsOne(Going(e))' + Lists(e)'
                   = AsOne(Waits(e)) + AsOne(Held(e)) + AsOne(Going(e)) + Lists(e)
              /\ Single(queue'[Load[e]])
  <2>1. Going(e)' = Going(e) /\ Load[e] \in Merchants /\ Single(queue[Load[e]])
    BY <1>1, <1>2, SameGoing, Places, LoadOf
  <2>2. CASE e \in S
    <3>1. Load[e] = m /\ (Waits(e) \/ Held(e))
      BY <1>1, <1>3, <2>2 DEF Own, Waits, Held
    <3>2. ~(Waits(e) /\ Held(e)) /\ ~Waits(e)' /\ ~Held(e)'
      BY <1>1, <1>5, <3>1, Places, Emptied, RelayAssumption DEF Waits, Held
    <3> QED
      BY <1>5, <1>6, <2>1, <2>2, <3>1, <3>2, Emptied DEF AsOne
  <2>3. CASE e \notin S
    <3>1. Waits(e)' = Waits(e) /\ Held(e)' = Held(e)
      BY <1>3, <1>5, <2>1, <2>3, Emptied, RelayAssumption DEF Waits, Held
    <3> QED
      BY <1>5, <1>6, <2>1, <2>3, <3>1, Emptied DEF AsOne
  <2> QED
    BY <2>2, <2>3
<1>11. EventsOnce'
  BY <1>1, <1>2, <1>10, Moved
<1> QED
  BY <1>7, <1>8, <1>9, <1>11 DEF RelayInv

LEMMA JoinedStep ==
  ASSUME RelayInv, NEW m \in Merchants, Joined(m)
  PROVE  RelayInv'
<1>1. Typed /\ Own /\ Noted /\ Order /\ EventsOnce
  BY DEF RelayInv
<1>2. /\ UNCHANGED <<arrived, main, stop, queue, held, task, inFlight, out>>
      /\ disp[m] = "joining" /\ Live(m) = {}
      /\ disp' = [disp EXCEPT ![m] = "done"]
  BY DEF Joined, intakeVars, taskVars
<1>3. disp'[m] = "done" /\ \A n \in Merchants \ {m} : disp'[n] = disp[n]
  BY <1>1, <1>2 DEF Typed
<1>4. Typed'
  BY <1>1, <1>2 DEF Typed
<1>5. Own'
  BY <1>1, <1>2, <1>3 DEF Own
<1>6. inFlight[m] = {}
  <2>1. ASSUME NEW e \in inFlight[m] PROVE FALSE
    <3>1. e \in Ids /\ Load[e] = m
      BY <1>1 DEF Typed, Own
    <3>2. task[e] \in {"attempt", "backoff"}
      BY <1>1, <1>2, <3>1 DEF Noted
    <3> QED
      BY <1>2, <3>1, <3>2 DEF Live
  <2> QED
    BY <2>1
<1>7. Noted'
  BY <1>1, <1>2, <1>3, <1>6, LoadOf DEF Noted
<1>8. Order'
  BY <1>1, <1>2, <1>3, <1>6, SameGoing DEF Order
<1>9. \A e \in Ids : Waits(e)' = Waits(e) /\ Held(e)' = Held(e) /\ Going(e)' = Going(e) /\ Lists(e)' = Lists(e)
  BY <1>1, <1>2, SameGoing, NotPut DEF Waits, Held
<1>10. EventsOnce'
  BY <1>1, <1>2, <1>9, Moved, Places DEF AsOne
<1> QED
  BY <1>4, <1>5, <1>7, <1>8, <1>10 DEF RelayInv

LEMMA DeadlineStep ==
  ASSUME RelayInv, NEW m \in Merchants, Deadline(m)
  PROVE  RelayInv'
<1>1. Typed /\ Own /\ Noted /\ Order /\ EventsOnce
  BY DEF RelayInv
<1>2. /\ UNCHANGED <<arrived, main, stop, queue, held, inFlight, out>>
      /\ disp[m] = "joining"
      /\ \A e \in Live(m) : task[e] /= "spawned"
      /\ task' = [e \in Ids |-> IF e \in Live(m) THEN "aborted" ELSE task[e]]
      /\ disp' = [disp EXCEPT ![m] = "aborted"]
  BY DEF Deadline, intakeVars
<1>3. disp'[m] = "aborted" /\ \A n \in Merchants \ {m} : disp'[n] = disp[n]
  BY <1>1, <1>2 DEF Typed
<1>4. task' \in [Ids -> States]
  BY <1>1, <1>2 DEF Typed, States
<1>5. Typed'
  BY <1>1, <1>2, <1>4 DEF Typed
<1>6. Own'
  BY <1>1, <1>2, <1>3 DEF Own
<1>7. \A e \in Ids : task'[e] = IF e \in Live(m) THEN "aborted" ELSE task[e]
  BY <1>2
<1>8. Live(m)' = {} /\ \A n \in Merchants \ {m} : Live(n)' = Live(n)
  BY <1>7 DEF Live
<1>9. Noted'
  BY <1>1, <1>2, <1>3, <1>7, LoadOf DEF Noted, Live
<1>10. Order'
  BY <1>1, <1>2, <1>3, <1>8 DEF Order
<1>11. ASSUME NEW e \in Ids
       PROVE  /\ AsOne(Waits(e))' + AsOne(Held(e))' + AsOne(Going(e))' + Lists(e)'
                   = AsOne(Waits(e)) + AsOne(Held(e)) + AsOne(Going(e)) + Lists(e)
              /\ Single(queue'[Load[e]])
  <2>1. Waits(e)' = Waits(e) /\ Held(e)' = Held(e) /\ Lists(e)' = Lists(e) /\ Single(queue'[Load[e]])
    BY <1>1, <1>2, NotPut, Places DEF Waits, Held
  <2>2. e \in Live(m) => e \in inFlight[Load[e]]
    BY <1>1, <1>2 DEF Noted, Live
  <2>3. Going(e)' = Going(e)
    BY <1>2, <1>8, <2>2, LoadOf DEF Going, Live
  <2> QED
    BY <2>1, <2>3 DEF AsOne
<1>12. EventsOnce'
  BY <1>1, <1>2, <1>11, Moved
<1> QED
  BY <1>5, <1>6, <1>9, <1>10, <1>12 DEF RelayInv

LEMMA RequeueStep ==
  ASSUME RelayInv, NEW m \in Merchants, RequeueInFlight(m)
  PROVE  RelayInv'
<1>1. Typed /\ Own /\ Noted /\ Order /\ EventsOnce
  BY DEF RelayInv
<1>2. /\ UNCHANGED <<arrived, main, stop, queue, held, task>>
      /\ disp[m] = "aborted"
      /\ inFlight' = [inFlight EXCEPT ![m] = {}]
      /\ disp' = [disp EXCEPT ![m] = "done"]
  BY DEF RequeueInFlight, intakeVars
<1>3. PICK S \in SUBSET Ids : S = inFlight[m]
  BY <1>1 DEF Typed
<1>4. PutAll("requeued", S) /\ "requeued" \in Kinds
  BY <1>3 DEF RequeueInFlight, Kinds
<1>5. /\ inFlight'[m] = {} /\ disp'[m] = "done"
      /\ \A n \in Merchants \ {m} : inFlight'[n] = inFlight[n] /\ disp'[n] = disp[n]
  BY <1>1, <1>2 DEF Typed
<1>6. out' \in [Kinds \X Ids -> Nat] /\ \A e \in Ids : Lists(e) \in Nat /\ Lists(e)' = Lists(e) + AsOne(e \in S)
  BY <1>1, <1>4, Put
<1>7. Typed'
  BY <1>1, <1>2, <1>6 DEF Typed
<1>8. Own'
  BY <1>1, <1>2, <1>5 DEF Own
<1>9. Live(m) = {} /\ \A n \in Merchants : Live(n)' = Live(n)
  BY <1>1, <1>2 DEF Order, Live
<1>10. Noted'
  BY <1>1, <1>2, <1>5, <1>9, LoadOf DEF Noted, Live
<1>11. Order'
  BY <1>1, <1>2, <1>5, <1>9 DEF Order
<1>12. ASSUME NEW e \in Ids
       PROVE  /\ AsOne(Waits(e))' + AsOne(Held(e))' + AsOne(Going(e))' + Lists(e)'
                   = AsOne(Waits(e)) + AsOne(Held(e)) + AsOne(Going(e)) + Lists(e)
              /\ Single(queue'[Load[e]])
  <2>1. Waits(e)' = Waits(e) /\ Held(e)' = Held(e) /\ Single(queue'[Load[e]])
    BY <1>1, <1>2, Places DEF Waits, Held
  <2>2. CASE e \in S
    <3>1. Load[e] = m /\ Going(e) /\ ~Going(e)'
      BY <1>1, <1>3, <1>5, <1>9, <2>2 DEF Own, Going
    <3> QED
      BY <1>6, <2>1, <2>2, <3>1 DEF AsOne
  <2>3. CASE e \notin S
    <3>1. Going(e)' = Going(e)
      BY <1>3, <1>5, <1>9, <2>3, LoadOf DEF Going
    <3> QED
      BY <1>6, <2>1, <2>3, <3>1 DEF AsOne
  <2> QED
    BY <2>2, <2>3
<1>13. EventsOnce'
  BY <1>1, <1>2, <1>12, Moved
<1> QED
  BY <1>7, <1>8, <1>10, <1>11, <1>13 DEF RelayInv

(***************************************************************************)
(* Deliveries.                                                             *)
(***************************************************************************)
\* A live delivery's merchant has not got past joining.
LEMMA LiveEarly ==
  ASSUME RelayInv, NEW ev \in Ids, task[ev] \in {"spawned", "attempt", "backoff"}
  PROVE  Load[ev] \in Merchants /\ disp[Load[ev]] \notin {"aborted", "done"} /\ ev \in Live(Load[ev])
<1>1. Load[ev] \in Merchants /\ ev \in Live(Load[ev])
  BY LoadOf DEF Live
<1> QED
  BY <1>1 DEF RelayInv, Order

LEMMA AttemptStep ==
  ASSUME RelayInv, NEW ev \in Ids, FirstPoll(ev) \/ AttemptFails(ev) \/ TryAgain(ev)
  PROVE  RelayInv'
<1>1. Typed /\ Own /\ Noted /\ Order /\ EventsOnce
  BY DEF RelayInv
<1>2. /\ UNCHANGED <<arrived, main, stop, queue, held, disp, out>>
      /\ task[ev] \in {"spawned", "attempt", "backoff"}
      /\ \/ task' = [task EXCEPT ![ev] = "attempt"]
         \/ task' = [task EXCEPT ![ev] = "backoff"]
      /\ \/ inFlight' = [inFlight EXCEPT ![Load[ev]] = @ \cup {ev}]
         \/ inFlight' = inFlight /\ task[ev] \in {"attempt", "backoff"}
  BY DEF FirstPoll, AttemptFails, TryAgain, intakeVars
<1>3. Load[ev] \in Merchants /\ disp[Load[ev]] \notin {"aborted", "done"} /\ ev \in Live(Load[ev])
  BY <1>2, LiveEarly
<1>4. /\ task'[ev] \in {"attempt", "backoff"}
      /\ \A e \in Ids \ {ev} : task'[e] = task[e]
      /\ task' \in [Ids -> States]
  BY <1>1, <1>2 DEF Typed, States
<1>5. ev \in inFlight[Load[ev]] \/ task[ev] = "spawned"
  BY <1>1, <1>2 DEF Noted
<1>6. /\ inFlight'[Load[ev]] = inFlight[Load[ev]] \cup {ev}
      /\ \A n \in Merchants \ {Load[ev]} : inFlight'[n] = inFlight[n]
      /\ inFlight' \in [Merchants -> SUBSET Ids]
  <2>1. CASE inFlight' = [inFlight EXCEPT ![Load[ev]] = @ \cup {ev}]
    BY <1>1, <1>3, <2>1 DEF Typed
  <2>2. CASE inFlight' = inFlight /\ task[ev] \in {"attempt", "backoff"}
    BY <1>1, <1>5, <2>2 DEF Typed
  <2> QED
    BY <1>2, <2>1, <2>2
<1>7. Typed'
  BY <1>1, <1>2, <1>4, <1>6 DEF Typed
<1>8. Own'
  BY <1>1, <1>2, <1>6 DEF Own
<1>9. Noted'
  BY <1>1, <1>2, <1>3, <1>4, <1>6, LoadOf DEF Noted
<1>10. \A n \in Merchants : Live(n)' = Live(n)
  BY <1>2, <1>4 DEF Live
<1>11. Order'
  BY <1>1, <1>2, <1>3, <1>6, <1>10 DEF Order
<1>12. \A e \in Ids : Going(e)' = Going(e)
  BY <1>3, <1>6, <1>10, LoadOf DEF Going
<1>13. \A e \in Ids : Waits(e)' = Waits(e) /\ Held(e)' = Held(e) /\ Lists(e)' = Lists(e)
  BY <1>1, <1>2, NotPut DEF Waits, Held
<1>14. EventsOnce'
  BY <1>1, <1>2, <1>12, <1>13, Moved, Places DEF AsOne
<1> QED
  BY <1>7, <1>8, <1>9, <1>11, <1>14 DEF RelayInv

LEMMA EndStep ==
  ASSUME RelayInv, NEW ev \in Ids, Answered(ev) \/ GiveUp(ev)
  PROVE  RelayInv'
<1>1. Typed /\ Own /\ Noted /\ Order /\ EventsOnce
  BY DEF RelayInv
<1>2. /\ UNCHANGED <<arrived, main, stop, queue, held, disp>>
      /\ task[ev] \in {"attempt", "backoff"}
      /\ task' = [task EXCEPT ![ev] = "ended"]
      /\ inFlight' = [inFlight EXCEPT ![Load[ev]] = @ \ {ev}]
      /\ PutAll("delivered", {ev}) \/ PutAll("dead_letter", {ev})
  BY DEF Answered, GiveUp, Ends, intakeVars
<1>3. Load[ev] \in Merchants /\ disp[Load[ev]] \notin {"aborted", "done"} /\ ev \in Live(Load[ev])
  BY <1>2, LiveEarly
<1>4. /\ task'[ev] = "ended"
      /\ \A e \in Ids \ {ev} : task'[e] = task[e]
      /\ task' \in [Ids -> States]
  BY <1>1, <1>2 DEF Typed, States
<1>5. /\ inFlight'[Load[ev]] = inFlight[Load[ev]] \ {ev}
      /\ \A n \in Merchants \ {Load[ev]} : inFlight'[n] = inFlight[n]
      /\ inFlight' \in [Merchants -> SUBSET Ids]
  BY <1>1, <1>2, <1>3 DEF Typed
<1>6. out' \in [Kinds \X Ids -> Nat] /\ \A e \in Ids : Lists(e) \in Nat /\ Lists(e)' = Lists(e) + AsOne(e \in {ev})
  <2>1. "delivered" \in Kinds /\ "dead_letter" \in Kinds /\ {ev} \in SUBSET Ids
    BY DEF Kinds
  <2> QED
    BY <1>1, <1>2, <2>1, Put
<1>7. Typed'
  BY <1>1, <1>2, <1>4, <1>5, <1>6 DEF Typed
<1>8. Own'
  BY <1>1, <1>2, <1>5 DEF Own
<1>9. Noted'
  BY <1>1, <1>2, <1>3, <1>4, <1>5, LoadOf DEF Noted
<1>10. Live(Load[ev])' = Live(Load[ev]) \ {ev} /\ \A n \in Merchants \ {Load[ev]} : Live(n)' = Live(n)
  BY <1>2, <1>4 DEF Live
<1>11. Order'
  BY <1>1, <1>2, <1>3, <1>5, <1>10 DEF Order
<1>12. ASSUME NEW e \in Ids
       PROVE  /\ AsOne(Waits(e))' + AsOne(Held(e))' + AsOne(Going(e))' + Lists(e)'
                   = AsOne(Waits(e)) + AsOne(Held(e)) + AsOne(Going(e)) + Lists(e)
              /\ Single(queue'[Load[e]])
  <2>1. Waits(e)' = Waits(e) /\ Held(e)' = Held(e) /\ Single(queue'[Load[e]])
    BY <1>1, <1>2, Places DEF Waits, Held
  <2>2. CASE e = ev
    <3>1. Going(e) /\ ~Going(e)'
      BY <1>3, <1>5, <1>10, <2>2 DEF Going
    <3> QED
      BY <1>6, <2>1, <2>2, <3>1 DEF AsOne
  <2>3. CASE e /= ev
    <3>1. Going(e)' = Going(e)
      BY <1>3, <1>5, <1>10, <2>3, LoadOf DEF Going
    <3> QED
      BY <1>6, <2>1, <2>3, <3>1 DEF AsOne
  <2> QED
    BY <2>2, <2>3
<1>13. EventsOnce'
  BY <1>1, <1>2, <1>12, Moved
<1> QED
  BY <1>7, <1>8, <1>9, <1>11, <1>13 DEF RelayInv

-----------------------------------------------------------------------------
(***************************************************************************)
(* The theorems.                                                           *)
(***************************************************************************)
LEMMA StutterInv == RelayInv /\ UNCHANGED relayVars => RelayInv'
<1> SUFFICES ASSUME RelayInv, UNCHANGED relayVars PROVE RelayInv'
  OBVIOUS
<1>1. UNCHANGED <<arrived, main, stop, queue, disp, held, task, inFlight, out>>
  BY DEF relayVars, intakeVars, taskVars
<1>2. Typed' /\ Own' /\ Noted' /\ Order'
  BY <1>1 DEF RelayInv, Typed, Own, Noted, Order, Live
<1>3. EventsOnce'
  BY <1>1 DEF RelayInv, EventsOnce, Waits, Held, Going, Live, Lists, AsOne
<1> QED
  BY <1>2, <1>3 DEF RelayInv

\* The inductive invariant of the relay: who has an event in hand, what was noted
\* as in flight, and what each stage of the shutdown has behind it.
THEOREM RelayInvariant == RelaySpec => []RelayInv
<1>1. RelayInit => RelayInv
  BY InitInv
<1>2. RelayInv /\ [RelayNext]_relayVars => RelayInv'
  <2> SUFFICES ASSUME RelayInv, [RelayNext]_relayVars PROVE RelayInv'
    OBVIOUS
  <2>1. CASE Offer
    BY <2>1, OfferStep
  <2>2. CASE Deploy \/ Report
    BY <2>2, DeployStep
  <2>3. ASSUME NEW m \in Merchants, Dispatcher(m) PROVE RelayInv'
    BY <2>3, TakeStep, DeliverStep, StopStep, JoinedStep, DeadlineStep, RequeueStep DEF Dispatcher
  <2>4. ASSUME NEW e \in Ids, Delivery(e) PROVE RelayInv'
    BY <2>4, AttemptStep, EndStep DEF Delivery
  <2>5. CASE UNCHANGED relayVars
    BY <2>5, StutterInv
  <2> QED
    BY <2>1, <2>2, <2>3, <2>4, <2>5 DEF RelayNext, Simulate
<1> QED
  BY <1>1, <1>2, PTL DEF RelaySpec

\* No event is lost or doubled on its way through queue, permit wait, delivery,
\* retries, drain and abort.
THEOREM NoneLostNoneTwice == RelaySpec => []EventsOnce
<1>1. RelayInv => EventsOnce
  BY DEF RelayInv
<1> QED
  BY <1>1, RelayInvariant, PTL

\* The report's four lists together hold every accepted event once.
THEOREM ReportAccounts == RelaySpec => [](main = "reported" => AllAccountedFor)
<1>1. RelayInv => (main = "reported" => AllAccountedFor)
  <2> SUFFICES ASSUME RelayInv, main = "reported", NEW e \in Ids PROVE Lists(e) = 1
    BY DEF AllAccountedFor
  <2>1. Typed /\ Own /\ Order /\ EventsOnce /\ Load[e] \in Merchants
    BY LoadOf DEF RelayInv
  <2>2. arrived = Len(Load) /\ disp[Load[e]] = "done"
    BY <2>1 DEF Order
  <2>3. ~Waits(e)
    BY <2>1, <2>2, Emptied DEF Order, Waits
  <2>4. ~Held(e)
    BY <2>1, <2>2, RelayAssumption DEF Own, Held
  <2>5. ~Going(e)
    BY <2>1, <2>2 DEF Order, Going
  <2>6. e <= arrived
    BY <2>2, LoadOf DEF Ids
  <2> QED
    BY <2>1, <2>3, <2>4, <2>5, <2>6, Places
<1> QED
  BY <1>1, RelayInvariant, PTL

-----------------------------------------------------------------------------
(***************************************************************************)
(* The audit log and the permits: a second invariant, on top of RelayInv.  *)
(***************************************************************************)
LEMMA Finite ==
  ASSUME NEW S \in SUBSET Ids
  PROVE  IsFiniteSet(S) /\ Cardinality(S) \in Nat
<1>1. IsFiniteSet(Ids)
  BY LoadOf, FS_Interval DEF Ids
<1> QED
  BY <1>1, FS_Subset, FS_CardinalityType

LEMMA OtherList ==
  ASSUME NEW k \in Kinds, k /= "delivered", NEW S \in SUBSET Ids, PutAll(k, S)
  PROVE  Delivered' = Delivered
<1>1. ASSUME NEW e \in Ids
      PROVE  out'[<<"delivered", e>>] = out[<<"delivered", e>>]
  <2>1. <<"delivered", e>> \in Kinds \X Ids /\ <<"delivered", e>>[1] = "delivered"
    BY DEF Kinds
  <2> QED
    BY <2>1 DEF PutAll
<1> QED
  BY <1>1 DEF Delivered

LEMMA AuditKept ==
  ASSUME RelayInv, Audited, [RelayNext]_relayVars
  PROVE  Audited'
<1>1. Typed /\ Order /\ EventsOnce
  BY DEF RelayInv
<1>2. Cardinality(Delivered) \in Nat
  BY Finite DEF Delivered
<1>3. CASE UNCHANGED <<out, pending, durable>> /\ (main' = "reported" => main = "reported")
  BY <1>3 DEF Audited, Delivered
<1>4. CASE /\ UNCHANGED <<pending, durable, main>>
           /\ \E k \in Kinds \ {"delivered"}, S \in SUBSET Ids : PutAll(k, S)
  <2>1. Delivered' = Delivered
    BY <1>4, OtherList
  <2> QED
    BY <1>4, <2>1 DEF Audited
<1>5. CASE Report
  <2>1. UNCHANGED out /\ durable' = durable + pending /\ pending' = 0
    BY <1>5 DEF Report
  <2> QED
    BY <2>1 DEF Audited, Delivered
<1>6. ASSUME NEW ev \in Ids, Answered(ev)
      PROVE  Audited'
  <2>1. /\ task[ev] = "attempt" /\ main' = main /\ PutAll("delivered", {ev})
        /\ durable' + pending' = durable + pending + 1
        /\ durable' \in Nat /\ pending' \in Nat
    BY <1>6 DEF Answered, intakeVars, Audited
  <2>2. Load[ev] \in Merchants /\ disp[Load[ev]] /= "done" /\ ev \in Live(Load[ev])
    BY <2>1, LiveEarly
  <2>3. main /= "reported"
    BY <1>1, <2>2 DEF Order
  <2>4. out[<<"delivered", ev>>] = 0
    <3>1. Going(ev)
      BY <2>2 DEF Going
    <3>2. Lists(ev) = 0
      BY <1>1, <3>1, Places
    <3>3. \A k \in Kinds : out[<<k, ev>>] \in Nat
      BY <1>1 DEF Typed
    <3>4. \A k \in {"delivered", "dead_letter", "spilled", "requeued"} : out[<<k, ev>>] \in Nat
      BY <3>3 DEF Kinds
    <3>5. \A a, b, c, d \in Nat : a + b + c + d = 0 => a = 0
      OBVIOUS
    <3>6. out[<<"delivered", ev>>] + out[<<"dead_letter", ev>>] + out[<<"spilled", ev>>] + out[<<"requeued", ev>>] = 0
      BY <3>2 DEF Lists
    <3> QED
      BY <3>4, <3>5, <3>6
  <2>5. ASSUME NEW e \in Ids
        PROVE  out'[<<"delivered", e>>] = IF e = ev THEN 1 ELSE out[<<"delivered", e>>]
    <3>1. <<"delivered", e>> \in Kinds \X Ids /\ <<"delivered", e>>[1] = "delivered" /\ <<"delivered", e>>[2] = e
      BY DEF Kinds
    <3> QED
      BY <2>1, <2>4, <3>1 DEF PutAll
  <2>6. Delivered' = Delivered \cup {ev} /\ ev \notin Delivered
    BY <2>4, <2>5 DEF Delivered
  <2>7. Cardinality(Delivered') = Cardinality(Delivered) + 1
    <3>1. IsFiniteSet(Delivered)
      BY Finite DEF Delivered
    <3> QED
      BY <2>6, <3>1, FS_AddElement
  <2> QED
    BY <1>2, <2>1, <2>3, <2>7 DEF Audited
<1>7. CASE Offer
  <2>1. {arrived + 1} \in SUBSET Ids /\ "spilled" \in Kinds \ {"delivered"}
    BY <1>7 DEF Offer, Kinds
  <2>2. UNCHANGED <<pending, durable, main>> /\ (UNCHANGED out \/ PutAll("spilled", {arrived + 1}))
    BY <1>7 DEF Offer, auditVars
  <2> QED
    BY <1>3, <1>4, <2>1, <2>2
<1>8. CASE Deploy
  BY <1>3, <1>8 DEF Deploy, auditVars
<1>9. ASSUME NEW m \in Merchants, Stop(m) \/ RequeueInFlight(m)
      PROVE  Audited'
  <2>1. ToSet(queue[m]) \cup ({held[m]} \ {NoEvent}) \in SUBSET Ids /\ inFlight[m] \in SUBSET Ids
    BY <1>1, QueueSets DEF Typed
  <2>2. "requeued" \in Kinds \ {"delivered"}
    BY DEF Kinds
  <2>3. UNCHANGED <<pending, durable, main>>
    BY <1>9 DEF Stop, RequeueInFlight, intakeVars, auditVars
  <2>4. \E S \in SUBSET Ids : PutAll("requeued", S)
    BY <1>9, <2>1 DEF Stop, RequeueInFlight
  <2> QED
    BY <1>4, <2>2, <2>3, <2>4
<1>10. ASSUME NEW m \in Merchants, Take(m) \/ Deliver(m) \/ Joined(m) \/ Deadline(m)
       PROVE  Audited'
  BY <1>3, <1>10 DEF Take, Deliver, Joined, Deadline, intakeVars, auditVars
<1>11. ASSUME NEW e \in Ids, FirstPoll(e) \/ AttemptFails(e) \/ TryAgain(e)
       PROVE  Audited'
  BY <1>3, <1>11 DEF FirstPoll, AttemptFails, TryAgain, intakeVars, auditVars
<1>12. ASSUME NEW e \in Ids, GiveUp(e)
       PROVE  Audited'
  <2>1. "dead_letter" \in Kinds \ {"delivered"} /\ {e} \in SUBSET Ids
    BY DEF Kinds
  <2>2. UNCHANGED <<pending, durable, main>> /\ PutAll("dead_letter", {e})
    BY <1>12 DEF GiveUp, intakeVars, auditVars
  <2> QED
    BY <1>4, <2>1, <2>2
<1>13. CASE UNCHANGED relayVars
  BY <1>3, <1>13 DEF relayVars, intakeVars, auditVars
<1> QED
  BY <1>5, <1>6, <1>7, <1>8, <1>9, <1>10, <1>11, <1>12, <1>13 DEF RelayNext, Simulate, Dispatcher, Delivery

LEMMA FewerLive ==
  ASSUME NEW m \in Merchants, Cardinality(Live(m)) <= Permits, Live(m)' \subseteq Live(m)
  PROVE  Cardinality(Live(m)') <= Permits
<1>1. Live(m) \in SUBSET Ids /\ Live(m)' \in SUBSET Ids
  BY DEF Live
<1>2. Cardinality(Live(m)') <= Cardinality(Live(m))
  BY <1>1, Finite, FS_Subset
<1> QED
  BY <1>1, <1>2, Finite, RelayAssumption

LEMMA LimitsKept ==
  ASSUME RelayInv, Limited, [RelayNext]_relayVars
  PROVE  Limited'
<1>1. Typed /\ Own /\ Permits \in Nat
  BY RelayAssumption DEF RelayInv
<1>2. CASE UNCHANGED peak /\ \A m \in Merchants : Live(m)' \subseteq Live(m)
  BY <1>2, FewerLive DEF Limited
<1>3. ASSUME NEW m \in Merchants, Deliver(m)
      PROVE  Limited'
  <2>1. /\ disp[m] = "permit" /\ Cardinality(Live(m)) < Permits
        /\ task' = [task EXCEPT ![held[m]] = "spawned"] /\ UNCHANGED peak
    BY <1>3 DEF Deliver
  <2>2. PICK ev \in Ids : ev = held[m] /\ Load[ev] = m
    BY <1>1, <2>1 DEF Own, Typed
  <2>3. \A n \in Merchants : Live(n)' \subseteq (IF n = m THEN Live(n) \cup {ev} ELSE Live(n))
    BY <1>1, <2>1, <2>2 DEF Live, Typed
  <2>4. Cardinality(Live(m)') <= Permits
    <3>1. Live(m) \in SUBSET Ids /\ Live(m) \cup {ev} \in SUBSET Ids /\ Live(m)' \in SUBSET Ids
      BY DEF Live
    <3>2. Cardinality(Live(m) \cup {ev}) <= Cardinality(Live(m)) + 1
      BY <3>1, Finite, FS_AddElement
    <3>3. Cardinality(Live(m)') <= Cardinality(Live(m) \cup {ev})
      BY <2>3, <3>1, Finite, FS_Subset
    <3> QED
      BY <1>1, <2>1, <3>1, <3>2, <3>3, Finite
  <2>5. ASSUME NEW n \in Merchants PROVE Cardinality(Live(n)') <= Permits
    <3>1. CASE n = m
      BY <2>4, <3>1
    <3>2. CASE n /= m
      BY <2>3, <3>2, FewerLive DEF Limited
    <3> QED
      BY <3>1, <3>2
  <2> QED
    BY <2>1, <2>5 DEF Limited
<1>4. ASSUME NEW e \in Ids, FirstPoll(e)
      PROVE  Limited'
  <2>1. /\ task[e] = "spawned" /\ task' = [task EXCEPT ![e] = "attempt"]
        /\ \E given \in {0, 1} :
             LET n == Cardinality(Live(Load[e])) + given IN
             /\ given = 1 => disp[Load[e]] = "permit" /\ n <= Permits
             /\ peak' = [peak EXCEPT ![Load[e]] = IF n > @ THEN n ELSE @]
    BY <1>4 DEF FirstPoll
  <2>2. \A m \in Merchants : Live(m)' \subseteq Live(m)
    BY <1>1, <2>1 DEF Live, Typed
  <2>3. PICK n \in Nat : n <= Permits /\ peak' = [peak EXCEPT ![Load[e]] = IF n > peak[Load[e]] THEN n ELSE peak[Load[e]]]
    <3>1. Cardinality(Live(Load[e])) \in Nat /\ Cardinality(Live(Load[e])) <= Permits
      BY LoadOf, Finite DEF Limited, Live
    <3>2. PICK given \in {0, 1} :
            /\ given = 1 => Cardinality(Live(Load[e])) + given <= Permits
            /\ peak' = [peak EXCEPT ![Load[e]] = IF Cardinality(Live(Load[e])) + given > peak[Load[e]]
                                                   THEN Cardinality(Live(Load[e])) + given ELSE peak[Load[e]]]
      BY <2>1
    <3>3. Cardinality(Live(Load[e])) + given \in Nat /\ Cardinality(Live(Load[e])) + given <= Permits
      BY <3>1, <3>2
    <3> QED
      BY <3>2, <3>3
  <2>4. peak' \in [Merchants -> Nat] /\ \A m \in Merchants : peak'[m] <= Permits
    BY <2>3, LoadOf DEF Limited
  <2>5. \A m \in Merchants : Cardinality(Live(m)') <= Permits
    BY <2>2, FewerLive DEF Limited
  <2> QED
    BY <2>4, <2>5 DEF Limited
<1>5. CASE UNCHANGED <<task, peak>>
  BY <1>2, <1>5 DEF Live
<1>6. ASSUME NEW m \in Merchants, Deadline(m)
      PROVE  Limited'
  BY <1>1, <1>2, <1>6 DEF Deadline, Live, Typed
<1>7. ASSUME NEW e \in Ids, Answered(e) \/ GiveUp(e) \/ AttemptFails(e) \/ TryAgain(e)
      PROVE  Limited'
  <2>1. /\ UNCHANGED peak /\ task[e] \in {"attempt", "backoff"}
        /\ \E s \in States : task' = [task EXCEPT ![e] = s]
    BY <1>7 DEF Answered, GiveUp, AttemptFails, TryAgain, Ends, States
  <2>2. \A m \in Merchants : Live(m)' \subseteq Live(m)
    BY <1>1, <2>1 DEF Live, Typed
  <2> QED
    BY <1>2, <2>1, <2>2
<1> QED
  BY <1>3, <1>4, <1>5, <1>6, <1>7 DEF RelayNext, Simulate, Dispatcher, Delivery, Offer, Deploy, Report, Take, Stop,
     Joined, RequeueInFlight, taskVars, relayVars

\* At the report the audit log on durable storage has a line for every delivery, no
\* event is missing from the lists, and no merchant had more deliveries than permits.
THEOREM ReportIsComplete == RelaySpec => []ReportComplete
<1>1. RelayInit => Audited /\ Limited
  <2> SUFFICES ASSUME RelayInit PROVE Audited /\ Limited
    OBVIOUS
  <2>1. Delivered = {}
    <3>1. \A e \in Ids : out[<<"delivered", e>>] = 0
      BY DEF RelayInit, Kinds
    <3> QED
      BY <3>1 DEF Delivered
  <2>2. \A m \in Merchants : Live(m) = {}
    BY DEF RelayInit, Live
  <2>3. Audited
    BY <2>1, FS_EmptySet DEF RelayInit, Audited
  <2>4. Limited
    <3>1. peak = [m \in Merchants |-> 0] /\ Permits \in Nat /\ Cardinality({}) = 0
      BY FS_EmptySet, RelayAssumption DEF RelayInit
    <3>2. peak \in [Merchants -> Nat] /\ \A m \in Merchants : peak[m] <= Permits
      BY <3>1
    <3>3. \A m \in Merchants : Cardinality(Live(m)) <= Permits
      BY <2>2, <3>1
    <3> QED
      BY <3>2, <3>3 DEF Limited
  <2> QED
    BY <2>3, <2>4
<1>2. RelayInv /\ Audited /\ Limited /\ [RelayNext]_relayVars => Audited' /\ Limited'
  BY AuditKept, LimitsKept
<1>3. Audited /\ Limited /\ (main = "reported" => AllAccountedFor) => ReportComplete
  <2> SUFFICES ASSUME Audited, Limited, main = "reported" PROVE AuditMatches /\ PermitsHeld
    BY DEF ReportComplete
  <2>1. durable = Cardinality(Delivered)
    BY DEF Audited
  <2> QED
    BY <2>1 DEF AuditMatches, PermitsHeld, Limited, Delivered
<1> QED
  BY <1>1, <1>2, <1>3, RelayInvariant, ReportAccounts, PTL DEF RelaySpec

-----------------------------------------------------------------------------
(***************************************************************************)
(* The ring. RingHandsOver is not inductive alone: the values between the  *)
(* counters must be in their slots, and what a side last saw of the other  *)
(* counter bounds how far it is from its own. Counters wrap, so that a     *)
(* slot and the tests for full and for empty are arithmetic modulo Width.  *)
(***************************************************************************)

\* Remainders are what is left of a division.
LEMMA Division ==
  ASSUME NEW a \in Nat, NEW c \in Nat \ {0}
  PROVE  \E q \in Nat : \E r \in 0..(c - 1) : a = c * q + r /\ r = a % c
<1>1. a \div c \in Nat /\ a % c \in 0..(c - 1)
  OBVIOUS
<1>2. a = c * (a \div c) + (a % c)
  OBVIOUS
<1>. QED
  BY <1>1, <1>2

\* Two counters less than c apart are the same modulo c only if they are equal.
LEMMA SameRemainder ==
  ASSUME NEW a \in Nat, NEW b \in Nat, NEW c \in Nat \ {0}, a <= b, b - a < c, a % c = b % c
  PROVE  a = b
<1>1. PICK p \in Nat, r \in 0..(c - 1) : a = c * p + r /\ r = a % c
  BY Division
<1>a. PICK q \in Nat, s \in 0..(c - 1) : b = c * q + s /\ s = b % c
  BY Division
<1>2. b - a = c * q - c * p
  <2>1. r = s
    BY <1>1, <1>a
  <2>. QED
    BY <1>1, <1>a, <2>1
<1>3. c * q - c * p = c * (q - p)
  OBVIOUS
<1>4. ~(q - p >= 1)
  <2>1. q - p >= 1 => c * (q - p) >= c
    OBVIOUS
  <2>. QED
    BY <1>2, <1>3, <2>1
<1>5. q - p <= 0 => c * (q - p) <= 0
  OBVIOUS
<1>. QED
  BY <1>2, <1>3, <1>4, <1>5

\* Since the capacity divides the width, wrapping does not move a slot.
LEMMA SlotIs ==
  ASSUME NEW n \in Nat
  PROVE  Slot(n) = n % Capacity /\ Slot(n) \in 0..(Capacity - 1)
<1>0. Capacity \in Nat \ {0} /\ Width \in Nat \ {0} /\ Width % Capacity = 0
  BY RingAssumption
<1>1. PICK q \in Nat, r \in 0..(Width - 1) : n = Width * q + r /\ r = n % Width
  BY <1>0, Division
<1>2. PICK w \in Nat : Width = Capacity * w
  <2>1. PICK x \in Nat, z \in 0..(Capacity - 1) : Width = Capacity * x + z /\ z = Width % Capacity
    BY <1>0, Division
  <2>2. z = 0 /\ Capacity * x \in Int
    BY <1>0, <2>1
  <2>3. PICK y \in Int : y = Capacity * x
    BY <2>2
  <2>4. Width = y + z
    BY <2>1, <2>3
  <2>5. Width = y
    BY <2>2, <2>4
  <2>. QED
    BY <2>3, <2>5
<1>3. PICK u \in Nat, v \in 0..(Capacity - 1) : r = Capacity * u + v /\ v = r % Capacity
  BY <1>0, Division
<1>4. n = Capacity * (w * q + u) + v
  <2>1. Width * q = Capacity * (w * q)
    BY <1>0, <1>2
  <2>2. Capacity * (w * q + u) = Capacity * (w * q) + Capacity * u
    BY <1>0
  <2>3. n = Capacity * (w * q) + (Capacity * u + v)
    BY <1>1, <1>3, <2>1
  <2>4. Capacity * (w * q) \in Int /\ Capacity * u \in Int /\ v \in Int
    BY <1>0
  <2>. QED
    BY <2>2, <2>3, <2>4
<1>5. n % Capacity = v
  <2>1. PICK m \in Nat : m = w * q + u
    OBVIOUS
  <2>2. (Capacity * m + v) % Capacity = v
    BY <1>0
  <2>. QED
    BY <1>4, <2>1, <2>2
<1>. QED
  BY <1>1, <1>3, <1>5 DEF Slot, Wrap

\* Values that are in the ring at the same time are in different slots.
LEMMA SlotsDiffer ==
  ASSUME NEW a \in Nat, NEW b \in Nat, a < b, b - a < Capacity
  PROVE  Slot(a) # Slot(b)
<1>1. Capacity \in Nat \ {0}
  BY RingAssumption
<1>2. a % Capacity # b % Capacity
  <2>1. a <= b /\ a # b
    OBVIOUS
  <2>. QED
    BY <1>1, <2>1, SameRemainder
<1>. QED
  BY <1>2, SlotIs

\* Wrapped counters tell an empty ring and a full one apart from the others.
LEMMA WrapTells ==
  ASSUME NEW a \in Nat, NEW b \in Nat, a <= b, b - a <= Capacity
  PROVE  /\ Wrap(a) = Wrap(b) <=> a = b
         /\ Wrap(Wrap(b) - Wrap(a)) = Capacity <=> b - a = Capacity
<1>0. Capacity \in Nat \ {0} /\ Width \in Nat \ {0} /\ Capacity < Width
  BY RingAssumption
<1>1. Wrap(a) = Wrap(b) <=> a = b
  <2>1. b - a < Width
    BY <1>0
  <2>2. a % Width = b % Width => a = b
    BY <1>0, <2>1, SameRemainder
  <2>. QED
    BY <2>2 DEF Wrap
<1>2. PICK p \in Nat, r \in 0..(Width - 1) : a = Width * p + r /\ r = a % Width
  BY <1>0, Division
<1>3. PICK q \in Nat, s \in 0..(Width - 1) : b = Width * q + s /\ s = b % Width
  BY <1>0, Division
<1>4. b - a = Width * (q - p) + (s - r)
  BY <1>0, <1>2, <1>3
<1>5. q - p = 0 \/ q - p = 1
  <2>1. q - p >= 2 => Width * (q - p) >= Width + Width
    BY <1>0
  <2>2. q - p <= -1 => Width * (q - p) <= -Width
    BY <1>0
  <2>. QED
    BY <1>0, <1>2, <1>3, <1>4, <2>1, <2>2
<1>6. CASE q - p = 0
  <2>1. s - r = b - a /\ s - r \in 0..(Width - 1)
    BY <1>0, <1>2, <1>3, <1>4, <1>6
  <2>2. (s - r) % Width = s - r
    BY <1>0, <2>1
  <2>. QED
    BY <1>1, <1>2, <1>3, <2>1, <2>2 DEF Wrap
<1>7. CASE q - p = 1
  <2>1. PICK d \in 0..(Width - 1) : d = b - a /\ s - r = d - Width
    BY <1>0, <1>2, <1>3, <1>4, <1>7
  <2>2. (d - Width) % Width = d
    BY <1>0
  <2>. QED
    BY <1>1, <1>2, <1>3, <2>1, <2>2 DEF Wrap
<1>. QED
  BY <1>5, <1>6, <1>7

-----------------------------------------------------------------------------
\* Which values are in the ring and in which slots, what each side knows of the
\* other's counter, and what has come out.
RingTypeOK ==
  /\ buf \in [0 .. Capacity - 1 -> Nat]
  /\ pushes \in Nat /\ pops \in Nat /\ seenHead \in Nat /\ seenTail \in Nat
  /\ producer \in {"idle", "write", "publish", "gone"}
  /\ consumer \in {"idle", "read", "release", "gone"}
  /\ popped \in Seq(Nat) /\ dropped \in Seq(Nat)

\* The counters: no side ever sees too much, and what it sees is what it knows.
Counting ==
  /\ seenHead <= pops /\ pops <= seenTail /\ seenTail <= pushes
  /\ pushes - seenHead <= Capacity
  /\ producer \in {"write", "publish"} => pushes - seenHead < Capacity
  /\ consumer \in {"read", "release"} => pops < seenTail
  /\ knowsPops = seenHead /\ knowsPushes = seenTail

\* The values between the counters are in their slots.
Stored ==
  /\ \A i \in Nat : pops <= i /\ i < pushes => buf[Slot(i)] = i + 1
  /\ producer = "publish" => buf[Slot(pushes)] = pushes + 1

\* The values came out in order, and the last of them are dropped with the ring.
InOrder ==
  /\ Len(popped) = IF consumer = "release" THEN pops + 1 ELSE pops
  /\ \A i \in 1..Len(popped) : popped[i] = i
  /\ dropped # <<>> => Gone
  /\ Len(dropped) <= pushes - pops
  /\ \A i \in 1..Len(dropped) : dropped[i] = pops + i

RingInv == RingTypeOK /\ Counting /\ Stored /\ InOrder

LEMMA RingInvInit == RingInit => RingInv
<1>. SUFFICES ASSUME RingInit PROVE RingInv
  OBVIOUS
<1>0. Capacity \in Nat \ {0}
  BY RingAssumption
<1>1. /\ buf = [i \in 0 .. Capacity - 1 |-> 0] /\ pushes = 0 /\ pops = 0 /\ seenHead = 0 /\ seenTail = 0
      /\ knowsPops = 0 /\ knowsPushes = 0 /\ producer = "idle" /\ consumer = "idle"
      /\ popped = <<>> /\ dropped = <<>>
  BY DEF RingInit
<1>2. RingTypeOK
  <2>1. buf \in [0 .. Capacity - 1 -> Nat]
    BY <1>1
  <2>2. popped \in Seq(Nat) /\ dropped \in Seq(Nat)
    BY <1>1
  <2>. QED
    BY <1>1, <2>1, <2>2 DEF RingTypeOK
<1>3. Counting
  BY <1>0, <1>1 DEF Counting
<1>4. Stored
  BY <1>1 DEF Stored
<1>5. InOrder
  <2>1. Len(popped) = 0 /\ Len(dropped) = 0
    BY <1>1
  <2>. QED
    BY <1>1, <2>1 DEF InOrder
<1>. QED
  BY <1>2, <1>3, <1>4, <1>5 DEF RingInv

\* The producer: a slot it is about to write holds no value, by the head it saw.
LEMMA ProducerKeeps ==
  ASSUME RingInv, BeginPush \/ WriteSlot \/ StoreTail
  PROVE  RingInv'
<1>0. Capacity \in Nat \ {0}
  BY RingAssumption
<1>1. /\ pushes \in Nat /\ pops \in Nat /\ seenHead \in Nat /\ seenTail \in Nat
      /\ seenHead <= pops /\ pops <= seenTail /\ seenTail <= pushes /\ pushes - seenHead <= Capacity
  BY DEF RingInv, RingTypeOK, Counting
<1>. USE DEF RingInv
<1>2. ASSUME BeginPush PROVE RingInv'
  <2>1. PICK v \in seenHead .. pops :
          /\ seenHead' = v /\ knowsPops' = AcquireLoad(knowsPops, v)
          /\ producer' = IF Wrap(Wrap(pushes) - Wrap(v)) = Capacity THEN "idle" ELSE "write"
    BY <1>2 DEF BeginPush
  <2>2. producer = "idle" /\ UNCHANGED <<buf, pushes, pops, seenTail, knowsPushes, consumer, popped, dropped>>
    BY <1>2 DEF BeginPush
  <2>3. v \in Nat /\ v <= pops /\ pushes - v <= Capacity /\ v <= pushes
    BY <1>0, <1>1
  <2>4. Wrap(Wrap(pushes) - Wrap(v)) = Capacity <=> pushes - v = Capacity
    BY <1>1, <2>3, WrapTells
  <2>5. AcquireLoad(knowsPops, v) = v
    BY <1>1 DEF Counting, AcquireLoad, MaxOf
  <2>6. producer' = "write" => pushes - v < Capacity
    BY <1>0, <1>1, <2>1, <2>3, <2>4
  <2>7. producer' \in {"idle", "write"}
    BY <2>1
  <2>8. RingTypeOK'
    BY <2>1, <2>2, <2>3, <2>7 DEF RingTypeOK
  <2>9. Counting'
    BY <2>1, <2>2, <2>3, <2>5, <2>6, <2>7 DEF Counting
  <2>10. Stored'
    BY <2>2, <2>7 DEF Stored
  <2>11. InOrder'
    BY <2>2 DEF InOrder, Gone
  <2>. QED
    BY <2>8, <2>9, <2>10, <2>11
<1>3. ASSUME WriteSlot PROVE RingInv'
  <2>1. /\ producer = "write" /\ producer' = "publish" /\ buf' = [buf EXCEPT ![Slot(pushes)] = pushes + 1]
        /\ UNCHANGED <<pushes, pops, seenHead, seenTail, knowsPops, knowsPushes, consumer, popped, dropped>>
    BY <1>3 DEF WriteSlot
  <2>2. pushes - seenHead < Capacity
    BY <2>1 DEF Counting
  <2>3. Slot(pushes) \in 0 .. Capacity - 1 /\ buf \in [0 .. Capacity - 1 -> Nat]
    BY <1>1, SlotIs DEF RingTypeOK
  <2>4. buf' \in [0 .. Capacity - 1 -> Nat] /\ buf'[Slot(pushes)] = pushes + 1
    BY <1>1, <2>1, <2>3
  <2>5. ASSUME NEW i \in Nat, pops <= i, i < pushes PROVE buf'[Slot(i)] = i + 1
    <3>1. pushes - i < Capacity
      BY <1>0, <1>1, <2>2, <2>5
    <3>2. Slot(i) # Slot(pushes) /\ Slot(i) \in 0 .. Capacity - 1
      BY <1>1, <2>5, <3>1, SlotsDiffer, SlotIs
    <3>3. buf[Slot(i)] = i + 1
      BY <2>5 DEF Stored
    <3>. QED
      BY <2>1, <2>3, <3>2, <3>3
  <2>6. RingTypeOK'
    BY <2>1, <2>4 DEF RingTypeOK
  <2>7. Counting'
    BY <2>1 DEF Counting
  <2>8. Stored'
    BY <2>1, <2>4, <2>5 DEF Stored, Slot, Wrap
  <2>9. InOrder'
    BY <2>1 DEF InOrder, Gone
  <2>. QED
    BY <2>6, <2>7, <2>8, <2>9
<1>4. ASSUME StoreTail PROVE RingInv'
  <2>1. /\ producer = "publish" /\ producer' = "idle" /\ pushes' = pushes + 1
        /\ UNCHANGED <<buf, pops, seenHead, seenTail, knowsPops, knowsPushes, consumer, popped, dropped>>
    BY <1>4 DEF StoreTail
  <2>2. pushes - seenHead < Capacity /\ buf[Slot(pushes)] = pushes + 1
    BY <2>1 DEF Counting, Stored
  <2>3. PICK n \in Nat : n = pushes + 1
    BY <1>1
  <2>4. pushes' = n /\ seenTail <= n /\ n - seenHead <= Capacity
    BY <1>0, <1>1, <2>1, <2>2, <2>3
  <2>5. ASSUME NEW i \in Nat, pops <= i, i < n PROVE buf[Slot(i)] = i + 1
    <3>1. i = pushes \/ i < pushes
      BY <1>1, <2>3, <2>5
    <3>. QED
      BY <2>2, <2>5, <3>1 DEF Stored
  <2>6. RingTypeOK'
    BY <2>1, <2>4 DEF RingTypeOK
  <2>7. Counting'
    BY <2>1, <2>4 DEF Counting
  <2>8. Stored'
    BY <2>1, <2>4, <2>5 DEF Stored, Slot, Wrap
  <2>9. InOrder'
    <3>1. Len(dropped) <= pushes - pops /\ Len(dropped) \in Nat
      BY DEF InOrder, RingTypeOK
    <3>2. Len(dropped) <= n - pops
      BY <1>1, <2>3, <3>1
    <3>3. ~Gone
      BY <2>1 DEF Gone
    <3>. QED
      BY <2>1, <2>4, <3>2, <3>3 DEF InOrder
  <2>. QED
    BY <2>6, <2>7, <2>8, <2>9
<1>. QED
  BY <1>2, <1>3, <1>4

\* The consumer: the slot it reads holds the next value.
LEMMA ConsumerKeeps ==
  ASSUME RingInv, BeginPop \/ ReadSlot \/ StoreHead
  PROVE  RingInv'
<1>0. Capacity \in Nat \ {0}
  BY RingAssumption
<1>1. /\ pushes \in Nat /\ pops \in Nat /\ seenHead \in Nat /\ seenTail \in Nat
      /\ seenHead <= pops /\ pops <= seenTail /\ seenTail <= pushes /\ pushes - seenHead <= Capacity
  BY DEF RingInv, RingTypeOK, Counting
<1>. USE DEF RingInv
<1>2. ASSUME BeginPop PROVE RingInv'
  <2>1. PICK v \in seenTail .. pushes :
          /\ seenTail' = v /\ knowsPushes' = AcquireLoad(knowsPushes, v)
          /\ consumer' = IF Wrap(pops) = Wrap(v) THEN "idle" ELSE "read"
    BY <1>2 DEF BeginPop
  <2>2. consumer = "idle" /\ UNCHANGED <<buf, pushes, pops, seenHead, knowsPops, producer, popped, dropped>>
    BY <1>2 DEF BeginPop
  <2>3. v \in Nat /\ v <= pushes /\ pops <= v /\ v - pops <= Capacity
    BY <1>0, <1>1
  <2>4. Wrap(pops) = Wrap(v) <=> pops = v
    BY <1>1, <2>3, WrapTells
  <2>5. AcquireLoad(knowsPushes, v) = v
    BY <1>1 DEF Counting, AcquireLoad, MaxOf
  <2>6. consumer' = "read" => pops < v
    BY <1>1, <2>1, <2>3, <2>4
  <2>7. consumer' \in {"idle", "read"}
    BY <2>1
  <2>8. RingTypeOK'
    BY <2>1, <2>2, <2>3, <2>7 DEF RingTypeOK
  <2>9. Counting'
    BY <2>1, <2>2, <2>3, <2>5, <2>6, <2>7 DEF Counting
  <2>10. Stored'
    BY <2>2 DEF Stored, Slot, Wrap
  <2>11. InOrder'
    BY <2>2, <2>7 DEF InOrder, Gone
  <2>. QED
    BY <2>8, <2>9, <2>10, <2>11
<1>3. ASSUME ReadSlot PROVE RingInv'
  <2>1. /\ consumer = "read" /\ consumer' = "release" /\ popped' = Append(popped, buf[Slot(pops)])
        /\ UNCHANGED <<buf, pushes, pops, seenHead, seenTail, knowsPops, knowsPushes, producer, dropped>>
    BY <1>3 DEF ReadSlot
  <2>2. pops < pushes
    BY <1>1, <2>1 DEF Counting
  <2>3. buf[Slot(pops)] = pops + 1
    BY <1>1, <2>2 DEF Stored
  <2>4. popped \in Seq(Nat) /\ Len(popped) = pops /\ \A i \in 1..Len(popped) : popped[i] = i
    BY <2>1 DEF RingTypeOK, InOrder
  <2>5. PICK x \in Nat : x = pops + 1
    BY <1>1
  <2>6. popped' = Append(popped, x)
    BY <2>1, <2>3, <2>5
  <2>7. popped' \in Seq(Nat) /\ Len(popped') = pops + 1
    BY <2>4, <2>6
  <2>8. ASSUME NEW i \in 1..(pops + 1) PROVE Append(popped, x)[i] = i
    BY <1>1, <2>4, <2>5
  <2>9. RingTypeOK'
    BY <2>1, <2>7 DEF RingTypeOK
  <2>10. Counting' /\ Stored'
    BY <2>1 DEF Counting, Stored, Slot, Wrap
  <2>11. InOrder'
    <3>1. \A i \in 1..Len(popped') : popped'[i] = i
      BY <2>6, <2>7, <2>8
    <3>2. dropped = <<>>
      BY <2>1 DEF InOrder, Gone
    <3>3. Len(dropped) <= pushes - pops /\ \A i \in 1..Len(dropped) : dropped[i] = pops + i
      BY DEF InOrder
    <3>. QED
      BY <2>1, <2>7, <3>1, <3>2, <3>3 DEF InOrder
  <2>. QED
    BY <2>9, <2>10, <2>11
<1>4. ASSUME StoreHead PROVE RingInv'
  <2>1. /\ consumer = "release" /\ consumer' = "idle" /\ pops' = pops + 1
        /\ UNCHANGED <<buf, pushes, seenHead, seenTail, knowsPops, knowsPushes, producer, popped, dropped>>
    BY <1>4 DEF StoreHead
  <2>2. PICK n \in Nat : n = pops + 1
    BY <1>1
  <2>3. pops' = n /\ seenHead <= n /\ n <= seenTail
    BY <1>1, <2>1, <2>2 DEF Counting
  <2>4. RingTypeOK'
    BY <2>1, <2>3 DEF RingTypeOK
  <2>5. Counting'
    BY <2>1, <2>3 DEF Counting
  <2>6. Stored'
    <3>1. ASSUME NEW i \in Nat, n <= i, i < pushes PROVE buf[Slot(i)] = i + 1
      <4>1. pops <= i
        BY <1>1, <2>2, <3>1
      <4>. QED
        BY <3>1, <4>1 DEF Stored
    <3>. QED
      BY <2>1, <2>3, <3>1 DEF Stored, Slot, Wrap
  <2>7. InOrder'
    <3>1. dropped = <<>> /\ ~Gone /\ ~Gone'
      BY <2>1 DEF InOrder, Gone
    <3>2. Len(popped) = n /\ \A i \in 1..Len(popped) : popped[i] = i
      BY <2>1, <2>2 DEF InOrder
    <3>3. Len(dropped) = 0 /\ 0 <= pushes - n
      BY <1>1, <2>3, <3>1
    <3>. QED
      BY <2>1, <2>3, <3>1, <3>2, <3>3 DEF InOrder
  <2>. QED
    BY <2>4, <2>5, <2>6, <2>7
<1>. QED
  BY <1>2, <1>3, <1>4

\* The handles go, and with the last of them the values that are left.
LEMMA DropKeeps ==
  ASSUME RingInv, DropHandle \/ DropNext
  PROVE  RingInv'
<1>0. Capacity \in Nat \ {0}
  BY RingAssumption
<1>1. /\ pushes \in Nat /\ pops \in Nat /\ seenHead \in Nat /\ seenTail \in Nat
      /\ seenHead <= pops /\ pops <= seenTail /\ seenTail <= pushes /\ pushes - seenHead <= Capacity
  BY DEF RingInv, RingTypeOK, Counting
<1>. USE DEF RingInv
<1>2. ASSUME DropHandle PROVE RingInv'
  <2>1. /\ UNCHANGED <<buf, pushes, pops, seenHead, seenTail, knowsPops, knowsPushes, popped, dropped>>
        /\ \/ producer = "idle" /\ producer' = "gone" /\ UNCHANGED consumer
           \/ consumer = "idle" /\ consumer' = "gone" /\ UNCHANGED producer
    BY <1>2 DEF DropHandle
  <2>2. RingTypeOK'
    BY <2>1 DEF RingTypeOK
  <2>3. Counting'
    BY <2>1 DEF Counting
  <2>4. Stored'
    BY <2>1 DEF Stored, Slot, Wrap
  <2>5. InOrder'
    BY <2>1 DEF InOrder, Gone
  <2>. QED
    BY <2>2, <2>3, <2>4, <2>5
<1>3. ASSUME DropNext PROVE RingInv'
  <2>. DEFINE i == pops + Len(dropped)
  <2>1. /\ Gone /\ Wrap(i) /= Wrap(pushes) /\ dropped' = Append(dropped, buf[Slot(i)])
        /\ UNCHANGED <<buf, pushes, pops, seenHead, seenTail, knowsPops, knowsPushes, producer, consumer, popped>>
    BY <1>3 DEF DropNext
  <2>2. dropped \in Seq(Nat) /\ Len(dropped) \in Nat /\ Len(dropped) <= pushes - pops
    BY DEF RingTypeOK, InOrder
  <2>3. i \in Nat /\ pops <= i /\ i < pushes
    BY <1>1, <2>1, <2>2
  <2>4. PICK x \in Nat : x = i + 1 /\ buf[Slot(i)] = x
    BY <2>3 DEF Stored
  <2>5. dropped' = Append(dropped, x)
    BY <2>1, <2>4
  <2>6. dropped' \in Seq(Nat) /\ Len(dropped') = Len(dropped) + 1 /\ Len(dropped) + 1 <= pushes - pops
    BY <1>1, <2>2, <2>3, <2>5
  <2>7. ASSUME NEW j \in 1..(Len(dropped) + 1) PROVE Append(dropped, x)[j] = pops + j
    <3>1. CASE j = Len(dropped) + 1
      BY <1>1, <2>2, <2>4, <3>1
    <3>2. CASE j \in 1..Len(dropped)
      BY <2>2, <3>2 DEF InOrder
    <3>. QED
      BY <2>2, <3>1, <3>2
  <2>8. RingTypeOK'
    BY <2>1, <2>6 DEF RingTypeOK
  <2>9. Counting' /\ Stored'
    BY <2>1 DEF Counting, Stored, Slot, Wrap
  <2>10. InOrder'
    <3>1. \A j \in 1..Len(dropped') : dropped'[j] = pops + j
      BY <2>5, <2>6, <2>7
    <3>. QED
      BY <2>1, <2>6, <3>1 DEF InOrder, Gone
  <2>. QED
    BY <2>8, <2>9, <2>10
<1>. QED
  BY <1>2, <1>3

THEOREM RingInvariant == RingSpec => []RingInv
<1>1. RingInit => RingInv
  BY RingInvInit
<1>2. RingInv /\ [RingNext]_ringVars => RingInv'
  <2>. SUFFICES ASSUME RingInv, [RingNext]_ringVars PROVE RingInv'
    OBVIOUS
  <2>1. CASE UNCHANGED ringVars
    BY <2>1 DEF ringVars, RingInv, RingTypeOK, Counting, Stored, Slot, Wrap, InOrder, Gone
  <2>. QED
    BY <2>1, ProducerKeeps, ConsumerKeeps, DropKeeps DEF RingNext
<1>. QED
  BY <1>1, <1>2, PTL DEF RingSpec

\* No slot is written and read at the same time, and every value comes out
\* once, in the order it went in, or is dropped with the ring: with stale loads
\* and wrapping counters, for any capacity and any width it divides.
THEOREM HandsOver == RingSpec => []RingHandsOver
<1>1. RingInv => RingHandsOver
  <2>. SUFFICES ASSUME RingInv PROVE RingHandsOver
    OBVIOUS
  <2>0. Capacity \in Nat \ {0}
    BY RingAssumption
  <2>1. /\ pushes \in Nat /\ pops \in Nat /\ seenHead \in Nat /\ seenTail \in Nat
        /\ seenHead <= pops /\ pops <= seenTail /\ seenTail <= pushes /\ pushes - seenHead <= Capacity
    BY DEF RingInv, RingTypeOK, Counting
  <2>2. producer = "write" => pushes - knowsPops < Capacity
    BY DEF RingInv, Counting
  <2>3. consumer = "read" => pops < knowsPushes
    BY DEF RingInv, Counting
  <2>4. /\ popped \in Seq(Nat) /\ dropped \in Seq(Nat) /\ Len(dropped) <= pushes - pops
        /\ Len(popped) \in Nat /\ Len(dropped) \in Nat
        /\ \A i \in 1..Len(popped) : popped[i] = i
        /\ \A i \in 1..Len(dropped) : dropped[i] = pops + i
        /\ dropped # <<>> \/ Gone => Len(popped) = pops
    BY DEF RingInv, RingTypeOK, InOrder, Gone
  <2>5. ASSUME NEW i \in 1 .. Len(popped \o dropped) PROVE (popped \o dropped)[i] = i
    <3>1. CASE i <= Len(popped)
      BY <2>4, <3>1
    <3>2. CASE i > Len(popped)
      <4>1. i - Len(popped) \in 1..Len(dropped) /\ (popped \o dropped)[i] = dropped[i - Len(popped)]
        BY <2>4, <3>2
      <4>2. Len(popped) = pops
        BY <2>4, <4>1
      <4>3. dropped[i - Len(popped)] = pops + (i - Len(popped))
        BY <2>4, <4>1
      <4>. QED
        BY <2>1, <2>4, <4>1, <4>2, <4>3
    <3>. QED
      BY <2>4, <3>1, <3>2
  <2>6. ASSUME Gone, Wrap(pops + Len(dropped)) = Wrap(pushes)
        PROVE  Len(popped) + Len(dropped) = pushes
    <3>1. PICK i \in Nat : i = pops + Len(dropped)
      BY <2>1, <2>4
    <3>2. i <= pushes /\ pushes - i <= Capacity
      BY <2>0, <2>1, <2>4, <3>1
    <3>3. i = pushes
      BY <2>1, <2>6, <3>1, <3>2, WrapTells
    <3>. QED
      BY <2>4, <2>6, <3>1, <3>3
  <2>. QED
    BY <2>2, <2>3, <2>5, <2>6 DEF RingHandsOver
<1>. QED
  BY <1>1, RingInvariant, PTL
=============================================================================
