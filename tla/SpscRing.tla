------------------------------ MODULE SpscRing ------------------------------
(***************************************************************************)
(* The ring of one producer and one consumer, after its review.            *)
(* Source: listings/part-14/review-spsc-fixed.rs.                          *)
(*                                                                         *)
(* The counters wrap at Width. A load may return an old value, but none    *)
(* older than what the thread has seen. Which accesses of the other side   *)
(* happen before its own, a thread learns from Acquire loads of values     *)
(* stored with Release, and from nothing else.                             *)
(***************************************************************************)
EXTENDS Integers, Sequences

CONSTANTS Capacity, Width,   \* slots; values of a usize
          MaxPushes          \* bound on the values ever pushed

ASSUME RingAssumption ==
  /\ Capacity \in Nat \ {0} /\ Width \in Nat \ {0}
  /\ Width % Capacity = 0 /\ Capacity < Width    \* both are powers of two
  /\ MaxPushes \in Nat

VARIABLES buf,               \* slots: the number of the value in it, 0 if none
          pushes, pops,      \* counters before they wrap: tail and head are these modulo Width
          seenHead, seenTail,\* what each side last loaded of the other's counter, before it wraps
          knowsPops,         \* pops that happen before the producer's next access
          knowsPushes,       \* pushes that happen before the consumer's next access
          producer, consumer,\* positions
          popped, dropped    \* what came out, in order

ringVars == <<buf, pushes, pops, seenHead, seenTail, knowsPops, knowsPushes, producer, consumer, popped, dropped>>

Wrap(n)  == n % Width
Slot(n)  == Wrap(n) % Capacity          \* n & mask
MaxOf(a, b) == IF a > b THEN a ELSE b

RingInit ==
  /\ buf = [i \in 0 .. Capacity - 1 |-> 0]
  /\ pushes = 0 /\ pops = 0
  /\ seenHead = 0 /\ seenTail = 0 /\ knowsPops = 0 /\ knowsPushes = 0
  /\ producer = "idle" /\ consumer = "idle"
  /\ popped = <<>> /\ dropped = <<>>

\* Seeded fault: the loads are Relaxed.
RelaxedLoad(known, v) == known
\* What is known after an Acquire load of the value v.
AcquireLoad(known, v) == MaxOf(known, v)

\* push: load head, and leave if the ring is full by that value.
BeginPush ==
  /\ producer = "idle"
  /\ pushes < MaxPushes
  /\ \E v \in seenHead .. pops :
       /\ seenHead' = v
       /\ knowsPops' = AcquireLoad(knowsPops, v)
       /\ producer' = IF Wrap(Wrap(pushes) - Wrap(v)) = Capacity THEN "idle" ELSE "write"
  /\ UNCHANGED <<buf, pushes, pops, seenTail, knowsPushes, consumer, popped, dropped>>

WriteSlot ==
  /\ producer = "write"
  /\ buf' = [buf EXCEPT ![Slot(pushes)] = pushes + 1]
  /\ producer' = "publish"
  /\ UNCHANGED <<pushes, pops, seenHead, seenTail, knowsPops, knowsPushes, consumer, popped, dropped>>

StoreTail ==
  /\ producer = "publish"
  /\ pushes' = pushes + 1
  /\ producer' = "idle"
  /\ UNCHANGED <<buf, pops, seenHead, seenTail, knowsPops, knowsPushes, consumer, popped, dropped>>

BeginPop ==
  /\ consumer = "idle"
  /\ \E v \in seenTail .. pushes :
       /\ seenTail' = v
       /\ knowsPushes' = AcquireLoad(knowsPushes, v)
       /\ consumer' = IF Wrap(pops) = Wrap(v) THEN "idle" ELSE "read"
  /\ UNCHANGED <<buf, pushes, pops, seenHead, knowsPops, producer, popped, dropped>>

ReadSlot ==
  /\ consumer = "read"
  /\ popped' = Append(popped, buf[Slot(pops)])
  /\ consumer' = "release"
  /\ UNCHANGED <<buf, pushes, pops, seenHead, seenTail, knowsPops, knowsPushes, producer, dropped>>

StoreHead ==
  /\ consumer = "release"
  /\ pops' = pops + 1
  /\ consumer' = "idle"
  /\ UNCHANGED <<buf, pushes, seenHead, seenTail, knowsPops, knowsPushes, producer, popped, dropped>>

\* The handles may go at any time between calls.
DropHandle ==
  /\ \/ producer = "idle" /\ producer' = "gone" /\ UNCHANGED consumer
     \/ consumer = "idle" /\ consumer' = "gone" /\ UNCHANGED producer
  /\ UNCHANGED <<buf, pushes, pops, seenHead, seenTail, knowsPops, knowsPushes, popped, dropped>>

\* Ring::drop, by whoever lets go last; the Arc orders it after both sides.
Gone == producer = "gone" /\ consumer = "gone"
DropNext ==
  LET i == pops + Len(dropped) IN
  /\ Gone
  /\ Wrap(i) /= Wrap(pushes)
  /\ dropped' = Append(dropped, buf[Slot(i)])
  /\ UNCHANGED <<buf, pushes, pops, seenHead, seenTail, knowsPops, knowsPushes, producer, consumer, popped>>

RingNext == BeginPush \/ WriteSlot \/ StoreTail \/ BeginPop \/ ReadSlot \/ StoreHead \/ DropHandle \/ DropNext
RingSpec == RingInit /\ [][RingNext]_ringVars

-----------------------------------------------------------------------------
\* Each slot is accessed by one side at a time: the producer's write of a slot
\* happens after the pop of its last value, the consumer's read after the write.
\* Values come out once, in the order they went in, and those left are dropped.
RingHandsOver ==
  /\ producer = "write" => pushes - knowsPops < Capacity
  /\ consumer = "read" => pops < knowsPushes
  /\ \A i \in 1 .. Len(popped \o dropped) : (popped \o dropped)[i] = i
  /\ Gone /\ Wrap(pops + Len(dropped)) = Wrap(pushes) => Len(popped) + Len(dropped) = pushes
=============================================================================
