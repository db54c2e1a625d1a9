----------------------------- MODULE JobService -----------------------------
(***************************************************************************)
(* What a bounded worker pool promises its clients, with no threads, locks *)
(* or condition variables: offered items are accepted in order up to a     *)
(* capacity or handed back, are started first in first out on a fixed      *)
(* number of slots, and every item offered is counted exactly once.        *)
(***************************************************************************)
EXTENDS Integers, Sequences

CONSTANTS Items,     \* the items clients may offer, each at most once
          NumSlots,  \* how many items run at once
          Capacity,  \* how many accepted items may wait
          Idle       \* the content of a slot that runs nothing

VARIABLES waiting,    \* accepted items that have not started, oldest first
          slot,       \* slot[k]: the item running in slot k, or Idle
          offered,    \* the items offered so far
          completed, panicked, rejected,   \* the service's tallies
          open        \* FALSE once the service has been told to stop

svars == <<waiting, slot, offered, completed, panicked, rejected, open>>

Slots == 1..NumSlots

Init ==
  /\ waiting = <<>>
  /\ slot = [k \in Slots |-> Idle]
  /\ offered = {}
  /\ completed = 0 /\ panicked = 0 /\ rejected = 0
  /\ open = TRUE

Accept(i) ==
  /\ open /\ i \notin offered /\ Len(waiting) < Capacity
  /\ waiting' = Append(waiting, i)
  /\ offered' = offered \union {i}
  /\ UNCHANGED <<slot, completed, panicked, rejected, open>>

\* An item is handed back only when the queue is full.
Refuse(i) ==
  /\ open /\ i \notin offered /\ Len(waiting) = Capacity
  /\ offered' = offered \union {i}
  /\ rejected' = rejected + 1
  /\ UNCHANGED <<waiting, slot, completed, panicked, open>>

Start(k) ==
  /\ waiting # <<>> /\ slot[k] = Idle
  /\ slot' = [slot EXCEPT ![k] = Head(waiting)]
  /\ waiting' = Tail(waiting)
  /\ UNCHANGED <<offered, completed, panicked, rejected, open>>

Finish(k) ==
  /\ slot[k] # Idle
  /\ slot' = [slot EXCEPT ![k] = Idle]
  /\ \/ completed' = completed + 1 /\ UNCHANGED panicked
     \/ panicked' = panicked + 1 /\ UNCHANGED completed
  /\ UNCHANGED <<waiting, offered, rejected, open>>

\* Stopping loses nothing: what was accepted still starts and finishes.
Stop ==
  /\ open /\ open' = FALSE
  /\ UNCHANGED <<waiting, slot, offered, completed, panicked, rejected>>

StartSome == \E k \in Slots : Start(k)

Next ==
  \/ \E i \in Items : Accept(i) \/ Refuse(i)
  \/ StartSome
  \/ \E k \in Slots : Finish(k)
  \/ Stop

\* Work is never left waiting while a slot is idle, and what runs finishes.
Fairness == WF_svars(StartSome) /\ \A k \in Slots : WF_svars(Finish(k))

SafeSpec == Init /\ [][Next]_svars
Spec == SafeSpec /\ Fairness
=============================================================================
