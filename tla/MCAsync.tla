------------------------------ MODULE MCAsync ------------------------------
(***************************************************************************)
(* One run for the chapters on async and on atomics: a behaviour is either *)
(* of the executor, of the relay or of the ring. The machines share no     *)
(* state; the other two rest where they end.                               *)
(***************************************************************************)
EXTENDS Executor, Relay, SpscRing

SpawnOf(t)  == <<"spawn", t>>
Join(t)     == <<"join", t>>
SleepFor(n) == <<"sleep", n>>
Await(S)    == <<"all", S>>

\* What a task does that awaits nobody.
Leaves == {<<>>, <<Await({SleepFor(1)}), Await({SleepFor(2)})>>, <<Await({SleepFor(1), SleepFor(2)})>>}
\* Handles awaited in turn, together with a sleep, or dropped.
Roots  == {<<SpawnOf("a"), SpawnOf("b"), Await({Join("a")}), Await({Join("b")})>>,
           <<SpawnOf("a"), SpawnOf("b"), Await({Join("a"), Join("b"), SleepFor(1)})>>,
           <<SpawnOf("a"), Await({SleepFor(1)}), SpawnOf("b")>>}
Script(r, x, y) == [t \in Tasks |-> CASE t = Root -> r [] t = "a" -> x [] t = "b" -> y]
MCScripts == {Script(r, x, y) : r \in Roots, x \in Leaves, y \in Leaves}
             \cup {Script(<<SpawnOf("a"), Await({Join("a"), SleepFor(1)})>>,
                          <<SpawnOf("b"), Await({SleepFor(1)}), Await({Join("b")})>>, y) : y \in Leaves}

\* A merchant with more events than permits and queue hold, and another.
MCLoad == <<"slow", "slow", "fast", "slow">>

NoWork == [pc |-> "returned", task |-> Nobody, on |-> NoSleep, left |-> {}]
ExecRests  == /\ script = [t \in Tasks |-> <<>>] /\ runq = <<>> /\ queued = [t \in Tasks |-> FALSE]
              /\ spawned = {Root} /\ finished = {Root} /\ at = [t \in Tasks |-> 1] /\ over = [t \in Tasks |-> {}]
              /\ heap = {} /\ fired = {} /\ sleepWaker = {} /\ joinWaker = [t \in Tasks |-> Nobody] /\ result = {Root}
              /\ exec = NoWork /\ clock = Idle
\* As if every event had been spilled.
RelayRests == /\ arrived = Len(Load) /\ main = "reported" /\ stop = TRUE
              /\ queue = [m \in Merchants |-> <<>>] /\ disp = [m \in Merchants |-> "done"]
              /\ held = [m \in Merchants |-> NoEvent] /\ task = [e \in Ids |-> "none"] /\ tries = [e \in Ids |-> 0]
              /\ inFlight = [m \in Merchants |-> {}] /\ peak = [m \in Merchants |-> 0]
              /\ out = [p \in Kinds \X Ids |-> IF p[1] = "spilled" THEN 1 ELSE 0]
              /\ pending = 0 /\ durable = 0
RingRests  == /\ buf = [i \in 0 .. Capacity - 1 |-> 0] /\ pushes = 0 /\ pops = 0
              /\ seenHead = 0 /\ seenTail = 0 /\ knowsPops = 0 /\ knowsPushes = 0
              /\ producer = "gone" /\ consumer = "gone" /\ popped = <<>> /\ dropped = <<>>

MCInit == \/ ExecInit /\ RelayRests /\ RingRests
          \/ RelayInit /\ ExecRests /\ RingRests
          \/ RingInit /\ ExecRests /\ RelayRests
MCNext == \/ ExecNext /\ UNCHANGED <<relayVars, ringVars>>
          \/ RelayNext /\ UNCHANGED <<execVars, ringVars>>
          \/ RingNext /\ UNCHANGED <<execVars, relayVars>>
MCSpec == MCInit /\ [][MCNext]_<<execVars, relayVars, ringVars>> /\ ExecFairness /\ RelayFairness
=============================================================================
