------------------------------ MODULE AtomicMap ------------------------------
(***************************************************************************)
(* The storage contract of Ferrite (trait KvStore) as concurrent clients   *)
(* see it: each get, put and delete takes effect at one instant between    *)
(* its call and its return, whatever the sharding and the locks behind it. *)
(***************************************************************************)
CONSTANTS Threads, Keys, Values,
          Nil,          \* Option::None
          Operations    \* the calls a thread may make

VARIABLES content,   \* content[k]: the value under k, or Nil
          call,      \* call[t]: the operation thread t is executing
          status,    \* "idle", "pending" (no effect yet) or "applied"
          answer     \* answer[t]: the result of an applied operation

mvars == <<content, call, status, answer>>

Idle == [kind |-> "none"]

Init ==
  /\ content = [k \in Keys |-> Nil]
  /\ call = [t \in Threads |-> Idle]
  /\ status = [t \in Threads |-> "idle"]
  /\ answer = [t \in Threads |-> Nil]

Invoke(t, o) ==
  /\ status[t] = "idle"
  /\ call' = [call EXCEPT ![t] = o]
  /\ status' = [status EXCEPT ![t] = "pending"]
  /\ UNCHANGED <<content, answer>>

\* The new content of the key an operation names.
Effect(o) ==
  CASE o.kind = "put" -> [content EXCEPT ![o.key] = o.value]
    [] o.kind = "delete" -> [content EXCEPT ![o.key] = Nil]
    [] OTHER -> content

\* get answers the value, put and delete the value they replaced.
Apply(t) ==
  /\ status[t] = "pending" /\ call[t].kind \in {"get", "put", "delete"}
  /\ answer' = [answer EXCEPT ![t] = content[call[t].key]]
  /\ content' = Effect(call[t])
  /\ status' = [status EXCEPT ![t] = "applied"]
  /\ UNCHANGED call

\* Operations outside the contract (len, a panic) have no effect on the map.
ApplyOther(t) ==
  /\ status[t] = "pending" /\ call[t].kind \notin {"get", "put", "delete"}
  /\ status' = [status EXCEPT ![t] = "applied"]
  /\ UNCHANGED <<content, call, answer>>

Return(t) ==
  /\ status[t] = "applied"
  /\ status' = [status EXCEPT ![t] = "idle"]
  /\ call' = [call EXCEPT ![t] = Idle]
  /\ answer' = [answer EXCEPT ![t] = Nil]
  /\ UNCHANGED content

Next == \E t \in Threads :
          \/ \E o \in Operations : Invoke(t, o)
          \/ Apply(t) \/ ApplyOther(t) \/ Return(t)

Spec == Init /\ [][Next]_mvars
=============================================================================
