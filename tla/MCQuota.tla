------------------------------ MODULE MCQuota ------------------------------
EXTENDS Quota

CONSTANTS
  a, b,
  last   \* the request of the bound below; quota_overrun has none

\* b is known only to the second map; a's limit changes, and the larger one still
\* has a use left when both slots are taken.
TwoMaps == {a :> 1, (a :> 3) @@ (b :> 1)}

\* One map that is never replaced.
OneMap == {a :> 1}

\* Bound: the last request calls only when all others hold slots of its partner;
\* it closes no window.
LastFindsSlotsTaken ==
  At(last, "idle") /\ call'[last] # Idle =>
    call'[last].at = "decide" /\ Requests \ {last} \subseteq Holding(call'[last].who)

MCSpec == /\ Init /\ [][Next /\ LastFindsSlotsTaken]_vars
          /\ WF_vars(Writer) /\ \A r \in Requests : SF_vars(Step(r))
=============================================================================
