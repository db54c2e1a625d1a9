---------------------------- MODULE MCFerriteV1 ----------------------------
(***************************************************************************)
(* The worker pool in both its uses: a behaviour is either of the pool     *)
(* alone, whose try_submit any number of threads call and whose owner      *)
(* shuts it down or just drops it, or of the pool as the server of ferrite *)
(* v1 uses it.                                                             *)
(***************************************************************************)
EXTENDS FerriteV1

CONSTANT Clients   \* bound: the items that connect to the server

VARIABLE user      \* whose pool it is

mcvars == <<v1vars, user>>

ByThreads == user = "threads"
ByServer  == user = "server"

MCInit == ServerInit /\ user \in {"threads", "server"}

PoolAlone == ByThreads /\ Next /\ UNCHANGED <<serverside, handler, user>>

Server == /\ ByServer /\ ServerNext /\ UNCHANGED user
          /\ \A c \in Items \ Clients : net'[c] = "away"

\* The fairness of either use, Fairness and ServerFairness, where it applies.
MCFairness ==
  /\ \A w \in Workers : /\ WF_poolvars(ByThreads /\ WorkerStep(w))
                        /\ WF_poolvars(ByThreads /\ Finish(w))
                        /\ WF_v1vars(ByServer /\ Seek(w) /\ WorkerStep(w))
                        /\ WF_v1vars(ByServer /\ Handle(w))
  /\ \A i \in Items : WF_poolvars(ByThreads /\ NotifyOne(i))
  /\ WF_poolvars(ByThreads /\ OwnerStep)
  /\ WF_v1vars(ByServer /\ Dial) /\ WF_v1vars(ByServer /\ LoopStep)

MCSpec == MCInit /\ [][PoolAlone \/ Server]_mcvars /\ MCFairness
=============================================================================
