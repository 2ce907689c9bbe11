--------------------------- MODULE StagedDeployment ---------------------------
(***************************************************************************)
(* What the control plane promises about a staged rollout, without waves,  *)
(* cursors, queues, gates or messages: a host starts only when every host  *)
(* ordered before it in the rollout is past its activation, and a host     *)
(* that is past it does not start again.                                   *)
(***************************************************************************)
CONSTANTS
    Rollouts,
    Hosts,
    Order      \* Order[r]: the pairs <<g, h>> where g comes before h in r

VARIABLE stage

Stages  == {"waiting", "started", "done"}
Waiting == [h \in Hosts |-> "waiting"]

TypeOK == stage \in [Rollouts -> [Hosts -> Stages]]

Init == stage = [r \in Rollouts |-> Waiting]

MayStart(r, h) == \A g \in Hosts : <<g, h>> \in Order[r] => stage[r][g] = "done"

\* What may become of host h in rollout r in one step.
Advances(r, h) ==
    \/ stage'[r][h] = stage[r][h]
    \/ stage[r][h] = "waiting" /\ MayStart(r, h)
    \/ stage[r][h] = "started" /\ stage'[r][h] = "done"

\* Hosts move, each on its own terms.
Advance ==
    /\ TypeOK'
    /\ \A r \in Rollouts, h \in Hosts : Advances(r, h)

\* A finished rollout is forgotten.
Forget(r) == stage' = [stage EXCEPT ![r] = Waiting]

Next == Advance \/ \E r \in Rollouts : Forget(r)

Spec == Init /\ [][Next]_stage
=============================================================================
