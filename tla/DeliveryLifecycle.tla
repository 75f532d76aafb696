-------------------------- MODULE DeliveryLifecycle --------------------------
(***************************************************************************)
(* What the pipeline promises about one delivery, with no workers, leases, *)
(* clocks or attempts in it: the stages of app/core/enums.py's             *)
(* DeliveryState, the edges between them, a try counted when a worker      *)
(* takes the delivery, and an end that is final.                           *)
(***************************************************************************)
EXTENDS Naturals

CONSTANTS DeliveryId,   \* ids of the deliveries of one simulation
          MaxAttempts   \* settings.max_attempts

VARIABLES stage,        \* DeliveryState of each delivery, "absent" before ingest
          tries         \* attempts charged against its retry budget

lifecycleVars == <<stage, tries>>

Terminal == {"delivered", "failed", "expired", "superseded"}
Stages == {"absent", "pending", "ready", "in_flight"} \cup Terminal

LifecycleInit ==
    /\ stage = [d \in DeliveryId |-> "absent"]
    /\ tries = [d \in DeliveryId |-> 0]

-----------------------------------------------------------------------------
(* One edge of the lifecycle of delivery d. *)

Stays(d) == stage'[d] = stage[d] /\ tries'[d] = tries[d]

\* The event happened and the subscription fanned out to it.
Appears(d) ==
    /\ stage[d] = "absent" /\ stage'[d] = "pending"
    /\ tries'[d] = tries[d]

\* Admitted to the ready buffer.
Admitted(d) ==
    /\ stage[d] = "pending" /\ stage'[d] = "ready"
    /\ tries'[d] = tries[d]

\* Dropped by policy: a queued delivery that is never (again) sent.  Only a
\* pending one can be superseded.  A drop is not an attempt.
Dropped(d) ==
    /\ \/ stage[d] \in {"pending", "ready"} /\ stage'[d] = "expired"
       \/ stage[d] = "pending" /\ stage'[d] = "superseded"
    /\ tries'[d] = tries[d]

\* A worker takes it: the only edge that is charged, and never past the budget.
Taken(d) ==
    /\ stage[d] = "ready" /\ stage'[d] = "in_flight"
    /\ tries[d] < MaxAttempts
    /\ tries'[d] = tries[d] + 1

Accepted(d) ==
    /\ stage[d] = "in_flight" /\ stage'[d] = "delivered"
    /\ tries'[d] = tries[d]

\* The attempt came to nothing, with budget left to try again ...
GivenBack(d) ==
    /\ stage[d] = "in_flight" /\ stage'[d] = "pending"
    /\ tries[d] < MaxAttempts
    /\ tries'[d] = tries[d]

\* ... and with none left.
Exhausted(d) ==
    /\ stage[d] = "in_flight" /\ stage'[d] = "failed"
    /\ tries[d] = MaxAttempts
    /\ tries'[d] = tries[d]

Moves(d) ==
    \/ Appears(d)  \/ Admitted(d)  \/ Dropped(d)   \/ Taken(d)
    \/ Accepted(d) \/ GivenBack(d) \/ Exhausted(d)

-----------------------------------------------------------------------------
\* One transaction of the program moves any number of deliveries, each along
\* at most one edge.
LifecycleNext ==
    /\ stage' \in [DeliveryId -> Stages]
    /\ tries' \in [DeliveryId -> 0 .. MaxAttempts]
    /\ \A d \in DeliveryId : Stays(d) \/ Moves(d)

LifecycleSpec == LifecycleInit /\ [][LifecycleNext]_lifecycleVars
=============================================================================
