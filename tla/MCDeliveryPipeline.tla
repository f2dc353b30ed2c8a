-------------------------- MODULE MCDeliveryPipeline --------------------------
(***************************************************************************)
(* Instances of DeliveryPipeline for TLC: one task, two deliveries at      *)
(* once, one pod or two that flush, and what the sender may answer.        *)
(***************************************************************************)
EXTENDS DeliveryPipeline, TLC

CONSTANTS t1, d1, d2, p1, p2

DeliverySymmetry == Permutations({d1, d2})

SoloPod == (d1 :> p1)
OnePod == (d1 :> p1) @@ (d2 :> p1)

NoPanic == [t \in Tasks |-> {"ok", "transient", "permanent"}]
AnyOutcome == [t \in Tasks |-> OutcomeKinds]
OnlyPanic == [t \in Tasks |-> {"panic"}]

===============================================================================
