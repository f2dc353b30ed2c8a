--------------------------- MODULE DeliveryContract ---------------------------
(***************************************************************************)
(* What the queue promises a client, without saying how: a submitted task  *)
(* stays pending until it is settled (its email accepted by the provider,  *)
(* or the task kept in the dead-letter queue), and settled is for good.    *)
(***************************************************************************)
CONSTANT Tasks

VARIABLES pending, settled

Init == pending = {} /\ settled = {}

Submit(t) ==
  /\ t \notin pending \cup settled
  /\ pending' = pending \cup {t}
  /\ UNCHANGED settled

Settle(t) ==
  /\ t \in pending
  /\ pending' = pending \ {t}
  /\ settled' = settled \cup {t}

Next == \E t \in Tasks : Submit(t) \/ Settle(t)

Spec == Init /\ [][Next]_<<pending, settled>>

===============================================================================
