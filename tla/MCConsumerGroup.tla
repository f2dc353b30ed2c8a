--------------------------- MODULE MCConsumerGroup ---------------------------
(* A small instance of ConsumerGroup for TLC. *)
EXTENDS ConsumerGroup, TLC

CONSTANTS t1, t2, bad, junk

MCTasks == {t1, t2, bad}
MCStreamOf == (t1 :> 1) @@ (t2 :> 2) @@ (bad :> 1) @@ (junk :> 1)
MCBatches == {<<t2, t1>>, <<t1, bad>>}
===============================================================================
