--------------------------- MODULE MCOutcomeHistory ---------------------------
(***************************************************************************)
(* The instances of MCDeliveryPipeline, with the history of the gate.      *)
(***************************************************************************)
EXTENDS OutcomeHistory, MCDeliveryPipeline

===============================================================================
