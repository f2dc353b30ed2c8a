--------------------------- MODULE MCCircuitBreaker ---------------------------
(***************************************************************************)
(* Instances of CircuitBreaker for TLC.                                    *)
(***************************************************************************)
EXTENDS CircuitBreaker, TLC

CONSTANTS w1, w2, w3, w4, w5

===============================================================================
