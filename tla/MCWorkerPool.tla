----------------------------- MODULE MCWorkerPool -----------------------------
(***************************************************************************)
(* Instances of WorkerPool for TLC.                                        *)
(***************************************************************************)
EXTENDS WorkerPool, TLC

CONSTANTS t1, t2, g1, g2, g3

===============================================================================
