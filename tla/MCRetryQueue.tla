----------------------------- MODULE MCRetryQueue -----------------------------
(***************************************************************************)
(* Instances of RetryQueue for TLC: an unparsable member and two tasks,    *)
(* the second of them on a later attempt, with a batch limit of one.       *)
(***************************************************************************)
EXTENDS RetryQueue, TLC

CONSTANTS bad, task1, task2, p1, p2

AttemptOf == (bad :> 0) @@ (task1 :> 0) @@ (task2 :> 1)

===============================================================================
