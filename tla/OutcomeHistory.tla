---------------------------- MODULE OutcomeHistory ----------------------------
(***************************************************************************)
(* DeliveryPipeline with a history of the attempts that were put in doubt  *)
(* (their gate opened again after a delivery had passed it, or the         *)
(* provider's answer was lost) and of the pushes to the DLQ that the       *)
(* client library repeated.  The history adds nothing to what the pipeline *)
(* does; it is there to say what a task that ends in more than one way     *)
(* goes back to.                                                           *)
(***************************************************************************)
EXTENDS DeliveryPipeline

VARIABLES
  doubted, \* attempts put in doubt so far (history)
  repeats  \* per attempt, the RPUSHes after which the call ran another (history)

historyState == <<vars, doubted, repeats>>

\* A step opens the gate of attempt k again: its key is deleted (ClearProcessing)
\* or expires, or the reclaim script hands it to another delivery.
Reopens(k) ==
  \/ lock[k] # "absent" /\ lock'[k] = "absent"
  \/ lock[k] = "processing" /\ lock'[k] = "processing" /\ k \in stale \ stale'

\* The provider accepts the email and Send fails all the same.
AnswerLost(k) == accepted'[k] # accepted[k] /\ budget' # budget

\* An entry is pushed and SendToDLQ goes on, to push it again.
PushRepeated(k) == dlq'[k] # dlq[k] /\ worker' = worker

HistoryNext ==
  /\ Next
  /\ doubted' = doubted \cup {k \in Keys : Reopens(k) \/ AnswerLost(k)}
  /\ repeats' = [k \in Keys |-> IF PushRepeated(k) THEN repeats[k] + 1 ELSE repeats[k]]

HistoryInit == Init /\ doubted = {} /\ repeats = [k \in Keys |-> 0]

HistorySpec == HistoryInit /\ [][HistoryNext]_historyState

\* A task ends in one way: an attempt that was never put in doubt has one email at
\* most, or else DLQ entries, no more than one beyond those the client library
\* repeated within the one call of SendToDLQ; and after either no later attempt of
\* the task is ever scheduled, whatever is redelivered, resubmitted, flushed twice
\* or crashes.  So a second email, an email beside a DLQ entry or a scheduled
\* retry, and a second call of SendToDLQ that pushes, all go back to a lock that
\* processTask gave up, lost or took over, or to a lost answer.
OneOutcome ==
  \A k \in Keys \ doubted :
    /\ accepted[k] <= 1
    /\ dlq[k] <= 1 + repeats[k]
    /\ accepted[k] = 0 \/ dlq[k] = 0
    /\ accepted[k] + dlq[k] > 0 =>
         \A s \in scheduled : s.task = k.task => s.attempt <= k.attempt

===============================================================================
