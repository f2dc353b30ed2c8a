---------------------------- MODULE CircuitBreaker ----------------------------
(***************************************************************************)
(* SendGridSender.Send and its in-process circuit breaker, shared by all   *)
(* worker goroutines of a pod.  The breaker's mutex is held for one method *)
(* call at a time and not during the HTTP request, so requests admitted    *)
(* before the circuit opens report their results after it has.             *)
(*                                                                         *)
(* A result is all the breaker sees of a request: "success" (2xx),         *)
(* "failure" (transport error, 5xx), "neutral" (4xx, or an error before    *)
(* the request is made).                                                   *)
(*                                                                         *)
(* A definition X_variant is X with a fault; no action uses it.  It serves *)
(* to see that a property fails when the code has that fault.              *)
(***************************************************************************)
EXTENDS Naturals, FiniteSets

CONSTANTS
  Workers,      \* goroutines that call Send
  MaxFailures,  \* circuitMaxFailures
  OpenDuration, \* circuitOpenDuration, in ticks
  MaxStreak     \* bound: the history counters stop here

ASSUME BreakerAssumption ==
  /\ IsFiniteSet(Workers)
  /\ MaxFailures \in Nat \ {0}
  /\ OpenDuration \in Nat \ {0}
  /\ MaxStreak \in Nat /\ MaxStreak >= MaxFailures /\ MaxStreak > Cardinality(Workers)

VARIABLES
  consecutive, \* failures since the last success or the last opening
  left,        \* ticks until openUntil has passed; 0 also when openUntil is zero
  inFlight,    \* workers whose request was admitted and has no result yet
  streak,      \* failures recorded since the last success (history)
  openings,    \* times the circuit opened since the last success (history)
  windows,     \* times it opened since it was last closed (history)
  shut         \* ticks since it was last closed (history)

breakerVars == <<consecutive, left>>
historyVars == <<streak, openings, windows, shut>>
vars == <<breakerVars, inFlight, historyVars>>

-------------------------------------------------------------------------------
(* The breaker's methods *)

Allow_always == TRUE
Allow == left = 0

\* Also of a request admitted before the circuit opened.
RecordSuccess ==
  /\ consecutive' = 0
  /\ left' = 0
  /\ streak' = 0 /\ openings' = 0
  /\ windows' = 0 /\ shut' = 0

\* streak and openings stop at MaxStreak.  So does windows, which never gets there
\* (ShutOutBounded), and shut with it.
Count(opened) ==
  /\ IF streak < MaxStreak
     THEN /\ streak' = streak + 1
          /\ openings' = openings + IF opened THEN 1 ELSE 0
     ELSE UNCHANGED <<streak, openings>>
  /\ windows' = windows + IF opened /\ windows < MaxStreak THEN 1 ELSE 0
  /\ UNCHANGED shut

RecordFailure_noReset ==
  LET opened == consecutive + 1 >= MaxFailures IN
  /\ consecutive' = consecutive + 1
  /\ left' = IF opened THEN OpenDuration ELSE left
  /\ Count(opened)

RecordFailure_skipLate ==
  LET opened == left = 0 /\ consecutive + 1 >= MaxFailures IN
  /\ consecutive' = IF opened THEN 0 ELSE IF left > 0 THEN consecutive ELSE consecutive + 1
  /\ left' = IF opened THEN OpenDuration ELSE left
  /\ Count(opened)

\* Once open, each late failure prolongs the window.
RecordFailure_keepsOpen ==
  LET opened == left > 0 \/ consecutive + 1 >= MaxFailures IN
  /\ consecutive' = IF opened THEN 0 ELSE consecutive + 1
  /\ left' = IF opened THEN OpenDuration ELSE left
  /\ Count(opened)

\* The MaxFailures-th failure opens the circuit, or opens it anew.
RecordFailure ==
  LET opened == consecutive + 1 >= MaxFailures IN
  /\ consecutive' = IF opened THEN 0 ELSE consecutive + 1
  /\ left' = IF opened THEN OpenDuration ELSE left
  /\ Count(opened)

-------------------------------------------------------------------------------
(* Send *)

\* Without Allow, Send returns ErrCircuitOpen and nothing changes.
Admit(w) ==
  /\ w \notin inFlight
  /\ Allow
  /\ inFlight' = inFlight \cup {w}
  /\ UNCHANGED <<breakerVars, historyVars>>

Result(w, result) ==
  /\ w \in inFlight
  /\ inFlight' = inFlight \ {w}
  /\ \/ result = "success" /\ RecordSuccess
     \/ result = "failure" /\ RecordFailure
     \/ result = "neutral" /\ UNCHANGED <<breakerVars, historyVars>>

\* Time passes.  The circuit is closed when its window is over.
Tick ==
  /\ left > 0
  /\ left' = left - 1
  /\ IF left = 1
     THEN windows' = 0 /\ shut' = 0
     ELSE shut' = shut + (IF windows < MaxStreak THEN 1 ELSE 0) /\ UNCHANGED windows
  /\ UNCHANGED <<consecutive, inFlight, streak, openings>>

-------------------------------------------------------------------------------
(* Specification *)

Init ==
  /\ consecutive = 0 /\ left = 0
  /\ inFlight = {}
  /\ streak = 0 /\ openings = 0
  /\ windows = 0 /\ shut = 0

Next ==
  \/ \E w \in Workers :
       Admit(w) \/ \E result \in {"success", "failure", "neutral"} : Result(w, result)
  \/ Tick

Spec == Init /\ [][Next]_vars

\* Time passes.
FairSpec == Spec /\ WF_vars(Tick)

-------------------------------------------------------------------------------
(* Properties *)

\* The type invariant.  The counter never reaches MaxFailures: that failure
\* opens the circuit and resets it.
TypeOK ==
  /\ consecutive \in 0 .. MaxFailures - 1
  /\ left \in 0 .. OpenDuration
  /\ inFlight \subseteq Workers
  /\ streak \in 0 .. MaxStreak
  /\ openings \in Nat
  /\ windows \in Nat /\ shut \in Nat

\* During an outage the circuit opens once for every MaxFailures failures, in
\* whatever order the results of concurrent requests come in, before, during and
\* after an open window: RecordFailure loses none and counts none twice.
OpensEveryMaxFailures ==
  streak < MaxStreak => streak = openings * MaxFailures + consecutive

\* How long late failures can keep the workers out.  The results of requests that
\* were admitted earlier open an open circuit anew, but only MaxFailures of them
\* together, and nobody is admitted who could add to them: the circuit stays open
\* for no more windows than the pool, without the request that opened it, has
\* groups of MaxFailures requests, and the first.
ShutOutBounded ==
  left > 0 =>
    /\ shut + left <= windows * OpenDuration
    /\ (windows - 1) * MaxFailures < Cardinality(Workers)

\* An open circuit closes in the end, although the results of requests admitted
\* earlier may open it anew: it lets nobody in who could do so for ever.
OpenEnds == left > 0 ~> left = 0

===============================================================================
