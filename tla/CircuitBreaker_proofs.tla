------------------------- MODULE CircuitBreaker_proofs -------------------------
(***************************************************************************)
(* Proofs about CircuitBreaker: the type invariant, the accounting of      *)
(* failures and openings, and how long the circuit can stay open.          *)
(***************************************************************************)
EXTENDS CircuitBreaker, FiniteSetTheorems, TLAPS

\* The type invariant together with the accounting.
BreakerInv == TypeOK /\ OpensEveryMaxFailures

\* RecordFailure and the end of a request preserve the accounting.
LEMMA ResultPreserves ==
  ASSUME BreakerInv, NEW w \in Workers,
         NEW result \in {"success", "failure", "neutral"}, Result(w, result)
  PROVE  BreakerInv'
<1> USE BreakerAssumption DEF BreakerInv, TypeOK, OpensEveryMaxFailures
<1>1. inFlight' \subseteq Workers
  BY DEF Result
<1>2. CASE RecordSuccess
  BY <1>1, <1>2 DEF RecordSuccess
<1>3. CASE RecordFailure
  <2>1. /\ consecutive' \in 0 .. MaxFailures - 1 /\ left' \in 0 .. OpenDuration
        /\ windows' \in Nat /\ shut' \in Nat
    BY <1>3 DEF RecordFailure, Count
  <2>2. CASE streak < MaxStreak
    <3>1. streak' = streak + 1 /\ streak = openings * MaxFailures + consecutive
      BY <1>3, <2>2 DEF RecordFailure, Count
    <3>2. CASE consecutive + 1 >= MaxFailures
      <4>1. openings' = openings + 1 /\ consecutive' = 0 /\ consecutive + 1 = MaxFailures
        BY <1>3, <2>2, <3>2 DEF RecordFailure, Count
      <4>2. openings' * MaxFailures = openings * MaxFailures + MaxFailures
        BY <4>1
      <4> QED BY <1>1, <2>1, <2>2, <3>1, <4>1, <4>2
    <3>3. CASE ~(consecutive + 1 >= MaxFailures)
      <4>1. openings' = openings /\ consecutive' = consecutive + 1
        BY <1>3, <2>2, <3>3 DEF RecordFailure, Count
      <4> QED BY <1>1, <2>1, <2>2, <3>1, <4>1
    <3> QED BY <3>2, <3>3
  <2>3. CASE ~(streak < MaxStreak)
    <3>1. streak' = streak /\ openings' = openings
      BY <1>3, <2>3 DEF RecordFailure, Count
    <3> QED BY <1>1, <2>1, <2>3, <3>1
  <2> QED BY <2>2, <2>3
<1>4. CASE UNCHANGED <<breakerVars, historyVars>>
  BY <1>1, <1>4 DEF breakerVars, historyVars
<1> QED BY <1>2, <1>3, <1>4 DEF Result

\* The invariant is inductive.
LEMMA BreakerInductive == BreakerInv /\ [Next]_vars => BreakerInv'
<1> SUFFICES ASSUME BreakerInv, [Next]_vars PROVE BreakerInv'
  OBVIOUS
<1>1. ASSUME NEW w \in Workers, Admit(w) PROVE BreakerInv'
  BY <1>1 DEF Admit, breakerVars, historyVars, BreakerInv, TypeOK, OpensEveryMaxFailures
<1>2. ASSUME NEW w \in Workers, NEW result \in {"success", "failure", "neutral"},
             Result(w, result)
      PROVE  BreakerInv'
  BY <1>2, ResultPreserves
<1>3. CASE Tick
  BY <1>3, BreakerAssumption DEF Tick, BreakerInv, TypeOK, OpensEveryMaxFailures
<1>4. CASE UNCHANGED vars
  BY <1>4 DEF vars, breakerVars, historyVars, BreakerInv, TypeOK, OpensEveryMaxFailures
<1> QED BY <1>1, <1>2, <1>3, <1>4 DEF Next

\* Every behaviour of the breaker keeps its counter below MaxFailures and its
\* window within OpenDuration (TypeOK), and opens once for every MaxFailures
\* failures without a success between them, for every pool size.
THEOREM OpeningAccounting == Spec => [](TypeOK /\ OpensEveryMaxFailures)
<1>1. Init => BreakerInv
  BY BreakerAssumption DEF Init, BreakerInv, TypeOK, OpensEveryMaxFailures
<1>2. BreakerInv => TypeOK /\ OpensEveryMaxFailures
  BY DEF BreakerInv
<1> QED BY <1>1, <1>2, BreakerInductive, PTL DEF Spec

\* The types alone: a counter below MaxFailures and a window within OpenDuration,
\* however late the results of a full pool come in.
THEOREM BreakerTypeCorrect == Spec => []TypeOK
BY OpeningAccounting, PTL

\* The prolongations so far, and the failures that are counted or may yet be, take
\* one request of the pool each; the time is paid for by the windows.
ShutInv ==
  /\ left = 0 => windows = 0 /\ shut = 0
  /\ left > 0 =>
       /\ windows > 0
       /\ shut + left <= windows * OpenDuration
       /\ (windows - 1) * MaxFailures + consecutive + Cardinality(inFlight) < Cardinality(Workers)

\* A request that ends leaves fewer in flight than the pool has workers.
LEMMA Fewer ==
  ASSUME TypeOK, NEW w \in inFlight, inFlight' = inFlight \ {w}
  PROVE  /\ Cardinality(Workers) \in Nat /\ Cardinality(inFlight) \in Nat
         /\ Cardinality(inFlight') \in Nat
         /\ Cardinality(inFlight') = Cardinality(inFlight) - 1
         /\ Cardinality(inFlight) <= Cardinality(Workers)
<1>1. IsFiniteSet(Workers) /\ inFlight \subseteq Workers
  BY BreakerAssumption DEF TypeOK
<1>2. IsFiniteSet(inFlight) /\ Cardinality(inFlight) <= Cardinality(Workers)
  BY <1>1, FS_Subset
<1>3. IsFiniteSet(inFlight') /\ Cardinality(inFlight') = Cardinality(inFlight) - 1
  BY <1>2, FS_RemoveElement
<1>. QED  BY <1>1, <1>2, <1>3, FS_CardinalityType

\* The windows do not get to the bound at which the model stops counting them.
LEMMA WindowsBounded ==
  ASSUME TypeOK, ShutInv
  PROVE  windows < MaxStreak
<1>. USE BreakerAssumption DEF TypeOK
<1>1. IsFiniteSet(inFlight)
  BY FS_Subset
<1>2. Cardinality(inFlight) \in Nat /\ Cardinality(Workers) \in Nat
  BY <1>1, FS_CardinalityType
<1>3. CASE left = 0
  BY <1>2, <1>3 DEF ShutInv
<1>4. CASE left > 0
  <2>1. windows - 1 \in Nat
    BY <1>4 DEF ShutInv
  <2>2. (windows - 1) * MaxFailures >= windows - 1
    BY <2>1
  <2>3. (windows - 1) * MaxFailures \in Nat
    BY <2>1
  <2>. QED  BY <1>2, <1>4, <2>1, <2>2, <2>3 DEF ShutInv
<1>. QED  BY <1>3, <1>4

\* A failure that opens the circuit anew has used up MaxFailures requests.
LEMMA FailurePaid ==
  ASSUME TypeOK, ShutInv, RecordFailure, NEW w \in inFlight, inFlight' = inFlight \ {w}
  PROVE  ShutInv'
<1>. USE BreakerAssumption DEF TypeOK
<1>. DEFINE n == Cardinality(inFlight)
            W == Cardinality(Workers)
<1>1. n \in Nat /\ W \in Nat /\ Cardinality(inFlight') = n - 1 /\ n - 1 \in Nat /\ n <= W
  BY Fewer
<1>2. CASE consecutive + 1 >= MaxFailures
  <2>0. windows < MaxStreak
    BY WindowsBounded DEF ShutInv
  <2>1. /\ consecutive + 1 = MaxFailures /\ consecutive' = 0 /\ left' = OpenDuration
        /\ windows' = windows + 1 /\ shut' = shut
    BY <1>2, <2>0 DEF RecordFailure, Count
  <2>2. (windows + 1) * OpenDuration = windows * OpenDuration + OpenDuration
    OBVIOUS
  <2>3. CASE left = 0
    <3>1. windows' = 1 /\ shut' = 0
      BY <2>1, <2>3 DEF ShutInv
    <3>2. (windows' - 1) * MaxFailures = 0 /\ windows' * OpenDuration = OpenDuration
      BY <3>1
    <3>. QED  BY <1>1, <2>1, <3>1, <3>2 DEF ShutInv
  <2>4. CASE left > 0
    <3>1. /\ windows > 0 /\ shut + left <= windows * OpenDuration
          /\ (windows - 1) * MaxFailures + consecutive + n < W
      BY <2>4 DEF ShutInv
    <3>2. windows * MaxFailures = (windows - 1) * MaxFailures + MaxFailures
      BY <3>1
    <3>3. (windows - 1) * MaxFailures \in Nat /\ windows * OpenDuration \in Nat
      BY <3>1
    <3>4. windows' - 1 = windows
      BY <2>1
    <3>5. (windows' - 1) * MaxFailures + consecutive' + Cardinality(inFlight') < W
      BY <1>1, <2>1, <3>1, <3>2, <3>3, <3>4
    <3>6. shut' + left' <= windows' * OpenDuration
      BY <2>1, <2>2, <2>4, <3>1, <3>3
    <3>. QED  BY <2>1, <3>1, <3>5, <3>6 DEF ShutInv
  <2>. QED  BY <2>3, <2>4
<1>3. CASE ~(consecutive + 1 >= MaxFailures)
  <2>1. consecutive' = consecutive + 1 /\ left' = left /\ windows' = windows /\ shut' = shut
    BY <1>3 DEF RecordFailure, Count
  <2>2. windows > 0 => (windows - 1) * MaxFailures \in Nat
    OBVIOUS
  <2>. QED  BY <1>1, <2>1, <2>2 DEF ShutInv
<1>. QED  BY <1>2, <1>3

\* The invariant is inductive.
LEMMA ShutInductive == TypeOK /\ ShutInv /\ [Next]_vars => ShutInv'
<1>. SUFFICES ASSUME TypeOK, ShutInv, [Next]_vars PROVE ShutInv'
  OBVIOUS
<1>. USE BreakerAssumption DEF TypeOK, breakerVars, historyVars
<1>1. ASSUME NEW w \in Workers, Admit(w) PROVE ShutInv'
  BY <1>1 DEF Admit, Allow, ShutInv
<1>2. ASSUME NEW w \in Workers, NEW result \in {"success", "failure", "neutral"},
             Result(w, result)
      PROVE  ShutInv'
  <2>1. w \in inFlight /\ inFlight' = inFlight \ {w}
    BY <1>2 DEF Result
  <2>2. CASE RecordSuccess
    BY <2>2 DEF RecordSuccess, ShutInv
  <2>3. CASE RecordFailure
    BY <2>1, <2>3, FailurePaid
  <2>4. CASE UNCHANGED <<breakerVars, historyVars>>
    <3>1. /\ Cardinality(inFlight') \in Nat /\ Cardinality(Workers) \in Nat
          /\ Cardinality(inFlight') = Cardinality(inFlight) - 1 /\ Cardinality(inFlight) \in Nat
      BY <2>1, Fewer
    <3>2. windows > 0 => (windows - 1) * MaxFailures \in Nat
      OBVIOUS
    <3>. QED  BY <2>4, <3>1, <3>2 DEF ShutInv
  <2>. QED  BY <1>2, <2>2, <2>3, <2>4 DEF Result
<1>3. CASE Tick
  <2>1. CASE left = 1
    BY <1>3, <2>1 DEF Tick, ShutInv
  <2>2. CASE left # 1
    <3>1. left > 0 /\ left' > 0 /\ shut' + left' = shut + left /\ UNCHANGED <<windows, consecutive, inFlight>>
      BY <1>3, <2>2, WindowsBounded DEF Tick
    <3>. QED  BY <3>1 DEF ShutInv
  <2>. QED  BY <2>1, <2>2
<1>4. CASE UNCHANGED vars
  BY <1>4 DEF vars, ShutInv
<1>. QED  BY <1>1, <1>2, <1>3, <1>4 DEF Next

\* Late failures keep the circuit open for a number of windows that the pool
\* bounds, for every pool size, threshold and duration.
THEOREM ShutOutIsBounded == Spec => []ShutOutBounded
<1>1. Init => ShutInv
  BY DEF Init, ShutInv
<1>2. TypeOK /\ ShutInv => ShutOutBounded
  <2>. SUFFICES ASSUME TypeOK, ShutInv, left > 0 PROVE ShutOutBounded
    BY DEF ShutOutBounded
  <2>1. IsFiniteSet(inFlight) /\ IsFiniteSet(Workers)
    BY BreakerAssumption, FS_Subset DEF TypeOK
  <2>2. Cardinality(inFlight) \in Nat /\ Cardinality(Workers) \in Nat
    BY <2>1, FS_CardinalityType
  <2>3. windows > 0 /\ windows \in Nat /\ consecutive \in Nat /\ MaxFailures \in Nat
    BY BreakerAssumption DEF ShutInv, TypeOK
  <2>4. (windows - 1) * MaxFailures \in Nat
    BY <2>3
  <2>. QED  BY <2>2, <2>3, <2>4 DEF ShutInv, ShutOutBounded
<1>. QED  BY <1>1, <1>2, ShutInductive, BreakerTypeCorrect, PTL DEF Spec

===============================================================================
