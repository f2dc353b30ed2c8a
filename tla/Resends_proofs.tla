---------------------------- MODULE Resends_proofs ----------------------------
(***************************************************************************)
(* Proof about DeliveryPipeline that an attempt has at most one email more *)
(* than there were failures, under every kind of failure and for every     *)
(* number of tasks, pods, deliveries and attempts.                         *)
(***************************************************************************)
EXTENDS DeliveryPipeline_proofs, FiniteSetTheorems

\* A delivery here will send, or has tried without the provider accepting (an
\* answer that was lost is a failure), and gives its lock up in the end.
Paying == {"send", "retry", "dlq", "clear"}
Debtors(k) == {d \in Deliveries : worker[d].pc \in Paying /\ Key(d) = k}

\* The next delivery passes the gate, now or when the lock is old enough.
Open(k) ==
  \/ lock[k] = "absent"
  \/ lock[k] = "processing" /\ (k \in stale \/ \A d \in Deliveries : ~Holding(d, k))

\* The emails an attempt has, and those it can get without a further failure.
Exposure(k) == accepted[k] + Cardinality(Debtors(k)) + IF Open(k) THEN 1 ELSE 0

\* The inductive invariant: a failure raises the exposure by one, nothing else
\* does.
ResendInv == \A k \in Keys : Exposure(k) <= 1 + (MaxFaults - budget)

\* The debtors can be counted, before and after a step.
LEMMA DebtorsFinite ==
  ASSUME NEW k
  PROVE  /\ IsFiniteSet(Debtors(k)) /\ Cardinality(Debtors(k)) \in Nat
         /\ IsFiniteSet(Debtors(k)') /\ Cardinality(Debtors(k)') \in Nat
<1>1. Debtors(k) \subseteq Deliveries /\ Debtors(k)' \subseteq Deliveries
  BY DEF Debtors
<1>2. IsFiniteSet(Deliveries)
  BY ConstantsAssumption
<1>3. IsFiniteSet(Debtors(k)) /\ IsFiniteSet(Debtors(k)')
  BY <1>1, <1>2, FS_Subset
<1>. QED  BY <1>3, FS_CardinalityType

\* A step keeps the invariant for attempt k if it raises nothing, if it is a
\* failure and raises one thing by one, or if what it raises it lowers elsewhere.
LEMMA Balance ==
  ASSUME Typed, TypeOK', NEW k \in Keys, ResendInv, budget' <= budget,
         \/ /\ accepted'[k] = accepted[k] /\ Debtors(k)' \subseteq Debtors(k)
            /\ (Open(k)' => Open(k)) \/ budget' = budget - 1
         \/ /\ accepted'[k] <= accepted[k] + 1 /\ Debtors(k)' \subseteq Debtors(k)
            /\ Open(k)' => Open(k)
            /\ budget' = budget - 1
         \/ /\ accepted'[k] = accepted[k] /\ Open(k) /\ ~Open(k)'
            /\ \E d \in Deliveries : Debtors(k)' \subseteq Debtors(k) \cup {d}
         \/ /\ \E d \in Debtors(k) : Debtors(k)' \subseteq Debtors(k) \ {d}
            /\ \/ accepted'[k] = accepted[k]
               \/ accepted'[k] <= accepted[k] + 1 /\ (Open(k)' => Open(k))
  PROVE  Exposure(k)' <= 1 + (MaxFaults - budget')
<1>. DEFINE D == Cardinality(Debtors(k))
            E == Cardinality(Debtors(k)')
            o == IF Open(k) THEN 1 ELSE 0
            q == IF Open(k)' THEN 1 ELSE 0
<1>1. /\ accepted[k] \in Nat /\ accepted'[k] \in Nat /\ budget \in Nat /\ budget' \in Nat
      /\ MaxFaults \in Nat /\ D \in Nat /\ E \in Nat
  BY ConstantsAssumption, DebtorsFinite DEF Typed, TypeOK
<1>2. accepted[k] + D + o <= 1 + (MaxFaults - budget)
  BY DEF ResendInv, Exposure
<1>3. Exposure(k)' = accepted'[k] + E + q
  BY DEF Exposure
<1>4. ASSUME Debtors(k)' \subseteq Debtors(k) PROVE E <= D
  BY <1>4, DebtorsFinite, FS_Subset
<1>5. ASSUME NEW d \in Debtors(k), Debtors(k)' \subseteq Debtors(k) \ {d} PROVE E <= D - 1
  <2>1. IsFiniteSet(Debtors(k) \ {d}) /\ Cardinality(Debtors(k) \ {d}) = D - 1
    BY <1>5, DebtorsFinite, FS_RemoveElement
  <2>. QED  BY <1>5, <2>1, FS_Subset
<1>6. ASSUME NEW d \in Deliveries, Debtors(k)' \subseteq Debtors(k) \cup {d} PROVE E <= D + 1
  <2>1. /\ IsFiniteSet(Debtors(k) \cup {d})
        /\ Cardinality(Debtors(k) \cup {d}) \in {D, D + 1}
    BY DebtorsFinite, FS_AddElement
  <2>2. E <= Cardinality(Debtors(k) \cup {d})
    BY <1>6, <2>1, FS_Subset
  <2>. QED  BY <1>1, <2>1, <2>2
<1>7. o \in {0, 1} /\ q \in {0, 1} /\ (Open(k) <=> o = 1) /\ (Open(k)' <=> q = 1)
  OBVIOUS
<1>. HIDE DEF D, E, o, q
<1>8. accepted'[k] + E + q <= 1 + (MaxFaults - budget')
  <2>1. CASE /\ accepted'[k] = accepted[k] /\ Debtors(k)' \subseteq Debtors(k)
             /\ (Open(k)' => Open(k)) \/ budget' = budget - 1
    BY <1>1, <1>2, <1>4, <1>7, <2>1
  <2>2. CASE /\ accepted'[k] <= accepted[k] + 1 /\ Debtors(k)' \subseteq Debtors(k)
             /\ Open(k)' => Open(k)
             /\ budget' = budget - 1
    BY <1>1, <1>2, <1>4, <1>7, <2>2
  <2>3. CASE /\ accepted'[k] = accepted[k] /\ Open(k) /\ ~Open(k)'
             /\ \E d \in Deliveries : Debtors(k)' \subseteq Debtors(k) \cup {d}
    BY <1>1, <1>2, <1>6, <1>7, <2>3
  <2>4. CASE /\ \E d \in Debtors(k) : Debtors(k)' \subseteq Debtors(k) \ {d}
             /\ \/ accepted'[k] = accepted[k]
                \/ accepted'[k] <= accepted[k] + 1 /\ (Open(k)' => Open(k))
    BY <1>1, <1>2, <1>5, <1>7, <2>4
  <2>. QED  BY <2>1, <2>2, <2>3, <2>4
<1>. QED  BY <1>3, <1>8

\* Who holds an attempt, and who is a debtor, after a step that moves no
\* delivery into or out of these places.
LEMMA SamePlaces ==
  ASSUME Typed, NEW k \in Keys,
         \A d \in Deliveries :
           \/ worker'[d].pc \notin HoldPcs /\ worker[d].pc \notin HoldPcs
           \/ worker'[d] = worker[d] /\ Key(d)' = Key(d)
  PROVE  /\ Debtors(k)' = Debtors(k)
         /\ \A d \in Deliveries : Holding(d, k)' <=> Holding(d, k)
<1>1. Paying \subseteq HoldPcs
  BY DEF Paying, HoldPcs
<1>2. \A d \in Deliveries : Holding(d, k)' <=> Holding(d, k)
  BY DEF Holding
<1>3. \A d \in Deliveries : (worker'[d].pc \in Paying /\ Key(d)' = k)
                            <=> (worker[d].pc \in Paying /\ Key(d) = k)
  BY <1>1
<1>. QED  BY <1>2, <1>3 DEF Debtors

\* The same for a step of delivery d.
LEMMA ProcessPlaces ==
  ASSUME Typed, NEW d \in Deliveries, Process(d), NEW k \in Keys
  PROVE  /\ Key(d) \in Keys /\ stream' = stream
         /\ \A e \in Deliveries : e # d => /\ e \in Debtors(k)' <=> e \in Debtors(k)
                                           /\ Holding(e, k)' <=> Holding(e, k)
         /\ d \in Debtors(k)' <=> worker'[d].pc \in Paying /\ Key(d) = k
         /\ Holding(d, k)' <=> worker'[d].pc \in HoldPcs /\ Key(d) = k
<1>1. /\ \A e \in Deliveries : e # d => worker'[e] = worker[e]
      /\ worker'[d].pc # "none" => worker'[d].msg = worker[d].msg
      /\ Key(d) \in Keys
  BY ProcessKeeps, KeyType
<1>2. stream' = stream
  BY DEF Process, SetProcessing, IsCompleted, TryReclaimStale, SendOk, SendTransient, SendPermanent,
     SendPanic, Acknowledge, SetCompleted, ScheduleRetry, SendToDLQ, ClearProcessing, redisVars
<1>3. "none" \notin Paying /\ "none" \notin HoldPcs
  BY DEF Paying, HoldPcs
<1>. QED  BY <1>1, <1>2, <1>3 DEF Debtors, Holding, Key

\* Failures only use the budget up.
LEMMA BudgetSpent ==
  ASSUME Typed, [Next]_vars
  PROVE  budget' \in Int /\ budget' <= budget
<1>1. budget \in Nat
  BY ConstantsAssumption DEF Typed, TypeOK
<1>2. \/ budget' = budget
      \/ budget' = budget - 1
  BY DEF Next, vars, Enqueue, Receive, ReadGroup, ClaimStale, Process, SetProcessing, IsCompleted,
     TryReclaimStale, SendOk, SendTransient, SendPermanent, SendPanic, Acknowledge, SetCompleted,
     ScheduleRetry, SendToDLQ, ClearProcessing, Flush, FlushRead, FlushXadd, FlushZrem, FlushBroken,
     Crash, Time, AgeEntry, AgeLock, ExpireLock, Fault
<1>. QED  BY <1>1, <1>2

\* A step of a delivery does not touch the other attempts.
LEMMA OtherAttempts ==
  ASSUME Typed, NEW d \in Deliveries, Process(d), NEW k \in Keys, k # Key(d)
  PROVE  /\ accepted'[k] = accepted[k]
         /\ Debtors(k)' = Debtors(k)
         /\ Open(k)' <=> Open(k)
<1>. TypeOK
  BY DEF Typed
<1>1. Debtors(k)' = Debtors(k)
  <2>1. d \notin Debtors(k) /\ d \notin Debtors(k)'
    BY ProcessPlaces DEF Debtors
  <2>2. Debtors(k) \subseteq Deliveries /\ Debtors(k)' \subseteq Deliveries
    BY DEF Debtors
  <2>. QED  BY <2>1, <2>2, ProcessPlaces
<1>2. \A e \in Deliveries : Holding(e, k)' <=> Holding(e, k)
  BY ProcessPlaces DEF Holding
<1>3. lock'[k] = lock[k] /\ (k \in stale' <=> k \in stale)
  BY DEF TypeOK, Process, SetProcessing, IsCompleted, TryReclaimStale, SendOk, SendTransient,
     SendPermanent, SendPanic, Acknowledge, SetCompleted, ScheduleRetry, SendToDLQ, ClearProcessing,
     redisVars
<1>4. accepted'[k] = accepted[k]
  <2>1. CASE accepted' = Bump(accepted, Key(d))
    BY <2>1, BumpType, ProcessPlaces DEF TypeOK
  <2>. QED
    BY <2>1 DEF Process, SetProcessing, IsCompleted, TryReclaimStale, SendOk, SendTransient,
       SendPermanent, SendPanic, Acknowledge, SetCompleted, ScheduleRetry, SendToDLQ, ClearProcessing,
       historyVars
<1>. QED  BY <1>1, <1>2, <1>3, <1>4 DEF Open

\* A capped count goes up by one at most.
LEMMA BumpByOne ==
  ASSUME Typed, NEW k \in Keys, accepted' = Bump(accepted, k)
  PROVE  accepted'[k] <= accepted[k] + 1
<1>1. accepted \in [Keys -> 0 .. Cap] /\ Cap \in Nat
  BY ConstantsAssumption DEF Typed, TypeOK
<1>. QED  BY <1>1 DEF Bump

\* Where the debtors of its own attempt are after a step of a delivery.
LEMMA OwnDebtors ==
  ASSUME Typed, NEW d \in Deliveries, Process(d), NEW k \in Keys, k = Key(d)
  PROVE  /\ Debtors(k)' \subseteq Debtors(k) \cup {d}
         /\ worker'[d].pc \notin Paying => Debtors(k)' \subseteq Debtors(k) \ {d}
         /\ worker[d].pc \in Paying => d \in Debtors(k) /\ Debtors(k)' \subseteq Debtors(k)
<1>1. Debtors(k) \subseteq Deliveries /\ Debtors(k)' \subseteq Deliveries
  BY DEF Debtors
<1>2. worker[d].pc \in Paying => d \in Debtors(k)
  BY DEF Debtors
<1>. QED  BY <1>1, <1>2, ProcessPlaces

\* A step that leaves the lock of attempt k alone, and none of its holders
\* behind, does not open it.
LEMMA StaysShut ==
  ASSUME NEW k \in Keys, lock'[k] = lock[k], k \in stale' => k \in stale,
         \A d \in Deliveries : Holding(d, k) => Holding(d, k)'
  PROVE  Open(k)' => Open(k)
BY DEF Open

\* A step of a delivery keeps the invariant for the attempt it works on.
LEMMA OwnAttempt ==
  ASSUME Typed, TypeOK', NEW d \in Deliveries, Process(d), NEW k \in Keys, k = Key(d),
         ResendInv, budget' <= budget
  PROVE  Exposure(k)' <= 1 + (MaxFaults - budget')
<1>. USE DEF redisVars, historyVars
<1>. TypeOK /\ lock \in [Keys -> Statuses]
  BY DEF Typed, TypeOK
<1>. DEFINE pc == worker[d].pc
            pd == worker'[d].pc
<1>1. /\ Debtors(k)' \subseteq Debtors(k) \cup {d}
      /\ pd \notin Paying => Debtors(k)' \subseteq Debtors(k) \ {d}
      /\ pc \in Paying => d \in Debtors(k) /\ Debtors(k)' \subseteq Debtors(k)
  BY OwnDebtors
<1>2. /\ \A e \in Deliveries : e # d => (Holding(e, k)' <=> Holding(e, k))
      /\ Holding(d, k)' <=> pd \in HoldPcs
      /\ Holding(d, k) <=> pc \in HoldPcs
  BY ProcessPlaces DEF Holding
<1>3. ASSUME UNCHANGED <<lock, stale>>, pd \in HoldPcs \/ pc \notin HoldPcs
      PROVE  Open(k)' => Open(k)
  BY <1>2, <1>3, StaysShut
<1>4. CASE SetProcessing(d)
  <2>1. CASE Acquirable(Key(d)) /\ lock' = [lock EXCEPT ![Key(d)] = "processing"]
             /\ stale' = stale \ {Key(d)} /\ Goto(d, "send")
    <3>1. Open(k) /\ lock'[k] = "processing" /\ k \notin stale'
      BY <2>1 DEF Open, Acquirable
    <3>2. pd = "send"
      BY <2>1, GotoType DEF Pcs
    <3>3. Holding(d, k)'
      BY <1>2, <3>2 DEF HoldPcs
    <3>4. ~Open(k)'
      BY <3>1, <3>3 DEF Open
    <3>. QED  BY <1>1, <1>4, <3>1, <3>4, Balance DEF SetProcessing
  <2>2. CASE Goto(d, "check")
    <3>1. pd \notin Paying
      BY <2>2, GotoType DEF Pcs, Paying
    <3>2. pc \notin HoldPcs
      BY <1>4 DEF SetProcessing, HoldPcs
    <3>3. Open(k)' => Open(k)
      <4>1. CASE UNCHANGED <<lock, stale>>
        BY <1>3, <3>2, <4>1
      <4>2. CASE Acquirable(Key(d))
        BY <4>2 DEF Open, Acquirable
      <4>. QED  BY <1>4, <4>1, <4>2 DEF SetProcessing
    <3>. QED  BY <1>1, <1>4, <3>1, <3>3, Balance DEF SetProcessing
  <2>. QED  BY <1>4, <2>1, <2>2 DEF SetProcessing
<1>5. CASE IsCompleted(d)
  <2>1. pd \notin Paying /\ pc \notin HoldPcs
    BY <1>5, GotoType DEF IsCompleted, Pcs, Paying, HoldPcs
  <2>. QED  BY <1>1, <1>3, <1>5, <2>1, Balance DEF IsCompleted
<1>6. CASE TryReclaimStale(d)
  <2>1. pc \notin HoldPcs
    BY <1>6 DEF TryReclaimStale, HoldPcs
  <2>2. CASE Reclaimable(Key(d)) /\ stale' = stale \ {Key(d)} /\ Goto(d, "send")
    <3>1. Open(k) /\ lock'[k] = "processing" /\ k \notin stale'
      BY <1>6, <2>2 DEF Open, Reclaimable, TryReclaimStale
    <3>2. pd = "send"
      BY <2>2, GotoType DEF Pcs
    <3>3. Holding(d, k)'
      BY <1>2, <3>2 DEF HoldPcs
    <3>4. ~Open(k)'
      BY <3>1, <3>3 DEF Open
    <3>. QED  BY <1>1, <1>6, <3>1, <3>4, Balance DEF TryReclaimStale
  <2>3. CASE Finish(d)
    <3>1. pd \notin Paying
      BY <2>3, FinishType DEF NoWork, Paying
    <3>2. Open(k)' => Open(k)
      <4>1. CASE UNCHANGED <<lock, stale>>
        BY <1>3, <2>1, <4>1
      <4>2. CASE Reclaimable(Key(d))
        BY <4>2 DEF Open, Reclaimable
      <4>. QED  BY <1>6, <4>1, <4>2 DEF TryReclaimStale
    <3>. QED  BY <1>1, <1>6, <3>1, <3>2, Balance DEF TryReclaimStale
  <2>. QED  BY <1>6, <2>2, <2>3 DEF TryReclaimStale
<1>7. CASE SendOk(d)
  <2>1. pd = "ackSent" /\ pc = "send"
    BY <1>7, GotoType DEF SendOk, Calls, Pcs
  <2>2. Open(k)' => Open(k)
    BY <1>3, <1>7, <2>1 DEF SendOk, HoldPcs
  <2>3. accepted'[k] <= accepted[k] + 1
    BY <1>7, BumpByOne DEF SendOk
  <2>4. d \in Debtors(k) /\ Debtors(k)' \subseteq Debtors(k) \ {d}
    BY <1>1, <2>1 DEF Paying
  <2>. QED  BY <2>2, <2>3, <2>4, Balance
<1>8. ASSUME NEW e \in TransientErrors, SendTransient(d, e)
      PROVE  Exposure(k)' <= 1 + (MaxFaults - budget')
  <2>1. pd \in {"retry", "dlq"} /\ pc = "send"
    BY <1>8 DEF SendTransient, Calls, TypeOK, WorkerStates
  <2>2. Open(k)' => Open(k)
    BY <1>3, <1>8, <2>1 DEF SendTransient, HoldPcs
  <2>3. \/ accepted' = accepted
        \/ accepted'[k] <= accepted[k] + 1 /\ budget' = budget - 1
    BY <1>8, BumpByOne DEF SendTransient, Fault
  <2>4. Debtors(k)' \subseteq Debtors(k)
    BY <1>1, <2>1 DEF Paying
  <2>. QED  BY <2>2, <2>3, <2>4, Balance
<1>9. CASE SendPermanent(d)
  <2>1. pd = "dlq" /\ pc = "send"
    BY <1>9, GotoType DEF SendPermanent, Calls, Pcs
  <2>. QED  BY <1>1, <1>3, <1>9, <2>1, Balance DEF SendPermanent, HoldPcs, Paying
<1>10. CASE SendPanic(d)
  <2>1. pd = "none" /\ pc = "send"
    BY <1>10, FinishType DEF SendPanic, Calls, NoWork
  <2>. QED  BY <1>1, <1>10, <2>1, Balance DEF SendPanic, Paying
<1>11. CASE Acknowledge(d)
  <2>1. pd \notin Paying /\ (pd \in HoldPcs \/ pc \notin HoldPcs)
    BY <1>11, GotoType, FinishType DEF Acknowledge, NoWork, Pcs, Paying, HoldPcs
  <2>. QED  BY <1>1, <1>3, <1>11, <2>1, Balance DEF Acknowledge
<1>12. CASE SetCompleted(d)
  <2>1. pd \notin Paying
    BY <1>12, FinishType DEF SetCompleted, NoWork, Paying
  <2>2. (Open(k)' => Open(k)) \/ budget' = budget - 1
    BY <1>12 DEF SetCompleted, Open, Fault
  <2>. QED  BY <1>1, <1>12, <2>1, <2>2, Balance DEF SetCompleted
<1>13. CASE ScheduleRetry(d) \/ SendToDLQ(d)
  <2>1. pc \in Paying /\ accepted' = accepted /\ UNCHANGED <<lock, stale>>
    BY <1>13 DEF ScheduleRetry, SendToDLQ, Paying
  <2>2. CASE Goto(d, "ack")
    BY <1>1, <2>1, <2>2, GotoType, Balance DEF Pcs, Paying
  <2>3. CASE Goto(d, "clear")
    <3>1. pd \in HoldPcs
      BY <2>3, GotoType DEF Pcs, HoldPcs
    <3>. QED  BY <1>1, <1>3, <2>1, <3>1, Balance
  <2>4. CASE UNCHANGED worker
    BY <1>1, <1>3, <2>1, <2>4, Balance
  <2>. QED  BY <1>13, <2>2, <2>3, <2>4 DEF ScheduleRetry, SendToDLQ
<1>14. CASE ClearProcessing(d)
  <2>1. pd = "none" /\ pc = "clear"
    BY <1>14, FinishType DEF ClearProcessing, NoWork
  <2>. QED  BY <1>1, <1>14, <2>1, Balance DEF ClearProcessing, Paying
<1>. QED  BY <1>4, <1>5, <1>6, <1>7, <1>8, <1>9, <1>10, <1>11, <1>12, <1>13, <1>14 DEF Process

\* Every step keeps the invariant.
LEMMA ResendNext ==
  ASSUME Typed, ResendInv, [Next]_vars PROVE ResendInv'
<1>. USE DEF redisVars, historyVars
<1>. TypeOK /\ Typed' /\ TypeOK'
  BY TypedNext DEF Typed
<1>. SUFFICES ASSUME NEW k \in Keys PROVE Exposure(k)' <= 1 + (MaxFaults - budget')
  BY DEF ResendInv
<1>1. budget' \in Int /\ budget' <= budget
  BY BudgetSpent
<1>2. ASSUME UNCHANGED <<lock, stale, accepted>>,
             \A d \in Deliveries :
               \/ worker'[d].pc \notin HoldPcs /\ worker[d].pc \notin HoldPcs
               \/ worker'[d] = worker[d] /\ Key(d)' = Key(d)
      PROVE  Exposure(k)' <= 1 + (MaxFaults - budget')
  <2>1. /\ Debtors(k)' = Debtors(k)
        /\ \A d \in Deliveries : Holding(d, k)' <=> Holding(d, k)
    BY <1>2, SamePlaces
  <2>2. Open(k)' => Open(k)
    BY <1>2, <2>1, StaysShut
  <2>. QED  BY <1>1, <1>2, <2>1, <2>2, Balance
<1>3. ASSUME UNCHANGED worker
      PROVE  \A d \in Deliveries :
               \/ worker'[d].pc \notin HoldPcs /\ worker[d].pc \notin HoldPcs
               \/ worker'[d] = worker[d] /\ Key(d)' = Key(d)
  <2>. SUFFICES ASSUME NEW d \in Deliveries, worker[d].pc \in HoldPcs PROVE Key(d)' = Key(d)
    BY <1>3
  <2>1. Busy(d)
    BY DEF Busy, HoldPcs
  <2>. QED  BY <1>3, <2>1, KeyType, Growth DEF Key
<1>4. CASE UNCHANGED <<worker, lock, stale, accepted>>
  BY <1>2, <1>3, <1>4
<1>5. ASSUME NEW d \in Deliveries, Receive(d)
      PROVE  Exposure(k)' <= 1 + (MaxFaults - budget')
  <2>1. UNCHANGED <<lock, stale, accepted, stream>>
    BY <1>5 DEF Receive, ReadGroup, ClaimStale
  <2>2. \A e \in Deliveries :
          \/ worker'[e].pc \notin HoldPcs /\ worker[e].pc \notin HoldPcs
          \/ worker'[e] = worker[e] /\ Key(e)' = Key(e)
    <3>1. CASE UNCHANGED worker
      BY <1>3, <3>1
    <3>2. ASSUME NEW m, Start(d, m)
          PROVE  /\ worker'[d].pc = "gate" /\ worker[d].pc = "none"
                 /\ \A e \in Deliveries : e # d => worker'[e] = worker[e]
      BY <3>2 DEF Start, Busy, TypeOK
    <3>3. UNCHANGED worker \/ \E m : Start(d, m)
      BY <1>5 DEF Receive, ReadGroup, ClaimStale
    <3>4. "gate" \notin HoldPcs /\ "none" \notin HoldPcs
      BY DEF HoldPcs
    <3>. QED  BY <2>1, <3>1, <3>2, <3>3, <3>4 DEF Key
  <2>. QED  BY <1>2, <2>1, <2>2
<1>6. ASSUME NEW d \in Deliveries, Process(d)
      PROVE  Exposure(k)' <= 1 + (MaxFaults - budget')
  <2>1. CASE k = Key(d)
    BY <1>1, <1>6, <2>1, OwnAttempt
  <2>2. CASE k # Key(d)
    BY <1>1, <1>6, <2>2, OtherAttempts, Balance
  <2>. QED  BY <2>1, <2>2
<1>7. ASSUME NEW p \in Pods, Crash(p)
      PROVE  Exposure(k)' <= 1 + (MaxFaults - budget')
  <2>1. Debtors(k)' \subseteq Debtors(k)
    <3>1. \A d \in Deliveries : worker'[d] = worker[d] \/ worker'[d].pc = "none"
      BY <1>7 DEF Crash, NoWork
    <3>2. "none" \notin Paying /\ stream' = stream
      BY <1>7 DEF Paying, Crash
    <3>. QED  BY <3>1, <3>2 DEF Debtors, Key
  <2>. QED  BY <1>1, <1>7, <2>1, Balance DEF Crash, Fault
<1>8. ASSUME NEW j \in Keys, AgeLock(j)
      PROVE  Exposure(k)' <= 1 + (MaxFaults - budget')
  <2>1. /\ Debtors(k)' = Debtors(k)
        /\ \A d \in Deliveries : Holding(d, k)' <=> Holding(d, k)
    BY <1>3, <1>8, SamePlaces DEF AgeLock
  <2>2. (Open(k)' => Open(k)) \/ budget' = budget - 1
    BY <1>8, <2>1 DEF AgeLock, Open, Fault
  <2>. QED  BY <1>1, <1>8, <2>1, <2>2, Balance DEF AgeLock
<1>9. ASSUME NEW j \in Keys, ExpireLock(j)
      PROVE  Exposure(k)' <= 1 + (MaxFaults - budget')
  <2>1. Debtors(k)' = Debtors(k)
    BY <1>3, <1>9, SamePlaces DEF ExpireLock
  <2>. QED  BY <1>1, <1>9, <2>1, Balance DEF ExpireLock, Fault
<1>10. ASSUME NEW p \in Pods, Flush(p) \/ FlushBroken(p)
       PROVE  UNCHANGED <<worker, lock, stale, accepted>>
  BY <1>10 DEF Flush, FlushRead, FlushXadd, FlushZrem, FlushBroken
<1>11. ASSUME (\E t \in Tasks : Enqueue(t)) \/ (\E m \in pel : AgeEntry(m)) \/ UNCHANGED vars
       PROVE  UNCHANGED <<worker, lock, stale, accepted>>
  BY <1>11 DEF Enqueue, AgeEntry, vars
<1>. QED  BY <1>4, <1>5, <1>6, <1>7, <1>8, <1>9, <1>10, <1>11 DEF Next, Time

\* Nothing is sent, and nobody works, in the beginning: every attempt is open
\* for its first email.
LEMMA ResendInit == Init => ResendInv
<1>. SUFFICES ASSUME Init, NEW k \in Keys PROVE Exposure(k) <= 1 + (MaxFaults - budget)
  BY DEF ResendInv
<1>1. Debtors(k) = {}
  BY DEF Init, Debtors, NoWork, Paying
<1>2. accepted[k] = 0 /\ lock[k] = "absent" /\ budget = MaxFaults /\ MaxFaults \in Nat
  BY ConstantsAssumption DEF Init
<1>3. Cardinality(Debtors(k)) = 0
  BY <1>1, FS_EmptySet
<1>. QED  BY <1>2, <1>3 DEF Exposure, Open

\* The number of emails of an attempt exceeds one by no more than the number of
\* failures so far, whichever commands, pods, locks and answers they hit: the
\* gate of processTask and the records it writes limit what one failure costs.
THEOREM ResendsBounded == Spec => []ResendsCostFailures
<1>1. Init => Typed /\ ResendInv
  BY TypedInit, ResendInit
<1>2. Typed /\ ResendInv /\ [Next]_vars => (Typed /\ ResendInv)'
  BY TypedNext, ResendNext
<1>3. Typed /\ ResendInv => ResendsCostFailures
  <2>. SUFFICES ASSUME Typed, ResendInv, NEW k \in Keys
                PROVE  accepted[k] <= 1 + (MaxFaults - budget)
    BY DEF ResendsCostFailures
  <2>1. accepted[k] \in Nat /\ budget \in Nat /\ MaxFaults \in Nat
    BY ConstantsAssumption DEF Typed, TypeOK
  <2>2. Cardinality(Debtors(k)) \in Nat
    BY DebtorsFinite
  <2>3. Exposure(k) <= 1 + (MaxFaults - budget)
    BY DEF ResendInv
  <2>. QED  BY <2>1, <2>2, <2>3 DEF Exposure
<1>. QED  BY <1>1, <1>2, <1>3, PTL DEF Spec

===============================================================================
