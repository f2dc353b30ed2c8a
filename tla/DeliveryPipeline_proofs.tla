------------------------ MODULE DeliveryPipeline_proofs ------------------------
(***************************************************************************)
(* Proofs about DeliveryPipeline, for every set of tasks, pods, deliveries *)
(* and failures, every MaxAttempts and every bound.                        *)
(***************************************************************************)
EXTENDS DeliveryPipeline, TLAPS

-------------------------------------------------------------------------------
(* Types *)

\* A busy delivery carries an entry that was read; one about to schedule a
\* retry carries a retryable attempt and the error text of its failure.
WorkersOK ==
  \A d \in Deliveries :
    /\ Busy(d) => worker[d].msg \in 1 .. lastRead
    /\ worker[d].pc = "retry" => IsRetryable(Key(d)) /\ worker[d].err \in TransientErrors

Typed == TypeOK /\ WorkersOK

\* The attempt a busy delivery works on is an attempt.
LEMMA KeyType ==
  ASSUME Typed, NEW d \in Deliveries, Busy(d)
  PROVE  /\ worker[d].msg \in 1 .. Len(stream)
         /\ worker[d].msg \in 1 .. lastRead
         /\ Key(d) \in Keys
         /\ Key(d).task \in Tasks
         /\ Key(d).attempt \in Attempts
<1>1. worker[d].msg \in 1 .. lastRead /\ lastRead \in 0 .. Len(stream)
  BY DEF Typed, TypeOK, WorkersOK
<1>2. worker[d].msg \in 1 .. Len(stream)
  BY <1>1
<1>3. Key(d) \in Keys
  BY <1>2 DEF Typed, TypeOK, Key
<1>. QED  BY <1>1, <1>2, <1>3 DEF Keys

\* The length of a sequence is a number.
LEMMA LengthType ==
  ASSUME NEW S, NEW s \in Seq(S)
  PROVE  Len(s) \in Nat
OBVIOUS

\* What the type invariant says of the stream and the group's position in it.
LEMMA StreamType ==
  ASSUME TypeOK
  PROVE  /\ stream \in Seq(Keys)
         /\ Len(stream) \in Nat
         /\ lastRead \in 0 .. Len(stream)
<1>1. stream \in Seq(Keys) /\ lastRead \in 0 .. Len(stream)
  BY DEF TypeOK
<1>. QED  BY <1>1, LengthType

\* XADD keeps the entries that are there and adds one behind them.
LEMMA XaddFacts ==
  ASSUME stream \in Seq(Keys), NEW k \in Keys, Xadd(k)
  PROVE  /\ stream' \in Seq(Keys)
         /\ Len(stream') = Len(stream) + 1
         /\ \A i \in 1 .. Len(stream) : stream'[i] = stream[i]
         /\ stream'[Len(stream) + 1] = k
BY DEF Xadd

\* A capped count stays a count, and positive once it is.
LEMMA BumpType ==
  ASSUME NEW f \in [Keys -> 0 .. Cap], NEW k \in Keys
  PROVE  /\ Bump(f, k) \in [Keys -> 0 .. Cap]
         /\ Bump(f, k)[k] > 0
         /\ \A j \in Keys : f[j] > 0 => Bump(f, k)[j] > 0
         /\ \A j \in Keys : j # k => Bump(f, k)[j] = f[j]
BY ConstantsAssumption DEF Bump

\* A failure uses up budget and leaves the rest within its bound.
LEMMA FaultType ==
  ASSUME TypeOK, NEW kind, Fault(kind)
  PROVE  budget' \in 0 .. MaxFaults
BY ConstantsAssumption DEF TypeOK, Fault

\* What a delivery's record becomes in its own steps.
LEMMA GotoType ==
  ASSUME TypeOK, NEW d \in Deliveries, NEW pc \in Pcs, Goto(d, pc)
  PROVE  /\ worker' \in [Deliveries -> WorkerStates]
         /\ worker'[d].pc = pc
         /\ worker'[d].msg = worker[d].msg
         /\ worker'[d].err = worker[d].err
         /\ \A e \in Deliveries : e # d => worker'[e] = worker[e]
BY DEF TypeOK, Goto, WorkerStates

\* Finish leaves the other deliveries alone.
LEMMA FinishType ==
  ASSUME TypeOK, NEW d \in Deliveries, Finish(d)
  PROVE  /\ worker' \in [Deliveries -> WorkerStates]
         /\ worker'[d] = NoWork
         /\ \A e \in Deliveries : e # d => worker'[e] = worker[e]
BY DEF TypeOK, Finish, WorkerStates, NoWork, Pcs

\* Start puts one idle delivery at the gate.
LEMMA StartType ==
  ASSUME TypeOK, NEW d \in Deliveries, NEW m \in Nat, Start(d, m)
  PROVE  /\ worker' \in [Deliveries -> WorkerStates]
         /\ worker'[d] = [pc |-> "gate", msg |-> m, err |-> "none"]
         /\ \A e \in Deliveries : e # d => worker'[e] = worker[e]
         /\ ~Busy(d)
BY DEF TypeOK, Start, WorkerStates, Pcs

\* A step of one delivery that leaves the stream alone keeps the deliveries
\* well-formed if it keeps that delivery so.
LEMMA WorkersOKStep ==
  ASSUME Typed, NEW d \in Deliveries,
         stream' = stream, lastRead' = lastRead,
         \A e \in Deliveries : e # d => worker'[e] = worker[e],
         worker'[d].pc # "none" => worker'[d].msg \in 1 .. lastRead,
         worker'[d].pc = "retry" =>
           IsRetryable(stream[worker'[d].msg]) /\ worker'[d].err \in TransientErrors
  PROVE  WorkersOK'
BY DEF Typed, WorkersOK, Busy, Key, IsRetryable

\* Appending to the stream does not disturb the deliveries.
LEMMA WorkersOKXadd ==
  ASSUME Typed, NEW k \in Keys, Xadd(k), UNCHANGED <<lastRead, worker>>
  PROVE  /\ WorkersOK'
         /\ lastRead' \in 0 .. Len(stream')
         /\ stream' \in Seq(Keys)
<1>1. /\ stream' \in Seq(Keys) /\ Len(stream') = Len(stream) + 1 /\ Len(stream) \in Nat
      /\ \A i \in 1 .. Len(stream) : stream'[i] = stream[i]
  BY StreamType, XaddFacts DEF Typed
<1>2. lastRead \in 0 .. Len(stream)
  BY StreamType DEF Typed
<1>3. lastRead' \in 0 .. Len(stream')
  BY <1>1, <1>2
<1>4. ASSUME NEW d \in Deliveries
      PROVE  /\ Busy(d)' => worker'[d].msg \in 1 .. lastRead'
             /\ worker'[d].pc = "retry" => IsRetryable(Key(d))' /\ worker'[d].err \in TransientErrors
  <2>1. worker[d].pc = "retry" => worker[d].msg \in 1 .. Len(stream)
    BY <1>2 DEF Typed, WorkersOK, Busy
  <2>. QED  BY <1>1, <2>1 DEF Typed, WorkersOK, Busy, Key, IsRetryable
<1>. QED  BY <1>1, <1>3, <1>4 DEF WorkersOK

\* The initial state is well typed.
LEMMA TypedInit == Init => Typed
BY ConstantsAssumption DEF Init, Typed, TypeOK, WorkersOK, Busy, NoWork, WorkerStates,
   Pcs, Statuses, IsRetryable

\* Every step keeps the types, one case per action.
LEMMA TypedNext == Typed /\ [Next]_vars => Typed'
<1>. SUFFICES ASSUME Typed, [Next]_vars PROVE Typed'
  OBVIOUS
<1>. TypeOK /\ WorkersOK
  BY DEF Typed
<1>. USE DEF redisVars, historyVars
<1>1. ASSUME NEW t \in Tasks, Enqueue(t) PROVE Typed'
  <2>1. attemptKey(t, 0) \in Keys
    BY ConstantsAssumption DEF attemptKey, Keys, Attempts
  <2>2. budget' \in 0 .. MaxFaults
    BY <1>1, FaultType DEF Enqueue, TypeOK
  <2>3. Xadd(attemptKey(t, 0)) /\ UNCHANGED <<lastRead, pel, idle, lock, stale, retrySet,
          batch, todo, dlq, accepted, tried, scheduled, worker>>
    BY <1>1 DEF Enqueue
  <2>4. WorkersOK' /\ lastRead' \in 0 .. Len(stream') /\ stream' \in Seq(Keys)
    BY <2>1, <2>3, WorkersOKXadd
  <2>5. TypeOK'
    BY <2>2, <2>3, <2>4 DEF TypeOK
  <2>. QED  BY <2>4, <2>5 DEF Typed
<1>2. ASSUME NEW d \in Deliveries, ReadGroup(d) PROVE Typed'
  <2>1. /\ lastRead' = lastRead + 1 /\ lastRead < Len(stream) /\ pel' = pel \cup {lastRead + 1}
        /\ UNCHANGED <<stream, idle, lock, stale, retrySet, batch, todo, dlq, accepted, tried, scheduled>>
    BY <1>2 DEF ReadGroup
  <2>2. lastRead \in Nat /\ Len(stream) \in Nat
    BY StreamType
  <2>0. /\ stream' \in Seq(Keys) /\ lastRead' \in 0 .. Len(stream')
        /\ pel' \subseteq 1 .. lastRead' /\ idle' \subseteq pel'
    <3>1. stream \in Seq(Keys) /\ pel \subseteq 1 .. lastRead /\ idle \subseteq pel
      BY DEF TypeOK
    <3>. QED  BY <2>1, <2>2, <3>1
  <2>3. CASE Start(d, lastRead + 1) /\ UNCHANGED budget
    <3>1. /\ worker' \in [Deliveries -> WorkerStates]
          /\ worker'[d] = [pc |-> "gate", msg |-> lastRead + 1, err |-> "none"]
          /\ \A e \in Deliveries : e # d => worker'[e] = worker[e]
      BY <2>2, <2>3, StartType
    <3>2. TypeOK'
      BY <2>0, <2>1, <2>3, <3>1 DEF TypeOK
    <3>3. WorkersOK'
      BY <2>1, <2>2, <3>1 DEF WorkersOK, Busy, Key, IsRetryable
    <3>. QED  BY <3>2, <3>3 DEF Typed
  <2>4. CASE Fault("read") /\ UNCHANGED worker
    <3>1. budget' \in 0 .. MaxFaults
      BY <2>4, FaultType
    <3>2. TypeOK'
      BY <2>0, <2>1, <2>4, <3>1 DEF TypeOK
    <3>3. WorkersOK'
      BY <2>1, <2>2, <2>4 DEF WorkersOK, Busy, Key, IsRetryable
    <3>. QED  BY <3>2, <3>3 DEF Typed
  <2>. QED  BY <1>2, <2>3, <2>4 DEF ReadGroup
<1>3. ASSUME NEW d \in Deliveries, NEW m \in idle, ClaimStale(d, m) PROVE Typed'
  <2>1. /\ idle' = idle \ {m}
        /\ UNCHANGED <<stream, lastRead, pel, lock, stale, retrySet, batch, todo, dlq, accepted, tried, scheduled>>
    BY <1>3 DEF ClaimStale
  <2>2. m \in 1 .. lastRead /\ m \in Nat
    BY <1>3 DEF TypeOK
  <2>3. CASE Start(d, m) /\ UNCHANGED budget
    <3>1. /\ worker' \in [Deliveries -> WorkerStates]
          /\ worker'[d] = [pc |-> "gate", msg |-> m, err |-> "none"]
          /\ \A e \in Deliveries : e # d => worker'[e] = worker[e]
      BY <2>2, <2>3, StartType
    <3>2. TypeOK'
      BY <2>1, <2>3, <3>1 DEF TypeOK
    <3>3. WorkersOK'
      BY <2>1, <2>2, <3>1, WorkersOKStep
    <3>. QED  BY <3>2, <3>3 DEF Typed
  <2>4. CASE Fault("read") /\ UNCHANGED worker
    <3>1. budget' \in 0 .. MaxFaults
      BY <2>4, FaultType
    <3>2. TypeOK'
      BY <2>1, <2>4, <3>1 DEF TypeOK
    <3>3. WorkersOK'
      BY <2>1, <2>4 DEF WorkersOK, Busy, Key, IsRetryable
    <3>. QED  BY <3>2, <3>3 DEF Typed
  <2>. QED  BY <1>3, <2>3, <2>4 DEF ClaimStale
<1>4. ASSUME NEW m \in pel, AgeEntry(m) PROVE Typed'
  <2>1. TypeOK'
    BY <1>4 DEF AgeEntry, TypeOK
  <2>2. WorkersOK'
    BY <1>4 DEF AgeEntry, WorkersOK, Busy, Key, IsRetryable
  <2>. QED  BY <2>1, <2>2 DEF Typed
<1>5. ASSUME NEW k \in Keys, AgeLock(k) \/ ExpireLock(k) PROVE Typed'
  <2>0. budget' \in 0 .. MaxFaults
    BY <1>5, FaultType DEF AgeLock, ExpireLock, TypeOK
  <2>1. TypeOK'
    BY <1>5, <2>0 DEF AgeLock, ExpireLock, TypeOK, Statuses
  <2>2. WorkersOK'
    BY <1>5 DEF AgeLock, ExpireLock, WorkersOK, Busy, Key, IsRetryable
  <2>. QED  BY <2>1, <2>2 DEF Typed
<1>6. ASSUME NEW d \in Deliveries, SetProcessing(d) PROVE Typed'
  <2>1. Busy(d) /\ Key(d) \in Keys /\ worker[d].msg \in 1 .. lastRead
    BY <1>6, KeyType DEF SetProcessing, Acquirable, Busy
  <2>2. Goto(d, "send") \/ Goto(d, "check")
    BY <1>6 DEF SetProcessing, Acquirable
  <2>3. /\ worker' \in [Deliveries -> WorkerStates]
        /\ worker'[d].pc \in {"send", "check"} /\ worker'[d].msg = worker[d].msg
        /\ \A e \in Deliveries : e # d => worker'[e] = worker[e]
    BY <2>2, GotoType DEF Pcs
  <2>4. budget' \in 0 .. MaxFaults
    BY <1>6, FaultType DEF SetProcessing, Acquirable, TypeOK
  <2>5. TypeOK'
    BY <1>6, <2>1, <2>3, <2>4 DEF SetProcessing, Acquirable, TypeOK, Statuses
  <2>6. WorkersOK'
    BY <1>6, <2>1, <2>3, WorkersOKStep DEF SetProcessing, Acquirable
  <2>. QED  BY <2>5, <2>6 DEF Typed
<1>7. ASSUME NEW d \in Deliveries, IsCompleted(d) PROVE Typed'
  <2>1. Busy(d) /\ worker[d].msg \in 1 .. lastRead
    BY <1>7, KeyType DEF IsCompleted, Busy
  <2>2. Goto(d, "ack") \/ Goto(d, "reclaim")
    BY <1>7 DEF IsCompleted
  <2>3. /\ worker' \in [Deliveries -> WorkerStates]
        /\ worker'[d].pc \in {"ack", "reclaim"} /\ worker'[d].msg = worker[d].msg
        /\ \A e \in Deliveries : e # d => worker'[e] = worker[e]
    BY <2>2, GotoType DEF Pcs
  <2>4. budget' \in 0 .. MaxFaults
    BY <1>7, FaultType DEF IsCompleted, TypeOK
  <2>5. TypeOK'
    BY <1>7, <2>3, <2>4 DEF IsCompleted, TypeOK
  <2>6. WorkersOK'
    BY <1>7, <2>1, <2>3, WorkersOKStep DEF IsCompleted
  <2>. QED  BY <2>5, <2>6 DEF Typed
<1>8. ASSUME NEW d \in Deliveries, TryReclaimStale(d) PROVE Typed'
  <2>1. Busy(d) /\ worker[d].msg \in 1 .. lastRead
    BY <1>8, KeyType DEF TryReclaimStale, Reclaimable, Busy
  <2>2. Goto(d, "send") \/ Finish(d)
    BY <1>8 DEF TryReclaimStale, Reclaimable
  <2>3. /\ worker' \in [Deliveries -> WorkerStates]
        /\ worker'[d].pc \in {"send", "none"}
        /\ worker'[d].pc # "none" => worker'[d].msg = worker[d].msg
        /\ \A e \in Deliveries : e # d => worker'[e] = worker[e]
    BY <2>2, GotoType, FinishType DEF Pcs, NoWork
  <2>4. budget' \in 0 .. MaxFaults
    BY <1>8, FaultType DEF TryReclaimStale, Reclaimable, TypeOK
  <2>5. TypeOK'
    BY <1>8, <2>3, <2>4 DEF TryReclaimStale, Reclaimable, TypeOK
  <2>6. WorkersOK'
    BY <1>8, <2>1, <2>3, WorkersOKStep DEF TryReclaimStale, Reclaimable
  <2>. QED  BY <2>5, <2>6 DEF Typed
<1>9. ASSUME NEW d \in Deliveries, SendOk(d) PROVE Typed'
  <2>1. Busy(d) /\ Key(d) \in Keys /\ worker[d].msg \in 1 .. lastRead
        /\ Key(d).task \in Tasks /\ Key(d).attempt \in Attempts
    BY <1>9, KeyType DEF SendOk, Calls, Busy
  <2>2. Goto(d, "ackSent")
    BY <1>9 DEF SendOk
  <2>3. /\ worker' \in [Deliveries -> WorkerStates]
        /\ worker'[d].pc \in {"ackSent"}
        /\ worker'[d].pc # "none" => worker'[d].msg = worker[d].msg
        /\ \A e \in Deliveries : e # d => worker'[e] = worker[e]
    BY <2>2, GotoType, FinishType DEF Pcs, NoWork
  <2>4. budget' \in 0 .. MaxFaults
    BY <1>9, FaultType DEF SendOk, TypeOK
  <2>5. accepted' \in [Keys -> 0 .. Cap]
    BY <1>9, <2>1, BumpType DEF SendOk, TypeOK
  <2>6. TypeOK'
    BY <1>9, <2>1, <2>3, <2>4, <2>5 DEF SendOk, TypeOK, Calls
  <2>7. WorkersOK'
    BY <1>9, <2>1, <2>3, WorkersOKStep DEF SendOk
  <2>. QED  BY <2>6, <2>7 DEF Typed
<1>10. ASSUME NEW d \in Deliveries, NEW e \in TransientErrors, SendTransient(d, e) PROVE Typed'
  <2>1. Busy(d) /\ Key(d) \in Keys /\ worker[d].msg \in 1 .. lastRead
        /\ Key(d).task \in Tasks /\ Key(d).attempt \in Attempts
    BY <1>10, KeyType DEF SendTransient, Calls, Busy
  <2>2. /\ worker' \in [Deliveries -> WorkerStates]
        /\ worker'[d].pc \in {"retry", "dlq"}
        /\ worker'[d].pc = "retry" => IsRetryable(Key(d))
        /\ worker'[d].msg = worker[d].msg
        /\ worker'[d].err = e
        /\ \A f \in Deliveries : f # d => worker'[f] = worker[f]
    BY <1>10 DEF SendTransient, TypeOK, WorkerStates, Pcs
  <2>3. budget' \in 0 .. MaxFaults
    BY <1>10, FaultType DEF SendTransient, TypeOK
  <2>4. accepted' \in [Keys -> 0 .. Cap]
    <3>1. accepted' = accepted \/ accepted' = Bump(accepted, Key(d))
      BY <1>10 DEF SendTransient
    <3>2. accepted \in [Keys -> 0 .. Cap]
      BY DEF TypeOK
    <3>. QED  BY <2>1, <3>1, <3>2, BumpType
  <2>5. TypeOK'
    BY <1>10, <2>1, <2>2, <2>3, <2>4 DEF SendTransient, Calls, TypeOK
  <2>6. IsRetryable(Key(d)) <=> IsRetryable(stream[worker'[d].msg])
    BY <2>2 DEF Key
  <2>7. WorkersOK'
    BY <1>10, <2>1, <2>2, <2>6, WorkersOKStep DEF SendTransient
  <2>. QED  BY <2>5, <2>7 DEF Typed
<1>11. ASSUME NEW d \in Deliveries, SendPermanent(d) PROVE Typed'
  <2>1. Busy(d) /\ Key(d) \in Keys /\ worker[d].msg \in 1 .. lastRead
        /\ Key(d).task \in Tasks /\ Key(d).attempt \in Attempts
    BY <1>11, KeyType DEF SendPermanent, Calls, Busy
  <2>2. Goto(d, "dlq")
    BY <1>11 DEF SendPermanent
  <2>3. /\ worker' \in [Deliveries -> WorkerStates]
        /\ worker'[d].pc \in {"dlq"}
        /\ worker'[d].pc # "none" => worker'[d].msg = worker[d].msg
        /\ \A e \in Deliveries : e # d => worker'[e] = worker[e]
    BY <2>2, GotoType, FinishType DEF Pcs, NoWork
  <2>4. budget' \in 0 .. MaxFaults
    BY <1>11, FaultType DEF SendPermanent, TypeOK
  <2>5. TypeOK'
    BY <1>11, <2>1, <2>3, <2>4 DEF SendPermanent, TypeOK, Calls
  <2>6. WorkersOK'
    BY <1>11, <2>1, <2>3, WorkersOKStep DEF SendPermanent
  <2>. QED  BY <2>5, <2>6 DEF Typed
<1>12. ASSUME NEW d \in Deliveries, SendPanic(d) PROVE Typed'
  <2>1. Busy(d) /\ Key(d) \in Keys /\ worker[d].msg \in 1 .. lastRead
        /\ Key(d).task \in Tasks /\ Key(d).attempt \in Attempts
    BY <1>12, KeyType DEF SendPanic, Calls, Busy
  <2>2. Finish(d)
    BY <1>12 DEF SendPanic
  <2>3. /\ worker' \in [Deliveries -> WorkerStates]
        /\ worker'[d].pc \in {"none"}
        /\ worker'[d].pc # "none" => worker'[d].msg = worker[d].msg
        /\ \A e \in Deliveries : e # d => worker'[e] = worker[e]
    BY <2>2, GotoType, FinishType DEF Pcs, NoWork
  <2>4. budget' \in 0 .. MaxFaults
    BY <1>12, FaultType DEF SendPanic, TypeOK
  <2>5. TypeOK'
    BY <1>12, <2>1, <2>3, <2>4 DEF SendPanic, TypeOK, Calls
  <2>6. WorkersOK'
    BY <1>12, <2>1, <2>3, WorkersOKStep DEF SendPanic
  <2>. QED  BY <2>5, <2>6 DEF Typed
<1>13. ASSUME NEW d \in Deliveries, Acknowledge(d) PROVE Typed'
  <2>1. Busy(d) /\ Key(d) \in Keys /\ worker[d].msg \in 1 .. lastRead
        /\ Key(d).task \in Tasks /\ Key(d).attempt \in Attempts
    BY <1>13, KeyType DEF Acknowledge, Calls, Busy
  <2>2. Goto(d, "complete") \/ Finish(d)
    BY <1>13 DEF Acknowledge
  <2>3. /\ worker' \in [Deliveries -> WorkerStates]
        /\ worker'[d].pc \in {"complete", "none"}
        /\ worker'[d].pc # "none" => worker'[d].msg = worker[d].msg
        /\ \A e \in Deliveries : e # d => worker'[e] = worker[e]
    BY <2>2, GotoType, FinishType DEF Pcs, NoWork
  <2>4. budget' \in 0 .. MaxFaults
    BY <1>13, FaultType DEF Acknowledge, TypeOK
  <2>5. TypeOK'
    BY <1>13, <2>1, <2>3, <2>4 DEF Acknowledge, TypeOK
  <2>6. WorkersOK'
    BY <1>13, <2>1, <2>3, WorkersOKStep DEF Acknowledge
  <2>. QED  BY <2>5, <2>6 DEF Typed
<1>14. ASSUME NEW d \in Deliveries, SetCompleted(d) PROVE Typed'
  <2>1. Busy(d) /\ Key(d) \in Keys /\ worker[d].msg \in 1 .. lastRead
        /\ Key(d).task \in Tasks /\ Key(d).attempt \in Attempts
    BY <1>14, KeyType DEF SetCompleted, Calls, Busy
  <2>2. Finish(d)
    BY <1>14 DEF SetCompleted
  <2>3. /\ worker' \in [Deliveries -> WorkerStates]
        /\ worker'[d].pc \in {"none"}
        /\ worker'[d].pc # "none" => worker'[d].msg = worker[d].msg
        /\ \A e \in Deliveries : e # d => worker'[e] = worker[e]
    BY <2>2, GotoType, FinishType DEF Pcs, NoWork
  <2>4. budget' \in 0 .. MaxFaults
    BY <1>14, FaultType DEF SetCompleted, TypeOK
  <2>5. TypeOK'
    BY <1>14, <2>1, <2>3, <2>4 DEF SetCompleted, TypeOK, Statuses
  <2>6. WorkersOK'
    BY <1>14, <2>1, <2>3, WorkersOKStep DEF SetCompleted
  <2>. QED  BY <2>5, <2>6 DEF Typed
<1>15. ASSUME NEW d \in Deliveries, ScheduleRetry(d) PROVE Typed'
  <2>1. Busy(d) /\ Key(d) \in Keys /\ worker[d].msg \in 1 .. lastRead
        /\ Key(d).task \in Tasks /\ Key(d).attempt \in Attempts
    BY <1>15, KeyType DEF ScheduleRetry, Calls, Busy
  <2>2. Goto(d, "ack") \/ Goto(d, "clear")
    BY <1>15 DEF ScheduleRetry
  <2>3. /\ worker' \in [Deliveries -> WorkerStates]
        /\ worker'[d].pc \in {"ack", "clear"}
        /\ worker'[d].pc # "none" => worker'[d].msg = worker[d].msg
        /\ \A e \in Deliveries : e # d => worker'[e] = worker[e]
    BY <2>2, GotoType, FinishType DEF Pcs, NoWork
  <2>4. budget' \in 0 .. MaxFaults
    BY <1>15, FaultType DEF ScheduleRetry, TypeOK
  <2>5. RetryMember(d) \in Members /\ KeyOf(RetryMember(d)) \in Keys
    <3>1. Key(d).attempt + 1 \in Attempts /\ worker[d].err \in TransientErrors
      BY <1>15, <2>1, ConstantsAssumption DEF ScheduleRetry, WorkersOK, IsRetryable, Attempts
    <3>2. worker[d].msg \in Nat
      BY <2>1 DEF TypeOK
    <3>. QED  BY <2>1, <3>1, <3>2 DEF RetryMember, KeyOf, Members, Keys
  <2>6. TypeOK'
    BY <1>15, <2>1, <2>3, <2>4, <2>5 DEF ScheduleRetry, TypeOK
  <2>7. WorkersOK'
    BY <1>15, <2>1, <2>3, WorkersOKStep DEF ScheduleRetry
  <2>. QED  BY <2>6, <2>7 DEF Typed
<1>16. ASSUME NEW d \in Deliveries, SendToDLQ(d) PROVE Typed'
  <2>1. Busy(d) /\ Key(d) \in Keys /\ worker[d].msg \in 1 .. lastRead
        /\ Key(d).task \in Tasks /\ Key(d).attempt \in Attempts
    BY <1>16, KeyType DEF SendToDLQ, Calls, Busy
  <2>2. Goto(d, "ack") \/ Goto(d, "clear") \/ UNCHANGED worker
    BY <1>16 DEF SendToDLQ
  <2>3. /\ worker' \in [Deliveries -> WorkerStates]
        /\ worker'[d].pc \in {"ack", "clear", "dlq"}
        /\ worker'[d].pc # "none" => worker'[d].msg = worker[d].msg
        /\ \A e \in Deliveries : e # d => worker'[e] = worker[e]
    BY <1>16, <2>2, GotoType DEF Pcs, SendToDLQ, TypeOK
  <2>4. budget' \in 0 .. MaxFaults
    BY <1>16, FaultType DEF SendToDLQ, TypeOK
  <2>5. dlq' \in [Keys -> 0 .. Cap]
    <3>1. dlq' = dlq \/ dlq' = Bump(dlq, Key(d))
      BY <1>16 DEF SendToDLQ
    <3>2. dlq \in [Keys -> 0 .. Cap]
      BY DEF TypeOK
    <3>. QED  BY <2>1, <3>1, <3>2, BumpType
  <2>6. TypeOK'
    BY <1>16, <2>1, <2>3, <2>4, <2>5 DEF SendToDLQ, TypeOK
  <2>7. WorkersOK'
    BY <1>16, <2>1, <2>3, WorkersOKStep DEF SendToDLQ
  <2>. QED  BY <2>6, <2>7 DEF Typed
<1>17. ASSUME NEW d \in Deliveries, ClearProcessing(d) PROVE Typed'
  <2>1. Busy(d) /\ Key(d) \in Keys /\ worker[d].msg \in 1 .. lastRead
        /\ Key(d).task \in Tasks /\ Key(d).attempt \in Attempts
    BY <1>17, KeyType DEF ClearProcessing, Calls, Busy
  <2>2. Finish(d)
    BY <1>17 DEF ClearProcessing
  <2>3. /\ worker' \in [Deliveries -> WorkerStates]
        /\ worker'[d].pc \in {"none"}
        /\ worker'[d].pc # "none" => worker'[d].msg = worker[d].msg
        /\ \A e \in Deliveries : e # d => worker'[e] = worker[e]
    BY <2>2, GotoType, FinishType DEF Pcs, NoWork
  <2>4. budget' \in 0 .. MaxFaults
    BY <1>17, FaultType DEF ClearProcessing, TypeOK
  <2>5. TypeOK'
    BY <1>17, <2>1, <2>3, <2>4 DEF ClearProcessing, TypeOK, Statuses
  <2>6. WorkersOK'
    BY <1>17, <2>1, <2>3, WorkersOKStep DEF ClearProcessing
  <2>. QED  BY <2>5, <2>6 DEF Typed
<1>18. ASSUME NEW p \in Pods, FlushRead(p) \/ FlushZrem(p) \/ FlushBroken(p) PROVE Typed'
  <2>1. budget' \in 0 .. MaxFaults
    BY <1>18, FaultType DEF FlushRead, FlushZrem, FlushBroken, TypeOK
  <2>2. TypeOK'
    BY <1>18, <2>1 DEF FlushRead, FlushZrem, FlushBroken, TypeOK
  <2>3. WorkersOK'
    BY <1>18 DEF FlushRead, FlushZrem, FlushBroken, WorkersOK, Busy, Key, IsRetryable
  <2>. QED  BY <2>2, <2>3 DEF Typed
<1>19. ASSUME NEW p \in Pods, NEW m \in todo[p], FlushXadd(p, m) PROVE Typed'
  <2>1. m \in Members /\ KeyOf(m) \in Keys
    BY DEF TypeOK, Members, KeyOf, Keys
  <2>2. budget' \in 0 .. MaxFaults
    BY <1>19, FaultType DEF FlushXadd, TypeOK
  <2>3. UNCHANGED <<lastRead, pel, idle, lock, stale, retrySet, batch, dlq, accepted, tried,
                    scheduled, worker>>
        /\ todo' \in [Pods -> SUBSET Members]
    BY <1>19 DEF FlushXadd, TypeOK
  <2>4. WorkersOK' /\ lastRead' \in 0 .. Len(stream') /\ stream' \in Seq(Keys)
    <3>1. CASE Xadd(KeyOf(m))
      BY <2>1, <2>3, <3>1, WorkersOKXadd
    <3>2. CASE UNCHANGED stream
      BY <2>3, <3>2 DEF TypeOK, WorkersOK, Busy, Key, IsRetryable
    <3>. QED  BY <1>19, <3>1, <3>2 DEF FlushXadd
  <2>5. TypeOK'
    BY <2>2, <2>3, <2>4 DEF TypeOK
  <2>. QED  BY <2>4, <2>5 DEF Typed
<1>20. ASSUME NEW p \in Pods, Crash(p) PROVE Typed'
  <2>1. budget' \in 0 .. MaxFaults
    BY <1>20, FaultType DEF Crash
  <2>2. worker' \in [Deliveries -> WorkerStates]
    BY <1>20 DEF Crash, TypeOK, NoWork, WorkerStates, Pcs
  <2>3. TypeOK'
    BY <1>20, <2>1, <2>2 DEF Crash, TypeOK
  <2>4. WorkersOK'
    BY <1>20 DEF Crash, WorkersOK, Busy, Key, IsRetryable, NoWork
  <2>. QED  BY <2>3, <2>4 DEF Typed
<1>21. ASSUME UNCHANGED vars PROVE Typed'
  BY <1>21 DEF vars, Typed, TypeOK, WorkersOK, Busy, Key, IsRetryable
<1>. QED
  BY <1>1, <1>2, <1>3, <1>4, <1>5, <1>6, <1>7, <1>8, <1>9, <1>10, <1>11, <1>12, <1>13, <1>14,
     <1>15, <1>16, <1>17, <1>18, <1>19, <1>20, <1>21 DEF Next, Receive, Process, Flush, Time

\* Every reachable state is well typed; above all, no entry of the stream and no
\* member of the retry set has an attempt number beyond MaxAttempts.
THEOREM TypeCorrect == Spec => []TypeOK
<1>1. Spec => []Typed
  BY TypedInit, TypedNext, PTL DEF Spec
<1>. QED  BY <1>1, PTL DEF Typed

-------------------------------------------------------------------------------
(* What only grows: the stream, the emails accepted, the DLQ, the history *)

\* No step takes back a stream entry, an email, a DLQ entry or a scheduling.
LEMMA Growth ==
  ASSUME Typed, [Next]_vars
  PROVE  /\ Len(stream) <= Len(stream')
         /\ \A i \in 1 .. Len(stream) : stream'[i] = stream[i]
         /\ \A k \in Keys : accepted[k] > 0 => accepted'[k] > 0
         /\ \A k \in Keys : dlq[k] > 0 => dlq'[k] > 0
         /\ scheduled \subseteq scheduled'
<1>. USE DEF redisVars, historyVars
<1>1. Len(stream) <= Len(stream') /\ \A i \in 1 .. Len(stream) : stream'[i] = stream[i]
  <2>1. CASE UNCHANGED stream
    BY <2>1 DEF Typed, TypeOK
  <2>2. CASE \E k \in Keys : Xadd(k)
    BY <2>2, XaddFacts DEF Typed, TypeOK
  <2>3. ASSUME NEW t \in Tasks, Enqueue(t) PROVE \E k \in Keys : Xadd(k)
    <3>1. attemptKey(t, 0) \in Keys
      BY ConstantsAssumption DEF attemptKey, Keys, Attempts
    <3>. QED  BY <2>3, <3>1 DEF Enqueue
  <2>4. ASSUME NEW p \in Pods, NEW m \in todo[p], FlushXadd(p, m)
        PROVE  UNCHANGED stream \/ \E k \in Keys : Xadd(k)
    <3>1. KeyOf(m) \in Keys
      BY DEF Typed, TypeOK, Members, KeyOf, Keys
    <3>. QED  BY <2>4, <3>1 DEF FlushXadd
  <2>. QED
    BY <2>1, <2>2, <2>3, <2>4 DEF Next, vars, Receive, Process, Flush, Time, ReadGroup, ClaimStale,
       SetProcessing, Acquirable, IsCompleted, TryReclaimStale, Reclaimable, SendOk, SendTransient, SendPermanent, SendPanic,
       Acknowledge, SetCompleted, ScheduleRetry, SendToDLQ, ClearProcessing, FlushRead, FlushZrem,
       FlushBroken, AgeEntry, AgeLock, ExpireLock, Crash
<1>2. UNCHANGED accepted \/ \E d \in Deliveries : Key(d) \in Keys /\ accepted' = Bump(accepted, Key(d))
  <2>1. ASSUME NEW d \in Deliveries, SendOk(d) \/ \E e \in TransientErrors : SendTransient(d, e)
        PROVE  UNCHANGED accepted \/ (Key(d) \in Keys /\ accepted' = Bump(accepted, Key(d)))
    BY <2>1, KeyType DEF SendOk, SendTransient, Calls, Busy
  <2>. QED
    BY <2>1 DEF Next, vars, Receive, Process, Flush, Time, ReadGroup, ClaimStale, Enqueue,
       SetProcessing, Acquirable, IsCompleted, TryReclaimStale, Reclaimable, SendPermanent, SendPanic,
       Acknowledge, SetCompleted, ScheduleRetry, SendToDLQ, ClearProcessing, FlushRead, FlushZrem,
       FlushXadd, FlushBroken, AgeEntry, AgeLock, ExpireLock, Crash
<1>3. UNCHANGED dlq \/ \E d \in Deliveries : Key(d) \in Keys /\ dlq' = Bump(dlq, Key(d))
  <2>1. ASSUME NEW d \in Deliveries, SendToDLQ(d)
        PROVE  UNCHANGED dlq \/ (Key(d) \in Keys /\ dlq' = Bump(dlq, Key(d)))
    BY <2>1, KeyType DEF SendToDLQ, Busy
  <2>. QED
    BY <2>1 DEF Next, vars, Receive, Process, Flush, Time, ReadGroup, ClaimStale, Enqueue,
       SetProcessing, Acquirable, IsCompleted, TryReclaimStale, Reclaimable, SendOk, SendTransient, SendPermanent, SendPanic,
       Acknowledge, SetCompleted, ScheduleRetry, ClearProcessing, FlushRead, FlushZrem,
       FlushXadd, FlushBroken, AgeEntry, AgeLock, ExpireLock, Crash
<1>4. scheduled \subseteq scheduled'
  BY DEF Next, vars, Receive, Process, Flush, Time, ReadGroup, ClaimStale, Enqueue,
     SetProcessing, Acquirable, IsCompleted, TryReclaimStale, Reclaimable, SendOk, SendTransient, SendPermanent, SendPanic,
     Acknowledge, SetCompleted, ScheduleRetry, SendToDLQ, ClearProcessing, FlushRead, FlushZrem,
     FlushXadd, FlushBroken, AgeEntry, AgeLock, ExpireLock, Crash
<1>5. \A k \in Keys : accepted[k] > 0 => accepted'[k] > 0
  BY <1>2, BumpType DEF Typed, TypeOK
<1>6. \A k \in Keys : dlq[k] > 0 => dlq'[k] > 0
  BY <1>3, BumpType DEF Typed, TypeOK
<1>. QED  BY <1>1, <1>4, <1>5, <1>6

-------------------------------------------------------------------------------
(* No entry is acknowledged before the outcome of its attempt is recorded *)

\* A delivery about to acknowledge has recorded the outcome, or found a
\* "completed" lock, which stands for an email that was accepted.
OutcomesKnown ==
  \A d \in Deliveries :
    /\ worker[d].pc \in {"ackSent", "complete"} => accepted[Key(d)] > 0
    /\ worker[d].pc = "ack" => Recorded(Key(d))

CompletedMeansAccepted ==
  \A k \in Keys : lock[k] = "completed" => accepted[k] > 0

AckInv == Typed /\ OutcomesKnown /\ CompletedMeansAccepted /\ AckAfterOutcome

\* Nothing is acknowledged and no outcome is claimed initially.
LEMMA AckInit == Init => AckInv
<1>. SUFFICES ASSUME Init PROVE OutcomesKnown /\ CompletedMeansAccepted /\ AckAfterOutcome
  BY TypedInit DEF AckInv
<1>. QED  BY DEF Init, OutcomesKnown, CompletedMeansAccepted, AckAfterOutcome, NoWork

\* An outcome on record stays on record.
LEMMA RecordedStays ==
  ASSUME Typed, [Next]_vars, NEW k \in Keys, Recorded(k)
  PROVE  Recorded(k)'
BY Growth DEF Recorded

\* A delivery that keeps its pc and its entry keeps what it knows.
LEMMA OutcomeStays ==
  ASSUME AckInv, [Next]_vars, NEW d \in Deliveries, worker'[d] = worker[d]
  PROVE  /\ worker'[d].pc \in {"ackSent", "complete"} => accepted'[Key(d)'] > 0
         /\ worker'[d].pc = "ack" => Recorded(Key(d))'
<1>. Typed
  BY DEF AckInv
<1>1. CASE ~Busy(d)
  BY <1>1 DEF Busy
<1>2. CASE Busy(d)
  <2>1. Key(d) \in Keys /\ Key(d)' = Key(d)
    BY <1>2, KeyType, Growth DEF Key
  <2>2. worker'[d].pc \in {"ackSent", "complete"} => accepted'[Key(d)'] > 0
    BY <2>1, Growth DEF AckInv, OutcomesKnown
  <2>3. worker'[d].pc = "ack" => Recorded(Key(d))'
    BY <2>1, RecordedStays DEF AckInv, OutcomesKnown, Recorded
  <2>. QED  BY <2>2, <2>3
<1>. QED  BY <1>1, <1>2

\* A delivery reaches the acknowledgement only with its outcome on record.
LEMMA OutcomesKnownNext ==
  ASSUME AckInv, [Next]_vars PROVE OutcomesKnown'
<1>. Typed /\ Typed'
  BY TypedNext DEF AckInv
<1>. TypeOK /\ TypeOK'
  BY DEF Typed
<1>. USE DEF redisVars, historyVars
<1>. SUFFICES ASSUME NEW c \in Deliveries, worker'[c] # worker[c]
              PROVE  /\ worker'[c].pc \in {"ackSent", "complete"} => accepted'[Key(c)'] > 0
                     /\ worker'[c].pc = "ack" => Recorded(Key(c))'
  BY OutcomeStays DEF OutcomesKnown
<1>1. CASE SendOk(c)
  <2>1. Key(c) \in Keys /\ Key(c)' = Key(c) /\ worker'[c].pc = "ackSent"
    BY <1>1, KeyType, GotoType DEF SendOk, Calls, Busy, Key, Pcs
  <2>. QED  BY <1>1, <2>1, BumpType DEF SendOk, TypeOK
<1>2. CASE IsCompleted(c)
  <2>1. Key(c) \in Keys /\ Key(c)' = Key(c)
    BY <1>2, KeyType, GotoType DEF IsCompleted, Busy, Key, Pcs
  <2>2. worker'[c].pc = "reclaim" \/ (worker'[c].pc = "ack" /\ lock[Key(c)] = "completed")
    BY <1>2, GotoType DEF IsCompleted, Pcs
  <2>3. lock[Key(c)] = "completed" => accepted[Key(c)] > 0
    BY <2>1 DEF AckInv, CompletedMeansAccepted
  <2>4. accepted' = accepted
    BY <1>2 DEF IsCompleted
  <2>. QED  BY <2>1, <2>2, <2>3, <2>4 DEF Recorded
<1>3. CASE ScheduleRetry(c)
  <2>1. Key(c) \in Keys /\ Key(c)' = Key(c) /\ worker'[c].pc \in {"ack", "clear"}
    BY <1>3, KeyType, GotoType DEF ScheduleRetry, Busy, Key, Pcs
  <2>2. worker'[c].pc = "ack" => KeyOf(RetryMember(c)) \in scheduled'
    BY <1>3, GotoType DEF ScheduleRetry, Pcs
  <2>. QED  BY <2>1, <2>2 DEF Recorded, RetryMember, KeyOf
<1>4. CASE SendToDLQ(c)
  <2>1. Key(c) \in Keys /\ Key(c)' = Key(c) /\ worker'[c].pc \in {"ack", "clear"}
    BY <1>4, KeyType, GotoType DEF SendToDLQ, Busy, Key, Pcs
  <2>2. worker'[c].pc = "ack" => dlq' = Bump(dlq, Key(c))
    BY <1>4, GotoType DEF SendToDLQ, Pcs
  <2>. QED  BY <2>1, <2>2, BumpType DEF Recorded, TypeOK
<1>5. CASE Acknowledge(c)
  <2>1. Key(c) \in Keys
    BY <1>5, KeyType DEF Acknowledge, Busy
  <2>2. \/ worker'[c].pc = "complete" /\ Key(c)' = Key(c) /\ worker[c].pc = "ackSent"
        \/ worker'[c].pc = "none"
    BY <1>5, GotoType, FinishType DEF Acknowledge, Key, Pcs, NoWork
  <2>3. accepted' = accepted
    BY <1>5 DEF Acknowledge
  <2>. QED  BY <2>1, <2>2, <2>3 DEF AckInv, OutcomesKnown
<1>6. CASE worker'[c].pc \in {"none", "gate", "check", "send", "retry", "dlq"}
  BY <1>6
<1>. DEFINE Cases ==
       \/ SendOk(c) \/ IsCompleted(c) \/ ScheduleRetry(c) \/ SendToDLQ(c) \/ Acknowledge(c)
       \/ worker'[c].pc \in {"none", "gate", "check", "send", "retry", "dlq"}
<1>7. Cases
  <2>1. ASSUME NEW d \in Deliveries, Receive(d) PROVE worker'[c].pc = "gate"
    BY <2>1 DEF Receive, ReadGroup, ClaimStale, Start, TypeOK
  <2>2. ASSUME NEW p \in Pods, Flush(p) \/ FlushBroken(p) \/ Crash(p) PROVE worker'[c].pc = "none"
    BY <2>2 DEF Flush, FlushRead, FlushXadd, FlushZrem, FlushBroken, Crash, NoWork
  <2>3. ASSUME NEW d \in Deliveries, Process(d) PROVE c = d
    <3>1. \A x : worker' # [worker EXCEPT ![d] = x] \/ c = d
      BY DEF TypeOK
    <3>. QED  BY <2>3, <3>1 DEF Process, SetProcessing, Acquirable, IsCompleted, TryReclaimStale, Reclaimable, SendOk,
       SendTransient, SendPermanent, SendPanic, Acknowledge, SetCompleted, ScheduleRetry, SendToDLQ,
       ClearProcessing, Goto, Finish, TypeOK
  <2>4. ASSUME Process(c) PROVE Cases
    <3>1. CASE SetProcessing(c)
      BY <3>1, GotoType DEF SetProcessing, Acquirable, Pcs
    <3>2. CASE TryReclaimStale(c)
      BY <3>2, GotoType, FinishType DEF TryReclaimStale, Reclaimable, Pcs, NoWork
    <3>3. ASSUME NEW e \in TransientErrors, SendTransient(c, e)
          PROVE  worker'[c].pc \in {"retry", "dlq"}
      BY <3>3 DEF SendTransient, TypeOK, WorkerStates
    <3>4. CASE SendPermanent(c)
      BY <3>4, GotoType DEF SendPermanent, Pcs
    <3>5. CASE SendPanic(c) \/ SetCompleted(c) \/ ClearProcessing(c)
      BY <3>5, FinishType DEF SendPanic, SetCompleted, ClearProcessing, NoWork
    <3>. QED  BY <2>4, <3>1, <3>2, <3>3, <3>4, <3>5 DEF Process
  <2>. QED  BY <2>1, <2>2, <2>3, <2>4 DEF Next, vars, Enqueue, Time, AgeEntry, AgeLock, ExpireLock
<1>. QED  BY <1>1, <1>2, <1>3, <1>4, <1>5, <1>6, <1>7

\* A lock only becomes "completed" for an attempt whose email was accepted.
LEMMA CompletedMeansAcceptedNext ==
  ASSUME AckInv, [Next]_vars PROVE CompletedMeansAccepted'
<1>. Typed
  BY DEF AckInv
<1>. USE DEF redisVars, historyVars
<1>. SUFFICES ASSUME NEW k \in Keys, lock'[k] = "completed" PROVE accepted'[k] > 0
  BY DEF CompletedMeansAccepted
<1>1. CASE lock[k] = "completed"
  BY <1>1, Growth DEF AckInv, CompletedMeansAccepted
<1>2. ASSUME NEW d \in Deliveries, SetCompleted(d), k = Key(d) PROVE accepted'[k] > 0
  BY <1>2, Growth DEF AckInv, OutcomesKnown, SetCompleted
<1>3. lock[k] = "completed" \/ \E d \in Deliveries : SetCompleted(d) /\ k = Key(d)
  <2>1. ASSUME NEW d \in Deliveries, SetProcessing(d) \/ ClearProcessing(d) \/ SetCompleted(d)
        PROVE  lock[k] = "completed" \/ (SetCompleted(d) /\ k = Key(d))
    BY <2>1 DEF SetProcessing, Acquirable, ClearProcessing, SetCompleted, Typed, TypeOK
  <2>2. ASSUME NEW j \in Keys, ExpireLock(j) PROVE lock[k] = "completed"
    BY <2>2 DEF ExpireLock, Typed, TypeOK
  <2>. QED
    BY <2>1, <2>2 DEF Next, vars, Receive, Process, Flush, Time, ReadGroup, ClaimStale, Enqueue,
       IsCompleted, TryReclaimStale, Reclaimable, SendOk, SendTransient, SendPermanent, SendPanic,
       Acknowledge, ScheduleRetry, SendToDLQ, FlushRead, FlushZrem,
       FlushXadd, FlushBroken, AgeEntry, AgeLock, Crash
<1>. QED  BY <1>1, <1>2, <1>3

\* An entry that is out of the PEL was so before, or is acknowledged now.
LEMMA PelLeft ==
  ASSUME Typed, [Next]_vars, NEW m \in 1 .. lastRead', m \notin pel'
  PROVE  /\ m \in 1 .. lastRead
         /\ m \notin pel \/ \E d \in Deliveries : Acknowledge(d) /\ m = worker[d].msg
<1>. USE DEF redisVars, historyVars
<1>1. ASSUME NEW d \in Deliveries, ReadGroup(d) PROVE m \in 1 .. lastRead /\ m \notin pel
  BY <1>1 DEF ReadGroup, Typed, TypeOK
<1>2. ASSUME NEW d \in Deliveries, Acknowledge(d)
      PROVE  m \in 1 .. lastRead /\ (m \notin pel \/ m = worker[d].msg)
  BY <1>2 DEF Acknowledge
<1>. QED
  BY <1>1, <1>2 DEF Next, vars, Receive, Process, Flush, Time, ClaimStale, Enqueue,
     SetProcessing, Acquirable, IsCompleted, TryReclaimStale, Reclaimable, SendOk, SendTransient, SendPermanent, SendPanic,
     SetCompleted, ScheduleRetry, SendToDLQ, ClearProcessing, FlushRead, FlushZrem,
     FlushXadd, FlushBroken, AgeEntry, AgeLock, ExpireLock, Crash

\* XACK is the only step that takes an entry out of the PEL.
LEMMA AckAfterOutcomeNext ==
  ASSUME AckInv, [Next]_vars PROVE AckAfterOutcome'
<1>. Typed
  BY DEF AckInv
<1>. SUFFICES ASSUME NEW m \in 1 .. lastRead', m \notin pel' PROVE Recorded(stream[m])'
  BY DEF AckAfterOutcome
<1>1. m \in 1 .. lastRead /\ (m \notin pel \/ \E d \in Deliveries : Acknowledge(d) /\ m = worker[d].msg)
  BY PelLeft
<1>2. m \in 1 .. Len(stream) /\ stream[m] \in Keys
  BY <1>1 DEF Typed, TypeOK
<1>3. stream'[m] = stream[m]
  BY <1>2, Growth
<1>4. Recorded(stream[m])
  <2>1. CASE m \notin pel
    BY <1>1, <2>1 DEF AckInv, AckAfterOutcome
  <2>2. ASSUME NEW d \in Deliveries, Acknowledge(d), m = worker[d].msg PROVE Recorded(stream[m])
    BY <2>2 DEF AckInv, OutcomesKnown, Acknowledge, Recorded, Key
  <2>. QED  BY <1>1, <2>1, <2>2
<1>. QED  BY <1>2, <1>3, <1>4, RecordedStays DEF Recorded

\* AckInv is inductive.
LEMMA AckNext == AckInv /\ [Next]_vars => AckInv'
BY TypedNext, OutcomesKnownNext, CompletedMeansAcceptedNext, AckAfterOutcomeNext DEF AckInv

\* AckInv holds in every reachable state.
LEMMA AckInvariant == Spec => []AckInv
BY AckInit, AckNext, PTL DEF Spec

\* Whatever fails, and between whichever two commands: an entry has left the PEL
\* only if the email of its attempt was accepted, the next attempt is scheduled
\* or the task is dead-lettered (the order of the calls in processTask).
THEOREM AckSafety == Spec => []AckAfterOutcome
<1>1. AckInv => AckAfterOutcome
  BY DEF AckInv
<1>. QED  BY <1>1, AckInvariant, PTL

-------------------------------------------------------------------------------
(* No task is lost, as long as no XADD of a flush pipeline is refused.     *)
(*                                                                         *)
(* NoTaskLost is not inductive: when an entry of attempt a is acknowledged *)
(* because attempt a + 1 was scheduled, that attempt may have been flushed,*)
(* delivered and acknowledged long ago.  The invariant therefore says of   *)
(* every attempt ever scheduled that its task is settled or held by a copy *)
(* with at least that attempt number, and it does not count a member of    *)
(* the retry set that a flush pipeline has already re-added to the stream  *)
(* and is about to remove.                                                 *)

Undone(r) == \A p \in Pods : r \in batch[p] => r \in todo[p]

HeldByEntry(t, b, m) ==
  /\ m \in 1 .. Len(stream)
  /\ Unacked(m)
  /\ stream[m].task = t
  /\ stream[m].attempt >= b

HeldByMember(t, b, r) ==
  /\ r \in retrySet
  /\ Undone(r)
  /\ r.task = t
  /\ r.attempt >= b

Held(t, b) ==
  \/ Settled(t)
  \/ \E m \in 1 .. Len(stream) : HeldByEntry(t, b, m)
  \/ \E r \in retrySet : HeldByMember(t, b, r)

\* What is in the retry set, or in memory between two commands of a flush, was
\* scheduled.
MembersScheduled ==
  /\ \A r \in retrySet : KeyOf(r) \in scheduled
  /\ \A p \in Pods : \A r \in batch[p] : KeyOf(r) \in scheduled
  /\ \A p \in Pods : todo[p] \subseteq batch[p]

EnqueuedHeld == \A t \in Tasks : Enqueued(t) => Held(t, 0)

ScheduledHeld == \A k \in scheduled : Held(k.task, k.attempt)

CustodyInv == AckInv /\ MembersScheduled /\ EnqueuedHeld /\ ScheduledHeld

\* There is nothing to be held initially.
LEMMA CustodyInit == Init => CustodyInv
<1>. SUFFICES ASSUME Init PROVE MembersScheduled /\ EnqueuedHeld /\ ScheduledHeld
  BY AckInit DEF CustodyInv
<1>. QED  BY DEF Init, MembersScheduled, EnqueuedHeld, ScheduledHeld, Enqueued

\* What is in the retry set, or in a batch, was scheduled.
LEMMA MembersScheduledNext ==
  ASSUME Typed, MembersScheduled, [Next]_vars PROVE MembersScheduled'
<1>. USE DEF redisVars, historyVars
<1>. TypeOK
  BY DEF Typed
<1>1. ASSUME NEW d \in Deliveries, ScheduleRetry(d) PROVE MembersScheduled'
  BY <1>1 DEF ScheduleRetry, MembersScheduled
<1>2. ASSUME NEW p \in Pods, FlushRead(p) PROVE MembersScheduled'
  BY <1>2 DEF FlushRead, MembersScheduled, TypeOK
<1>3. ASSUME NEW p \in Pods, NEW m \in todo[p], FlushXadd(p, m) PROVE MembersScheduled'
  BY <1>3 DEF FlushXadd, MembersScheduled, TypeOK
<1>4. ASSUME NEW p \in Pods, FlushZrem(p) PROVE MembersScheduled'
  BY <1>4 DEF FlushZrem, MembersScheduled, TypeOK
<1>5. ASSUME NEW p \in Pods, FlushBroken(p) \/ Crash(p) PROVE MembersScheduled'
  BY <1>5 DEF FlushBroken, Crash, MembersScheduled, TypeOK
<1>6. CASE UNCHANGED <<retrySet, batch, todo, scheduled>>
  BY <1>6 DEF MembersScheduled
<1>. QED
  BY <1>1, <1>2, <1>3, <1>4, <1>5, <1>6 DEF Next, vars, Receive, Process, Flush, Time, ReadGroup,
     ClaimStale, Enqueue, SetProcessing, Acquirable, IsCompleted, TryReclaimStale, Reclaimable, SendOk, SendTransient,
     SendPermanent, SendPanic, Acknowledge, SetCompleted, SendToDLQ, ClearProcessing,
     AgeEntry, AgeLock, ExpireLock

\* A settled task stays settled.
LEMMA SettledStays ==
  ASSUME Typed, [Next]_vars, NEW t \in Tasks, Settled(t) PROVE Settled(t)'
<1>1. \A a \in Attempts : attemptKey(t, a) \in Keys
  BY DEF attemptKey, Keys
<1>. QED  BY <1>1, Growth DEF Settled

\* A member that holds a task keeps doing so until a flush adds its attempt to
\* the stream.
LEMMA MemberHolds ==
  ASSUME CustodyInv, [Next]_vars, "xadd" \notin Faults, NEW t \in Tasks, NEW b \in Nat,
         NEW r \in retrySet, HeldByMember(t, b, r)
  PROVE  Held(t, b)'
<1>. USE DEF redisVars, historyVars
<1>. TypeOK /\ Typed /\ Typed' /\ TypeOK' /\ MembersScheduled
  BY TypedNext DEF CustodyInv, AckInv, Typed
<1>. r \in Members
  BY DEF TypeOK
<1>1. CASE r \in retrySet' /\ Undone(r)'
  BY <1>1 DEF HeldByMember, Held
<1>2. ASSUME NEW p \in Pods, NEW m \in todo[p], FlushXadd(p, m) PROVE Held(t, b)'
  <2>1. CASE m # r
    <3>1. r \in retrySet' /\ Undone(r)'
      BY <1>2, <2>1 DEF FlushXadd, Undone, HeldByMember, TypeOK
    <3>. QED  BY <3>1, <1>1
  <2>2. CASE m = r
    <3>1. KeyOf(r) \in Keys /\ KeyOf(r).task = t /\ KeyOf(r).attempt >= b
      BY DEF KeyOf, Members, Keys, HeldByMember
    <3>2. Xadd(KeyOf(r)) /\ lastRead' = lastRead
      BY <1>2, <2>2 DEF FlushXadd, Fault
    <3>3. Len(stream) \in Nat /\ lastRead \in 0 .. Len(stream)
      BY StreamType
    <3>4. PICK i \in Nat : i = Len(stream) + 1
      BY <3>3
    <3>5. Len(stream') = i /\ stream'[i] = KeyOf(r)
      BY <3>1, <3>2, <3>4, XaddFacts DEF TypeOK
    <3>6. i \in 1 .. Len(stream') /\ i > lastRead'
      BY <3>2, <3>3, <3>4, <3>5
    <3>7. HeldByEntry(t, b, i)'
      BY <3>1, <3>5, <3>6 DEF HeldByEntry, Unacked
    <3>. QED  BY <3>6, <3>7 DEF Held
  <2>. QED  BY <2>1, <2>2
<1>3. ASSUME NEW p \in Pods, FlushZrem(p) PROVE r \in retrySet' /\ Undone(r)'
  BY <1>3 DEF FlushZrem, Undone, HeldByMember, TypeOK
<1>4. ASSUME NEW p \in Pods, FlushRead(p) PROVE r \in retrySet' /\ Undone(r)'
  BY <1>4 DEF FlushRead, Undone, HeldByMember, TypeOK
<1>5. ASSUME NEW p \in Pods, FlushBroken(p) \/ Crash(p) PROVE r \in retrySet' /\ Undone(r)'
  BY <1>5 DEF FlushBroken, Crash, Undone, HeldByMember, TypeOK
<1>6. ASSUME NEW d \in Deliveries, ScheduleRetry(d) PROVE r \in retrySet' /\ Undone(r)'
  BY <1>6 DEF ScheduleRetry, Undone, HeldByMember
<1>7. CASE UNCHANGED <<retrySet, batch, todo>>
  <2>1. r \in retrySet' /\ Undone(r)'
    BY <1>7 DEF Undone, HeldByMember
  <2>. QED  BY <2>1, <1>1
<1>. QED
  BY <1>1, <1>2, <1>3, <1>4, <1>5, <1>6, <1>7 DEF Next, vars, Receive, Process, Flush, Time, ReadGroup,
     ClaimStale, Enqueue, SetProcessing, Acquirable, IsCompleted, TryReclaimStale, Reclaimable, SendOk, SendTransient,
     SendPermanent, SendPanic, Acknowledge, SetCompleted, SendToDLQ, ClearProcessing,
     AgeEntry, AgeLock, ExpireLock

\* An unacknowledged entry stays so unless a delivery acknowledges it.
LEMMA EntryHolds ==
  ASSUME CustodyInv, [Next]_vars, NEW t \in Tasks, NEW b \in Nat,
         NEW m \in 1 .. Len(stream), HeldByEntry(t, b, m),
         \A d \in Deliveries : Acknowledge(d) => worker[d].msg # m
  PROVE  Held(t, b)'
<1>. Typed /\ TypeOK /\ Typed' /\ TypeOK'
  BY TypedNext DEF CustodyInv, AckInv, Typed
<1>1. m \in 1 .. Len(stream') /\ stream'[m] = stream[m]
  <2>1. stream' \in Seq(Keys)
    BY DEF TypeOK
  <2>2. Len(stream) \in Nat /\ Len(stream') \in Nat
    BY <2>1, StreamType, LengthType
  <2>. QED  BY <2>2, Growth
<1>2. Unacked(m)'
  <2>. SUFFICES ASSUME ~(m > lastRead'), m \notin pel' PROVE FALSE
    BY DEF Unacked
  <2>1. m \in 1 .. lastRead' /\ lastRead \in Nat
    BY DEF TypeOK
  <2>2. m \in 1 .. lastRead /\ m \notin pel
    BY <2>1, PelLeft
  <2>. QED  BY <2>1, <2>2 DEF Unacked, HeldByEntry
<1>. QED  BY <1>1, <1>2 DEF HeldByEntry, Held

\* A task held at attempt b or later stays held, whichever copy is
\* acknowledged, flushed or lost.
LEMMA HeldStays ==
  ASSUME CustodyInv, [Next]_vars, "xadd" \notin Faults, NEW t \in Tasks, NEW b \in Nat, Held(t, b)
  PROVE  Held(t, b)'
<1>. Typed /\ TypeOK /\ AckInv
  BY DEF CustodyInv, AckInv, Typed
<1>1. CASE Settled(t)
  BY <1>1, SettledStays DEF Held
<1>2. ASSUME NEW r \in retrySet, HeldByMember(t, b, r) PROVE Held(t, b)'
  BY <1>2, MemberHolds
<1>3. ASSUME NEW m \in 1 .. Len(stream), HeldByEntry(t, b, m) PROVE Held(t, b)'
  <2>1. CASE \A d \in Deliveries : Acknowledge(d) => worker[d].msg # m
    BY <1>3, <2>1, EntryHolds
  <2>2. ASSUME NEW d \in Deliveries, Acknowledge(d), worker[d].msg = m PROVE Held(t, b)'
    <3>1. Key(d) = stream[m] /\ Key(d) \in Keys /\ Recorded(Key(d))
      BY <2>2, KeyType DEF AckInv, OutcomesKnown, Acknowledge, Recorded, Key, Busy
    <3>2. Key(d).task = t /\ Key(d).attempt \in Attempts /\ Key(d).attempt >= b
      BY <1>3, <3>1 DEF HeldByEntry, Keys
    <3>3. CASE accepted[Key(d)] > 0 \/ dlq[Key(d)] > 0
      <4>1. Key(d) = attemptKey(t, Key(d).attempt)
        BY <3>1, <3>2 DEF Keys, attemptKey
      <4>2. Settled(t)
        BY <3>2, <3>3, <4>1 DEF Settled
      <4>. QED  BY <1>1, <4>2
    <3>4. CASE [task |-> t, attempt |-> Key(d).attempt + 1] \in scheduled
      <4>. DEFINE a == Key(d).attempt + 1
      <4>1. a \in Nat /\ a >= b /\ a > stream[m].attempt
        BY <3>1, <3>2, ConstantsAssumption DEF Attempts
      <4>2. Held(t, a)
        BY <3>4 DEF CustodyInv, ScheduledHeld
      <4>3. ASSUME NEW r \in retrySet, HeldByMember(t, a, r) PROVE Held(t, b)'
        <5>1. r \in Members
          BY DEF TypeOK
        <5>2. HeldByMember(t, b, r)
          BY <4>1, <4>3, <5>1 DEF HeldByMember, Members, Attempts
        <5>. QED  BY <5>2, MemberHolds
      <4>4. ASSUME NEW n \in 1 .. Len(stream), HeldByEntry(t, a, n) PROVE Held(t, b)'
        <5>1. stream[n] \in Keys
          BY DEF TypeOK
        <5>2. HeldByEntry(t, b, n) /\ n # m
          BY <4>1, <4>4, <5>1 DEF HeldByEntry, Keys, Attempts
        <5>3. \A e \in Deliveries : Acknowledge(e) => worker[e].msg # n
          <6>. SUFFICES ASSUME NEW e \in Deliveries, Acknowledge(e), worker[e].msg = n PROVE FALSE
            OBVIOUS
          <6>1. e # d
            BY <2>2, <5>2
          <6>2. Busy(d) /\ Busy(e)
            BY <2>2 DEF Acknowledge, Busy
          <6>3. worker'[d].pc # worker[d].pc /\ worker'[e] = worker[e]
            BY <2>2, <6>1, GotoType, FinishType DEF Acknowledge, Pcs, NoWork
          <6>4. worker'[e].pc # worker[e].pc
            BY GotoType, FinishType DEF Acknowledge, Pcs, NoWork
          <6>. QED  BY <6>3, <6>4
        <5>. QED  BY <5>2, <5>3, EntryHolds
      <4>. QED  BY <1>1, <4>2, <4>3, <4>4 DEF Held
    <3>. QED  BY <3>1, <3>2, <3>3, <3>4 DEF Recorded
  <2>. QED  BY <2>1, <2>2
<1>. QED  BY <1>1, <1>2, <1>3 DEF Held

\* A scheduled attempt is held by its member, then by the entry XADDed for it.
LEMMA ScheduledHeldNext ==
  ASSUME CustodyInv, [Next]_vars, "xadd" \notin Faults PROVE ScheduledHeld'
<1>. USE DEF redisVars, historyVars
<1>. Typed /\ TypeOK /\ Typed' /\ TypeOK' /\ MembersScheduled /\ ScheduledHeld
  BY TypedNext DEF CustodyInv, AckInv, Typed
<1>. SUFFICES ASSUME NEW k \in scheduled' PROVE Held(k.task, k.attempt)'
  BY DEF ScheduledHeld
<1>1. k \in Keys /\ k.task \in Tasks /\ k.attempt \in Nat
  BY DEF TypeOK, Keys, Attempts
<1>2. CASE k \in scheduled
  BY <1>1, <1>2, HeldStays DEF ScheduledHeld
<1>3. ASSUME NEW d \in Deliveries, ScheduleRetry(d), k \notin scheduled
      PROVE  Held(k.task, k.attempt)'
  <2>1. PICK r : r = RetryMember(d)
    OBVIOUS
  <2>2. k = KeyOf(r) /\ r \in retrySet'
    BY <1>3, <2>1 DEF ScheduleRetry
  <2>3. \A p \in Pods : r \notin batch'[p]
    BY <1>3, <2>2 DEF ScheduleRetry, MembersScheduled
  <2>4. r \in Members /\ r.task = k.task /\ r.attempt = k.attempt
    BY <2>2 DEF KeyOf, TypeOK
  <2>5. HeldByMember(k.task, k.attempt, r)'
    BY <1>1, <2>2, <2>3, <2>4 DEF HeldByMember, Undone
  <2>. QED  BY <2>2, <2>5 DEF Held
<1>4. k \in scheduled \/ \E d \in Deliveries : ScheduleRetry(d)
  BY DEF Next, vars, Receive, Process, Flush, Time, ReadGroup, ClaimStale, Enqueue,
     SetProcessing, Acquirable, IsCompleted, TryReclaimStale, Reclaimable, SendOk, SendTransient, SendPermanent, SendPanic,
     Acknowledge, SetCompleted, SendToDLQ, ClearProcessing, FlushRead, FlushZrem,
     FlushXadd, FlushBroken, AgeEntry, AgeLock, ExpireLock, Crash
<1>. QED  BY <1>2, <1>3, <1>4

\* A task that is held from some attempt on is held.
LEMMA HeldFromZero ==
  ASSUME TypeOK, NEW t \in Tasks, NEW b \in Nat, Held(t, b) PROVE Held(t, 0)
<1>1. \A r \in retrySet : r.attempt \in Nat
  BY DEF TypeOK, Members, Attempts
<1>2. \A m \in 1 .. Len(stream) : stream[m].attempt \in Nat
  <2>1. \A m \in 1 .. Len(stream) : stream[m] \in Keys
    BY DEF TypeOK
  <2>. QED  BY <2>1 DEF Keys, Attempts
<1>. QED  BY <1>1, <1>2 DEF Held, HeldByMember, HeldByEntry

\* An enqueued task is held from attempt 0 on.
LEMMA EnqueuedHeldNext ==
  ASSUME CustodyInv, [Next]_vars, "xadd" \notin Faults PROVE EnqueuedHeld'
<1>. USE DEF redisVars, historyVars
<1>. Typed /\ TypeOK /\ Typed' /\ TypeOK' /\ MembersScheduled /\ ScheduledHeld /\ EnqueuedHeld
  BY TypedNext DEF CustodyInv, AckInv, Typed
<1>. SUFFICES ASSUME NEW t \in Tasks, Enqueued(t)' PROVE Held(t, 0)'
  BY DEF EnqueuedHeld
<1>1. CASE Held(t, 0)
  BY <1>1, HeldStays
<1>2. CASE Enqueued(t)
  BY <1>1, <1>2 DEF EnqueuedHeld
<1>3. ASSUME NEW k \in Keys, Xadd(k), k.task # t PROVE Enqueued(t)
  <2>1. PICK i \in 1 .. Len(stream') : stream'[i].task = t
    BY DEF Enqueued
  <2>2. /\ Len(stream') = Len(stream) + 1 /\ Len(stream) \in Nat
        /\ \A j \in 1 .. Len(stream) : stream'[j] = stream[j]
        /\ stream'[Len(stream) + 1] = k
    <3>1. stream \in Seq(Keys) /\ Len(stream) \in Nat
      BY StreamType
    <3>. QED  BY <1>3, <3>1, XaddFacts
  <2>3. i \in 1 .. Len(stream)
    BY <1>3, <2>1, <2>2
  <2>. QED  BY <2>1, <2>2, <2>3 DEF Enqueued
<1>4. ASSUME NEW s \in Tasks, Enqueue(s) PROVE Held(t, 0)'
  <2>1. attemptKey(s, 0) \in Keys /\ attemptKey(s, 0).task = s /\ attemptKey(s, 0).attempt = 0
    BY ConstantsAssumption DEF attemptKey, Keys, Attempts
  <2>2. Xadd(attemptKey(s, 0)) /\ lastRead' = lastRead
    BY <1>4 DEF Enqueue
  <2>3. CASE s # t
    BY <1>2, <1>3, <2>1, <2>2, <2>3
  <2>4. CASE s = t
    <3>1. Len(stream) \in Nat /\ lastRead \in 0 .. Len(stream)
      BY StreamType
    <3>2. PICK i \in Nat : i = Len(stream) + 1
      BY <3>1
    <3>3. Len(stream') = i /\ stream'[i] = attemptKey(s, 0)
      BY <2>1, <2>2, <3>2, XaddFacts DEF TypeOK
    <3>4. i \in 1 .. Len(stream') /\ i > lastRead'
      BY <2>2, <3>1, <3>2, <3>3
    <3>5. HeldByEntry(t, 0, i)'
      BY <2>1, <2>4, <3>3, <3>4 DEF HeldByEntry, Unacked
    <3>. QED  BY <3>4, <3>5 DEF Held
  <2>. QED  BY <2>3, <2>4
<1>5. ASSUME NEW p \in Pods, NEW m \in todo[p], FlushXadd(p, m) PROVE Held(t, 0)'
  <2>1. m \in Members /\ KeyOf(m) \in Keys /\ KeyOf(m).task = m.task /\ KeyOf(m) \in scheduled
    BY DEF TypeOK, Members, KeyOf, Keys, MembersScheduled
  <2>2. CASE m.task = t
    <3>1. Held(t, KeyOf(m).attempt) /\ KeyOf(m).attempt \in Nat
      BY <2>1, <2>2 DEF ScheduledHeld, Keys, Attempts
    <3>. QED  BY <1>1, <3>1, HeldFromZero
  <2>3. CASE m.task # t
    <3>1. Xadd(KeyOf(m))
      BY <1>5 DEF FlushXadd, Fault
    <3>. QED  BY <1>2, <1>3, <2>1, <2>3, <3>1
  <2>. QED  BY <2>2, <2>3
<1>6. CASE UNCHANGED stream
  BY <1>2, <1>6 DEF Enqueued
<1>. QED
  BY <1>4, <1>5, <1>6 DEF Next, vars, Receive, Process, Flush, Time, ReadGroup, ClaimStale,
     SetProcessing, Acquirable, IsCompleted, TryReclaimStale, Reclaimable, SendOk, SendTransient, SendPermanent, SendPanic,
     Acknowledge, SetCompleted, ScheduleRetry, SendToDLQ, ClearProcessing, FlushRead, FlushZrem,
     FlushBroken, AgeEntry, AgeLock, ExpireLock, Crash

\* CustodyInv is inductive when no XADD of a flush is refused.
LEMMA CustodyNext ==
  ASSUME "xadd" \notin Faults PROVE CustodyInv /\ [Next]_vars => CustodyInv'
<1>. SUFFICES ASSUME CustodyInv, [Next]_vars PROVE CustodyInv'
  OBVIOUS
<1>1. AckInv'
  BY AckNext DEF CustodyInv
<1>2. MembersScheduled'
  BY MembersScheduledNext DEF CustodyInv, AckInv
<1>. QED  BY <1>1, <1>2, ScheduledHeldNext, EnqueuedHeldNext DEF CustodyInv

\* CustodyInv holds in every reachable state, under the same assumption.
LEMMA CustodyInvariant ==
  ASSUME "xadd" \notin Faults PROVE Spec => []CustodyInv
BY CustodyInit, CustodyNext, PTL DEF Spec

\* At-least-once: whatever else fails, as long as no XADD of a flush pipeline is
\* refused while its ZREM runs, every task enqueued is settled or still held by
\* the stream, the PEL or the retry set.
THEOREM AtLeastOnce ==
  ASSUME "xadd" \notin Faults PROVE Spec => []NoTaskLost
<1>1. CustodyInv => NoTaskLost
  BY DEF CustodyInv, EnqueuedHeld, NoTaskLost, Held, HeldByEntry, HeldByMember, Live
<1>. QED  BY <1>1, CustodyInvariant, PTL

-------------------------------------------------------------------------------
(* The flush pipeline removes only what it has added, as long as no XADD   *)
(* is refused                                                              *)

InStream(k) == \E i \in 1 .. Len(stream) : stream[i] = k

\* What a pod has ticked off its batch is in the stream.
TickedOff == \A p \in Pods : \A r \in batch[p] \ todo[p] : InStream(KeyOf(r))

\* The stream loses nothing.
LEMMA InStreamStays ==
  ASSUME Typed, [Next]_vars, NEW k, InStream(k)
  PROVE  InStream(k)'
<1>1. PICK i \in 1 .. Len(stream) : stream[i] = k
  BY DEF InStream
<1>2. i \in 1 .. Len(stream') /\ stream'[i] = k
  <2>1. Len(stream) \in Nat /\ Len(stream') \in Nat
    BY StreamType, TypedNext, LengthType DEF Typed, TypeOK
  <2>. QED  BY <1>1, <2>1, Growth
<1>. QED  BY <1>2 DEF InStream

\* An XADD that is not refused puts its member's attempt into the stream.
LEMMA TickedOffNext ==
  ASSUME "xadd" \notin Faults PROVE Typed /\ TickedOff /\ [Next]_vars => TickedOff'
<1>. SUFFICES ASSUME Typed, TickedOff, [Next]_vars, NEW p \in Pods, NEW r \in batch'[p] \ todo'[p]
              PROVE  InStream(KeyOf(r))'
  BY DEF TickedOff
<1>. USE DEF redisVars, historyVars
<1>. TypeOK
  BY DEF Typed
<1>1. CASE r \in batch[p] \ todo[p]
  BY <1>1, InStreamStays DEF TickedOff
<1>2. ASSUME NEW q \in Pods, NEW m \in todo[q], FlushXadd(q, m), r \notin batch[p] \ todo[p]
      PROVE  InStream(KeyOf(r))'
  <2>1. r = m
    BY <1>2 DEF FlushXadd, TypeOK
  <2>2. KeyOf(m) \in Keys /\ Xadd(KeyOf(m))
    BY <1>2 DEF FlushXadd, Fault, TypeOK, Members, KeyOf, Keys
  <2>3. Len(stream) \in Nat /\ Len(stream') = Len(stream) + 1 /\ stream'[Len(stream) + 1] = KeyOf(m)
    BY <2>2, StreamType, XaddFacts
  <2>. QED  BY <2>1, <2>3 DEF InStream
<1>3. ASSUME NEW q \in Pods, FlushRead(q) \/ FlushZrem(q) \/ FlushBroken(q) \/ Crash(q)
      PROVE  r \in batch[p] \ todo[p]
  BY <1>3 DEF FlushRead, FlushZrem, FlushBroken, Crash, TypeOK
<1>4. CASE UNCHANGED <<batch, todo>>
  BY <1>1, <1>4
<1>. QED
  BY <1>1, <1>2, <1>3, <1>4 DEF Next, vars, Receive, Process, Flush, Time, ReadGroup,
     ClaimStale, Enqueue, SetProcessing, IsCompleted, TryReclaimStale, SendOk, SendTransient,
     SendPermanent, SendPanic, Acknowledge, SetCompleted, ScheduleRetry, SendToDLQ, ClearProcessing,
     AgeEntry, AgeLock, ExpireLock

\* A member leaves the retry set only when its attempt is in the stream, if Redis
\* refuses no XADD inside the pipeline of FlushReady: that is the only failure that
\* makes the comment in retry_scheduler.go untrue.
THEOREM FlushKeeps ==
  ASSUME "xadd" \notin Faults PROVE Spec => RemovedOnlyIfAdded
<1>1. Init => Typed /\ TickedOff
  BY TypedInit DEF Init, TickedOff
<1>2. Typed /\ TickedOff /\ [Next]_vars => Typed' /\ TickedOff'
  BY TypedNext, TickedOffNext
<1>3. Typed /\ TickedOff /\ [Next]_vars
        => [\A r \in retrySet \ retrySet' : \E i \in 1 .. Len(stream) : stream[i] = KeyOf(r)]_vars
  <2>. SUFFICES ASSUME Typed, TickedOff, [Next]_vars, NEW r \in retrySet \ retrySet'
                PROVE  InStream(KeyOf(r))
    BY DEF InStream
  <2>. USE DEF redisVars, historyVars
  <2>1. PICK p \in Pods : FlushZrem(p) \/ FlushBroken(p)
    BY DEF Next, vars, Receive, Process, Flush, Time, ReadGroup,
       ClaimStale, Enqueue, SetProcessing, IsCompleted, TryReclaimStale, SendOk, SendTransient,
       SendPermanent, SendPanic, Acknowledge, SetCompleted, ScheduleRetry, SendToDLQ, ClearProcessing,
       FlushRead, FlushXadd, Crash, AgeEntry, AgeLock, ExpireLock
  <2>2. r \in batch[p] \ todo[p]
    BY <2>1 DEF FlushZrem, FlushBroken
  <2>. QED  BY <2>2 DEF TickedOff
<1>. QED  BY <1>1, <1>2, <1>3, PTL DEF Spec, RemovedOnlyIfAdded

-------------------------------------------------------------------------------
(* The idempotency gate is a mutex on attempts, as long as no lock ages or *)
(* expires while its holder is at work.                                    *)

\* A delivery past the gate owns the key of its attempt, and nothing can
\* reclaim it.  This is what makes ExclusiveAttempt inductive.
HoldersLocked ==
  \A d \in Deliveries :
    worker[d].pc \in HoldPcs => lock[Key(d)] = "processing" /\ Key(d) \notin stale

LockInv == Typed /\ HoldersLocked /\ ExclusiveAttempt

\* A delivery moves one step at a time, and its entry does not change.
LEMMA ProcessKeeps ==
  ASSUME Typed, NEW d \in Deliveries, Process(d)
  PROVE  /\ \A e \in Deliveries : e # d => worker'[e] = worker[e]
         /\ worker'[d].pc # "none" => worker'[d].msg = worker[d].msg
         /\ Busy(d)
<1>. TypeOK
  BY DEF Typed
<1>1. ASSUME NEW e \in TransientErrors, SendTransient(d, e)
      PROVE  /\ \A f \in Deliveries : f # d => worker'[f] = worker[f]
             /\ worker'[d].msg = worker[d].msg
             /\ Busy(d)
  BY <1>1 DEF SendTransient, Calls, TypeOK, WorkerStates, Busy
<1>2. Busy(d)
  BY <1>1 DEF Process, SetProcessing, Acquirable, IsCompleted, TryReclaimStale, Reclaimable, SendOk, SendPermanent, SendPanic,
     Acknowledge, SetCompleted, ScheduleRetry, SendToDLQ, ClearProcessing, Calls, Busy
<1>3. CASE \E pc \in Pcs : Goto(d, pc)
  BY <1>2, <1>3, GotoType
<1>4. CASE Finish(d)
  BY <1>2, <1>4, FinishType DEF NoWork
<1>5. \/ \E pc \in Pcs : Goto(d, pc)
      \/ Finish(d)
      \/ UNCHANGED worker
      \/ \E e \in TransientErrors : SendTransient(d, e)
  <2>1. {"check", "reclaim", "send", "ackSent", "complete", "retry", "dlq", "clear", "ack"} \subseteq Pcs
    BY DEF Pcs
  <2>. QED
    BY <2>1 DEF Process, SetProcessing, Acquirable, IsCompleted, TryReclaimStale, Reclaimable, SendOk, SendPermanent, SendPanic,
       Acknowledge, SetCompleted, ScheduleRetry, SendToDLQ, ClearProcessing
<1>6. CASE UNCHANGED worker
  BY <1>2, <1>6
<1>. QED  BY <1>1, <1>2, <1>3, <1>4, <1>5, <1>6

\* Who is past the gate after a step was there before, or has just passed it.
LEMMA PassGate ==
  ASSUME Typed, [Next]_vars, NEW c \in Deliveries, worker'[c].pc \in HoldPcs
  PROVE  /\ Busy(c) /\ Key(c) \in Keys /\ Key(c)' = Key(c)
         /\ \/ worker[c].pc \in HoldPcs
            \/ SetProcessing(c) /\ lock[Key(c)] = "absent"
            \/ TryReclaimStale(c) /\ lock[Key(c)] = "processing" /\ Key(c) \in stale
<1>. USE DEF redisVars, historyVars
<1>. TypeOK
  BY DEF Typed
<1>1. CASE worker'[c] = worker[c]
  <2>1. Busy(c) /\ worker[c].pc \in HoldPcs
    BY <1>1 DEF Busy, HoldPcs
  <2>. QED  BY <1>1, <2>1, KeyType, Growth DEF Key
<1>2. CASE worker'[c] # worker[c]
  <2>1. Process(c)
    <3>1. ASSUME NEW d \in Deliveries, Receive(d) PROVE worker'[c].pc \notin HoldPcs
      BY <1>2, <3>1 DEF Receive, ReadGroup, ClaimStale, Start, TypeOK, HoldPcs
    <3>2. ASSUME NEW p \in Pods, Flush(p) \/ FlushBroken(p) \/ Crash(p)
          PROVE  worker'[c].pc \notin HoldPcs
      BY <1>2, <3>2 DEF Flush, FlushRead, FlushXadd, FlushZrem, FlushBroken, Crash, NoWork, HoldPcs
    <3>3. ASSUME NEW d \in Deliveries, Process(d) PROVE Process(c)
      BY <1>2, <3>3, ProcessKeeps
    <3>. QED  BY <1>2, <3>1, <3>2, <3>3 DEF Next, vars, Enqueue, Time, AgeEntry, AgeLock, ExpireLock
  <2>2. worker'[c].pc # "none"
    BY DEF HoldPcs
  <2>3. Busy(c) /\ Key(c) \in Keys /\ Key(c)' = Key(c)
    BY <2>1, <2>2, ProcessKeeps, KeyType, Growth DEF Key
  <2>4. CASE SetProcessing(c)
    BY <2>3, <2>4, GotoType DEF SetProcessing, Acquirable, Pcs, HoldPcs
  <2>5. CASE IsCompleted(c)
    BY <2>5, GotoType DEF IsCompleted, Pcs, HoldPcs
  <2>6. CASE TryReclaimStale(c)
    BY <2>3, <2>6, FinishType DEF TryReclaimStale, Reclaimable, NoWork, HoldPcs
  <2>7. CASE Acknowledge(c) /\ worker[c].pc = "ack"
    BY <2>7, FinishType DEF Acknowledge, NoWork, HoldPcs
  <2>. QED
    BY <2>1, <2>3, <2>4, <2>5, <2>6, <2>7 DEF Process, SendOk, SendTransient, SendPermanent, SendPanic,
       Acknowledge, SetCompleted, ScheduleRetry, SendToDLQ, ClearProcessing, Calls, HoldPcs
<1>. QED  BY <1>1, <1>2

\* What happens to the key of attempt k in a step.
LEMMA LockStep ==
  ASSUME Typed, [Next]_vars, Faults \cap {"slow", "ttl"} = {}, NEW k \in Keys
  PROVE  \/ lock'[k] = lock[k] /\ (k \in stale' <=> k \in stale)
         \/ \E d \in Deliveries : SetProcessing(d) /\ k = Key(d) /\ lock[k] = "absent"
                                  /\ lock'[k] = "processing" /\ k \notin stale'
         \/ \E d \in Deliveries : TryReclaimStale(d) /\ k = Key(d) /\ lock[k] = "processing"
                                  /\ k \in stale /\ lock'[k] = lock[k] /\ k \notin stale'
         \/ \E d \in Deliveries : SetCompleted(d) /\ k = Key(d)
                                  /\ (lock[k] = "processing" => lock'[k] = "completed")
                                  /\ (lock[k] = "completed" => lock'[k] = "completed")
         \/ \E d \in Deliveries : ClearProcessing(d) /\ k = Key(d)
         \/ AgeLock(k) /\ lock'[k] = lock[k] /\ \A d \in Deliveries : ~Holding(d, k)
<1>. USE DEF redisVars, historyVars
<1>. TypeOK
  BY DEF Typed
<1>. DEFINE Same == lock'[k] = lock[k] /\ (k \in stale' <=> k \in stale)
<1>1. CASE UNCHANGED <<lock, stale>>
  BY <1>1
<1>2. ASSUME NEW d \in Deliveries, SetProcessing(d)
      PROVE  Same \/ (k = Key(d) /\ lock[k] = "absent" /\ lock'[k] = "processing" /\ k \notin stale')
  BY <1>2 DEF SetProcessing, Acquirable, TypeOK
<1>3. ASSUME NEW d \in Deliveries, TryReclaimStale(d)
      PROVE  Same \/ (k = Key(d) /\ lock[k] = "processing" /\ k \in stale /\ lock'[k] = lock[k]
                      /\ k \notin stale')
  BY <1>3 DEF TryReclaimStale, Reclaimable
<1>4. ASSUME NEW d \in Deliveries, SetCompleted(d)
      PROVE  Same \/ (k = Key(d) /\ (lock[k] = "processing" => lock'[k] = "completed")
                                 /\ (lock[k] = "completed" => lock'[k] = "completed"))
  BY <1>4 DEF SetCompleted, TypeOK
<1>5. ASSUME NEW d \in Deliveries, ClearProcessing(d) PROVE Same \/ k = Key(d)
  BY <1>5 DEF ClearProcessing, TypeOK
<1>6. ASSUME NEW j \in Keys, AgeLock(j)
      PROVE  Same \/ (AgeLock(k) /\ lock'[k] = lock[k] /\ \A d \in Deliveries : ~Holding(d, k))
  BY <1>6 DEF AgeLock, Fault
<1>7. ASSUME NEW j \in Keys, ExpireLock(j) PROVE FALSE
  BY <1>7 DEF ExpireLock, Fault
<1>. QED
  BY <1>1, <1>2, <1>3, <1>4, <1>5, <1>6, <1>7 DEF Next, vars, Receive, Process, Flush, Time, ReadGroup,
     ClaimStale, Enqueue, IsCompleted, SendOk, SendTransient, SendPermanent, SendPanic,
     Acknowledge, ScheduleRetry, SendToDLQ, FlushRead, FlushZrem,
     FlushXadd, FlushBroken, AgeEntry, Crash

\* Whoever works on an attempt has its lock, fresh, when locks neither expire
\* nor age under their holder.
LEMMA HoldersLockedNext ==
  ASSUME LockInv, [Next]_vars, Faults \cap {"slow", "ttl"} = {} PROVE HoldersLocked'
<1>. Typed /\ TypeOK /\ HoldersLocked /\ ExclusiveAttempt
  BY DEF LockInv, Typed
<1>. SUFFICES ASSUME NEW c \in Deliveries, worker'[c].pc \in HoldPcs
              PROVE  lock'[Key(c)'] = "processing" /\ Key(c)' \notin stale'
  BY DEF HoldersLocked
<1>1. Key(c) \in Keys /\ Key(c)' = Key(c)
  BY PassGate
<1>2. CASE worker[c].pc \in HoldPcs
  <2>1. lock[Key(c)] = "processing" /\ Key(c) \notin stale /\ Holding(c, Key(c))
    BY <1>2 DEF HoldersLocked, Holding
  <2>2. ASSUME NEW d \in Deliveries, SetCompleted(d) \/ ClearProcessing(d), Key(c) = Key(d)
        PROVE  FALSE
    <3>1. worker[d].pc \in HoldPcs
      BY <2>2 DEF SetCompleted, ClearProcessing, HoldPcs
    <3>2. c = d
      BY <1>2, <2>2, <3>1 DEF ExclusiveAttempt
    <3>3. worker'[c].pc = "none"
      BY <2>2, <3>2, FinishType DEF SetCompleted, ClearProcessing, NoWork
    <3>. QED  BY <3>3 DEF HoldPcs
  <2>. QED  BY <1>1, <2>1, <2>2, LockStep
<1>3. CASE SetProcessing(c) /\ lock[Key(c)] = "absent"
  <2>1. \/ lock' = [lock EXCEPT ![Key(c)] = "processing"] /\ stale' = stale \ {Key(c)}
        \/ Goto(c, "check")
    BY <1>3 DEF SetProcessing, Acquirable
  <2>2. ~Goto(c, "check")
    BY GotoType DEF Pcs, HoldPcs
  <2>3. lock \in [Keys -> Statuses]
    BY DEF TypeOK
  <2>. QED  BY <1>1, <2>1, <2>2, <2>3
<1>4. CASE TryReclaimStale(c) /\ lock[Key(c)] = "processing" /\ Key(c) \in stale
  <2>1. ~Finish(c)
    BY FinishType DEF NoWork, HoldPcs
  <2>. QED  BY <1>1, <1>4, <2>1 DEF TryReclaimStale, Reclaimable
<1>. QED  BY <1>2, <1>3, <1>4, PassGate

\* No step brings a second delivery past the gate of an attempt somebody works
\* on.
LEMMA ExclusiveNext ==
  ASSUME LockInv, [Next]_vars, Faults \cap {"slow", "ttl"} = {} PROVE ExclusiveAttempt'
<1>. Typed /\ TypeOK /\ HoldersLocked /\ ExclusiveAttempt
  BY DEF LockInv, Typed
<1>. SUFFICES ASSUME NEW c1 \in Deliveries, NEW c2 \in Deliveries, worker'[c1].pc \in HoldPcs,
                     worker'[c2].pc \in HoldPcs, Key(c1)' = Key(c2)'
              PROVE  c1 = c2
  BY DEF ExclusiveAttempt
<1>1. Key(c1) = Key(c2)
  BY PassGate
<1>2. CASE worker[c1].pc \in HoldPcs /\ worker[c2].pc \in HoldPcs
  BY <1>1, <1>2 DEF ExclusiveAttempt
<1>3. ASSUME NEW a \in Deliveries, NEW b \in Deliveries, worker[a].pc \notin HoldPcs, Key(a) = Key(b),
             worker'[a].pc \in HoldPcs, worker'[b].pc \in HoldPcs
      PROVE  a = b
  <2>1. /\ SetProcessing(a) \/ TryReclaimStale(a)
        /\ lock[Key(a)] = "absent" \/ Key(a) \in stale
    BY <1>3, PassGate
  <2>2. CASE worker[b].pc \in HoldPcs
    BY <1>3, <2>1, <2>2 DEF HoldersLocked
  <2>3. CASE worker[b].pc \notin HoldPcs
    <3>1. worker'[b] # worker[b]
      BY <1>3, <2>3
    <3>. QED  BY <2>1, <3>1, ProcessKeeps DEF Process
  <2>. QED  BY <2>2, <2>3
<1>. QED  BY <1>1, <1>2, <1>3

\* LockInv holds in every reachable state, under the same assumption.
LEMMA LockInvariant ==
  ASSUME Faults \cap {"slow", "ttl"} = {} PROVE Spec => []LockInv
<1>1. Init => LockInv
  BY TypedInit DEF LockInv, HoldersLocked, ExclusiveAttempt, Init, NoWork, HoldPcs
<1>2. LockInv /\ [Next]_vars => LockInv'
  BY TypedNext, HoldersLockedNext, ExclusiveNext DEF LockInv
<1>. QED  BY <1>1, <1>2, PTL DEF Spec

\* Mutual exclusion on attempts: crashes, lost replies, failed acknowledgements
\* and duplicate entries included, two deliveries are never past the idempotency
\* gate for the same attempt, if no lock ages or expires under its holder.
THEOREM MutualExclusion ==
  ASSUME Faults \cap {"slow", "ttl"} = {} PROVE Spec => []ExclusiveAttempt
<1>1. LockInv => ExclusiveAttempt
  BY DEF LockInv
<1>. QED  BY <1>1, LockInvariant, PTL

\* No step takes a completed record back.
LEMMA CompletedStays ==
  ASSUME LockInv, [Next]_vars, Faults \cap {"slow", "ttl"} = {}, NEW k \in Keys,
         lock[k] = "completed"
  PROVE  lock'[k] = "completed"
<1>1. ASSUME NEW d \in Deliveries, ClearProcessing(d), k = Key(d) PROVE FALSE
  BY <1>1 DEF LockInv, HoldersLocked, ClearProcessing, HoldPcs
<1>. QED  BY <1>1, LockStep DEF LockInv

\* Under the same assumption a "completed" record is final: no DEL of a failed
\* attempt, no reclaim and no acquisition ever undoes one.
THEOREM CompletedFinal ==
  ASSUME Faults \cap {"slow", "ttl"} = {} PROVE Spec => CompletedIsFinal
<1>1. LockInv /\ [Next]_vars => [\A k \in Keys : lock[k] = "completed" => lock'[k] = "completed"]_vars
  BY CompletedStays
<1>. QED  BY <1>1, LockInvariant, PTL DEF Spec, CompletedIsFinal

\* An attempt with an accepted email is completed or about to be.
AcceptedLocked ==
  \A k \in Keys : accepted[k] > 0 =>
    \/ lock[k] = "completed"
    \/ \E d \in Deliveries : worker[d].pc \in {"ackSent", "complete"} /\ Key(d) = k

OnceInv == LockInv /\ AcceptedLocked /\ AcceptedOncePerAttempt

\* Failures after which an attempt can be sent twice although its lock works.
ResendFaults == {"slow", "ttl", "crash", "complete", "ambiguous"}

\* Only a first email is counted.
LEMMA AcceptStep ==
  ASSUME OnceInv, [Next]_vars, Faults \cap ResendFaults = {}
  PROVE  \/ UNCHANGED accepted
         \/ \E d \in Deliveries : SendOk(d) /\ Key(d) \in Keys /\ accepted' = Bump(accepted, Key(d))
                                  /\ accepted[Key(d)] = 0
<1>. USE DEF redisVars, historyVars
<1>. Typed /\ TypeOK /\ HoldersLocked /\ ExclusiveAttempt
  BY DEF OnceInv, LockInv, Typed
<1>1. ASSUME NEW d \in Deliveries, SendOk(d)
      PROVE  Key(d) \in Keys /\ accepted' = Bump(accepted, Key(d)) /\ accepted[Key(d)] = 0
  <2>1. Key(d) \in Keys /\ worker[d].pc = "send" /\ accepted' = Bump(accepted, Key(d))
    BY <1>1, KeyType DEF SendOk, Calls, Busy
  <2>2. lock[Key(d)] = "processing"
    BY <2>1 DEF HoldersLocked, HoldPcs
  <2>3. ASSUME NEW e \in Deliveries, worker[e].pc \in {"ackSent", "complete"}, Key(e) = Key(d)
        PROVE  FALSE
    BY <2>1, <2>3 DEF ExclusiveAttempt, HoldPcs
  <2>4. ~(accepted[Key(d)] > 0)
    BY <2>1, <2>2, <2>3 DEF OnceInv, AcceptedLocked
  <2>. QED  BY <2>1, <2>4 DEF TypeOK
<1>2. ASSUME NEW d \in Deliveries, NEW e \in TransientErrors, SendTransient(d, e)
      PROVE  UNCHANGED accepted
  BY <1>2 DEF SendTransient, Fault, ResendFaults
<1>. QED
  BY <1>1, <1>2 DEF Next, vars, Receive, Process, Flush, Time, ReadGroup, ClaimStale, Enqueue,
     SetProcessing, Acquirable, IsCompleted, TryReclaimStale, Reclaimable, SendPermanent, SendPanic,
     Acknowledge, SetCompleted, ScheduleRetry, SendToDLQ, ClearProcessing, FlushRead, FlushZrem,
     FlushXadd, FlushBroken, AgeEntry, AgeLock, ExpireLock, Crash

\* The delivery whose email was accepted goes on to mark its lock "completed".
LEMMA AcceptorStep ==
  ASSUME OnceInv, [Next]_vars, Faults \cap ResendFaults = {}, NEW d \in Deliveries,
         worker[d].pc \in {"ackSent", "complete"}
  PROVE  \/ lock'[Key(d)] = "completed"
         \/ worker'[d].pc \in {"ackSent", "complete"} /\ Key(d)' = Key(d)
<1>. Typed /\ TypeOK /\ HoldersLocked
  BY DEF OnceInv, LockInv, Typed
<1>1. Busy(d) /\ Key(d) \in Keys /\ worker[d].msg \in 1 .. Len(stream)
  BY KeyType DEF Busy
<1>2. CASE worker'[d] = worker[d]
  BY <1>1, <1>2, Growth DEF Key
<1>3. CASE worker'[d] # worker[d]
  <2>1. Process(d)
    <3>1. ASSUME NEW e \in Deliveries, Receive(e) PROVE FALSE
      BY <1>1, <1>3, <3>1 DEF Receive, ReadGroup, ClaimStale, Start, TypeOK, Busy
    <3>2. ASSUME NEW p \in Pods, Crash(p) PROVE FALSE
      BY <3>2 DEF Crash, Fault, ResendFaults
    <3>3. ASSUME NEW e \in Deliveries, Process(e) PROVE Process(d)
      BY <1>3, <3>3, ProcessKeeps
    <3>. QED  BY <1>3, <3>1, <3>2, <3>3 DEF Next, vars, Enqueue, Time, AgeEntry, AgeLock, ExpireLock,
              Flush, FlushRead, FlushXadd, FlushZrem, FlushBroken
  <2>2. Acknowledge(d) \/ SetCompleted(d)
    BY <2>1 DEF Process, SetProcessing, Acquirable, IsCompleted, TryReclaimStale, Reclaimable, SendOk, SendTransient,
       SendPermanent, SendPanic, ScheduleRetry, SendToDLQ, ClearProcessing, Calls
  <2>3. CASE Acknowledge(d) /\ worker[d].pc = "ackSent"
    <3>1. Goto(d, "complete")
      BY <2>3 DEF Acknowledge
    <3>2. worker'[d].pc = "complete" /\ worker'[d].msg = worker[d].msg
      BY <3>1, GotoType DEF Pcs
    <3>. QED  BY <1>1, <3>2, Growth DEF Key
  <2>4. CASE SetCompleted(d)
    <3>1. lock[Key(d)] = "processing"
      BY <2>4 DEF HoldersLocked, SetCompleted, HoldPcs
    <3>. QED  BY <1>1, <2>4, <3>1 DEF SetCompleted, TypeOK, Fault, ResendFaults
  <2>. QED  BY <2>2, <2>3, <2>4 DEF Acknowledge
<1>. QED  BY <1>2, <1>3

\* OnceInv is inductive without the failures that make the code send again.
LEMMA OnceNext ==
  ASSUME Faults \cap ResendFaults = {} PROVE OnceInv /\ [Next]_vars => OnceInv'
<1>. SUFFICES ASSUME OnceInv, [Next]_vars PROVE OnceInv'
  OBVIOUS
<1>. Typed /\ TypeOK /\ LockInv /\ Faults \cap {"slow", "ttl"} = {}
  BY DEF OnceInv, LockInv, Typed, ResendFaults
<1>1. LockInv'
  BY TypedNext, HoldersLockedNext, ExclusiveNext DEF LockInv
<1>2. AcceptedOncePerAttempt'
  <2>. SUFFICES ASSUME NEW k \in Keys PROVE accepted'[k] <= 1
    BY DEF AcceptedOncePerAttempt
  <2>1. accepted[k] <= 1
    BY DEF OnceInv, AcceptedOncePerAttempt
  <2>2. CASE UNCHANGED accepted
    BY <2>1, <2>2
  <2>3. ASSUME NEW j \in Keys, accepted' = Bump(accepted, j), accepted[j] = 0 PROVE accepted'[k] <= 1
    BY <2>1, <2>3 DEF Bump, TypeOK
  <2>. QED  BY <2>2, <2>3, AcceptStep
<1>3. AcceptedLocked'
  <2>. SUFFICES ASSUME NEW k \in Keys, accepted'[k] > 0
                PROVE  \/ lock'[k] = "completed"
                       \/ \E d \in Deliveries : worker'[d].pc \in {"ackSent", "complete"} /\ Key(d)' = k
    BY DEF AcceptedLocked
  <2>1. CASE accepted[k] > 0
    <3>1. CASE lock[k] = "completed"
      BY <3>1, CompletedStays
    <3>2. ASSUME NEW d \in Deliveries, worker[d].pc \in {"ackSent", "complete"}, Key(d) = k
          PROVE  lock'[k] = "completed" \/ (worker'[d].pc \in {"ackSent", "complete"} /\ Key(d)' = k)
      BY <3>2, AcceptorStep
    <3>. QED  BY <2>1, <3>1, <3>2 DEF OnceInv, AcceptedLocked
  <2>2. ASSUME NEW d \in Deliveries, SendOk(d), accepted' = Bump(accepted, Key(d)), ~(accepted[k] > 0)
        PROVE  worker'[d].pc \in {"ackSent", "complete"} /\ Key(d)' = k
    <3>1. Key(d) \in Keys
      BY <2>2, KeyType DEF SendOk, Calls, Busy
    <3>2. k = Key(d)
      <4>1. accepted \in [Keys -> 0 .. Cap]
        BY DEF TypeOK
      <4>. QED  BY <2>2, <3>1, <4>1, BumpType
    <3>3. worker'[d].pc = "ackSent" /\ worker'[d].msg = worker[d].msg /\ stream' = stream
      BY <2>2, GotoType DEF SendOk, Pcs, redisVars
    <3>. QED  BY <3>2, <3>3 DEF Key
  <2>. QED  BY <2>1, <2>2, AcceptStep
<1>. QED  BY <1>1, <1>2, <1>3 DEF OnceInv

\* An attempt is accepted by the provider at most once, however often its entry
\* is delivered and whether or not its acknowledgement works, if no worker dies
\* or stalls, locks do not expire, SetCompleted works and the provider's answer
\* is right.
THEOREM OncePerAttempt ==
  ASSUME Faults \cap ResendFaults = {} PROVE Spec => []AcceptedOncePerAttempt
<1>1. Init => OnceInv
  <2>1. Init => AcceptedLocked /\ AcceptedOncePerAttempt
    BY DEF Init, AcceptedLocked, AcceptedOncePerAttempt
  <2>2. Init => LockInv
    BY TypedInit DEF LockInv, HoldersLocked, ExclusiveAttempt, Init, NoWork, HoldPcs
  <2>. QED  BY <2>1, <2>2 DEF OnceInv
<1>2. OnceInv => AcceptedOncePerAttempt
  BY DEF OnceInv
<1>. QED  BY <1>1, <1>2, OnceNext, PTL DEF Spec

-------------------------------------------------------------------------------
(* The pipeline implements DeliveryContract *)


\* A task is live or settled only if it is held in the sense of CustodyInv, and
\* conversely.
LEMMA HeldIff ==
  ASSUME CustodyInv, NEW t \in Tasks
  PROVE  /\ Held(t, 0) => Settled(t) \/ Live(t)
         /\ Enqueued(t) => Held(t, 0)
         /\ \A k \in scheduled : k.task = t => Held(t, 0)
<1>. TypeOK
  BY DEF CustodyInv, AckInv, Typed
<1>1. Held(t, 0) => Settled(t) \/ Live(t)
  BY DEF Held, HeldByEntry, HeldByMember, Live
<1>2. Enqueued(t) => Held(t, 0)
  BY DEF CustodyInv, EnqueuedHeld
<1>3. ASSUME NEW k \in scheduled, k.task = t PROVE Held(t, 0)
  <2>1. k.attempt \in Nat
    BY DEF TypeOK, Keys, Attempts
  <2>. QED  BY <1>3, <2>1, HeldFromZero DEF CustodyInv, ScheduledHeld
<1>. QED  BY <1>1, <1>2, <1>3

\* What a delivery works on was enqueued.
LEMMA KeyEnqueued ==
  ASSUME Typed, NEW d \in Deliveries, Busy(d) PROVE Enqueued(Key(d).task)
BY KeyType DEF Enqueued, Key

\* A step settles at most the task of one delivery.
LEMMA SettleStep ==
  ASSUME Typed, [Next]_vars
  PROVE  \/ \A t \in Tasks : Settled(t)' => Settled(t)
         \/ \E d \in Deliveries : Busy(d) /\ \A t \in Tasks :
              Settled(t)' => Settled(t) \/ t = Key(d).task
<1>. USE DEF redisVars, historyVars
<1>. TypeOK
  BY DEF Typed
<1>0. \A t \in Tasks : \A a \in Attempts : attemptKey(t, a) \in Keys /\ attemptKey(t, a).task = t
  BY DEF attemptKey, Keys
<1>1. CASE UNCHANGED <<accepted, dlq>>
  BY <1>1 DEF Settled
<1>2. ASSUME NEW d \in Deliveries, Busy(d),
             UNCHANGED accepted \/ accepted' = Bump(accepted, Key(d)),
             UNCHANGED dlq \/ dlq' = Bump(dlq, Key(d)),
             NEW t \in Tasks, Settled(t)'
      PROVE  Settled(t) \/ t = Key(d).task
  <2>1. Key(d) \in Keys
    BY <1>2, KeyType
  <2>2. PICK a \in Attempts : accepted'[attemptKey(t, a)] > 0 \/ dlq'[attemptKey(t, a)] > 0
    BY <1>2 DEF Settled
  <2>3. CASE attemptKey(t, a) # Key(d)
    <3>1. PICK k \in Keys : k = attemptKey(t, a)
      BY <1>0, <2>2
    <3>2. accepted'[k] = accepted[k]
      BY <1>2, <2>1, <2>3, <3>1 DEF Bump, TypeOK
    <3>3. dlq'[k] = dlq[k]
      BY <1>2, <2>1, <2>3, <3>1 DEF Bump, TypeOK
    <3>. QED  BY <2>2, <3>1, <3>2, <3>3 DEF Settled
  <2>4. CASE attemptKey(t, a) = Key(d)
    BY <1>0, <2>4
  <2>. QED  BY <2>3, <2>4
<1>3. \/ UNCHANGED <<accepted, dlq>>
      \/ \E d \in Deliveries : /\ Busy(d)
                               /\ UNCHANGED accepted \/ accepted' = Bump(accepted, Key(d))
                               /\ UNCHANGED dlq \/ dlq' = Bump(dlq, Key(d))
  <2>1. ASSUME NEW d \in Deliveries, SendOk(d) \/ \E e \in TransientErrors : SendTransient(d, e)
        PROVE  Busy(d) /\ UNCHANGED dlq /\ (UNCHANGED accepted \/ accepted' = Bump(accepted, Key(d)))
    BY <2>1 DEF SendOk, SendTransient, Calls, Busy
  <2>2. ASSUME NEW d \in Deliveries, SendToDLQ(d)
        PROVE  Busy(d) /\ UNCHANGED accepted /\ (UNCHANGED dlq \/ dlq' = Bump(dlq, Key(d)))
    BY <2>2 DEF SendToDLQ, Busy
  <2>3. \/ UNCHANGED <<accepted, dlq>>
        \/ \E d \in Deliveries : SendOk(d) \/ \E e \in TransientErrors : SendTransient(d, e)
        \/ \E d \in Deliveries : SendToDLQ(d)
    BY DEF Next, vars, Receive, Process, Flush, Time, ReadGroup, ClaimStale, Enqueue,
       SetProcessing, Acquirable, IsCompleted, TryReclaimStale, Reclaimable, SendPermanent, SendPanic,
       Acknowledge, SetCompleted, ScheduleRetry, ClearProcessing, FlushRead, FlushZrem,
       FlushXadd, FlushBroken, AgeEntry, AgeLock, ExpireLock, Crash
  <2>. QED  BY <2>1, <2>2, <2>3
<1>. QED  BY <1>1, <1>2, <1>3

\* A task that is live after a step was known before it, unless the step is its
\* Enqueue.
LEMMA LiveBefore ==
  ASSUME CustodyInv, [Next]_vars, NEW t \in Tasks, Live(t)', ~Enqueue(t) PROVE Held(t, 0)
<1>. USE DEF redisVars, historyVars
<1>. Typed /\ TypeOK /\ MembersScheduled
  BY DEF CustodyInv, AckInv, Typed
<1>1. CASE \E m \in 1 .. Len(stream') : stream'[m].task = t
  <2>1. PICK m \in 1 .. Len(stream') : stream'[m].task = t
    BY <1>1
  <2>2. CASE m \in 1 .. Len(stream)
    BY <2>1, <2>2, Growth, HeldIff DEF Enqueued
  <2>3. ASSUME NEW k \in Keys, Xadd(k), m \notin 1 .. Len(stream) PROVE k.task = t
    <3>1. stream \in Seq(Keys) /\ Len(stream) \in Nat
      BY StreamType
    <3>2. Len(stream') = Len(stream) + 1 /\ stream'[Len(stream) + 1] = k
      BY <2>3, <3>1, XaddFacts
    <3>3. m = Len(stream) + 1
      BY <2>3, <3>1, <3>2
    <3>. QED  BY <2>1, <3>2, <3>3
  <2>4. ASSUME NEW s \in Tasks, Enqueue(s), m \notin 1 .. Len(stream) PROVE FALSE
    <3>1. attemptKey(s, 0) \in Keys /\ attemptKey(s, 0).task = s /\ Xadd(attemptKey(s, 0))
      BY <2>4, ConstantsAssumption DEF Enqueue, attemptKey, Keys, Attempts
    <3>2. s = t
      BY <2>3, <2>4, <3>1
    <3>. QED  BY <2>4, <3>2
  <2>5. ASSUME NEW p \in Pods, NEW r \in todo[p], FlushXadd(p, r), m \notin 1 .. Len(stream)
        PROVE  Held(t, 0)
    <3>1. KeyOf(r) \in Keys /\ KeyOf(r) \in scheduled
      BY DEF TypeOK, Members, KeyOf, Keys, MembersScheduled
    <3>2. Xadd(KeyOf(r))
      BY <2>1, <2>5 DEF FlushXadd
    <3>3. KeyOf(r).task = t
      BY <2>3, <2>5, <3>1, <3>2
    <3>. QED  BY <3>1, <3>3, HeldIff
  <2>6. CASE UNCHANGED stream
    BY <2>1, <2>2, <2>6
  <2>. QED
    BY <2>2, <2>4, <2>5, <2>6 DEF Next, vars, Receive, Process, Flush, Time, ReadGroup, ClaimStale,
       SetProcessing, Acquirable, IsCompleted, TryReclaimStale, Reclaimable, SendOk, SendTransient, SendPermanent, SendPanic,
       Acknowledge, SetCompleted, ScheduleRetry, SendToDLQ, ClearProcessing, FlushRead, FlushZrem,
       FlushBroken, AgeEntry, AgeLock, ExpireLock, Crash
<1>2. ASSUME NEW r \in retrySet', r.task = t PROVE Held(t, 0)
  <2>1. CASE r \in retrySet
    <3>1. KeyOf(r) \in scheduled /\ KeyOf(r).task = t
      BY <1>2, <2>1 DEF MembersScheduled, KeyOf
    <3>. QED  BY <3>1, HeldIff
  <2>2. ASSUME NEW d \in Deliveries, ScheduleRetry(d), r \notin retrySet PROVE Held(t, 0)
    <3>1. Busy(d) /\ r = RetryMember(d)
      BY <2>2 DEF ScheduleRetry, Busy
    <3>2. Key(d).task = t
      BY <1>2, <3>1 DEF RetryMember
    <3>. QED  BY <3>1, <3>2, KeyEnqueued, HeldIff
  <2>3. r \in retrySet \/ \E d \in Deliveries : ScheduleRetry(d)
    BY DEF Next, vars, Receive, Process, Flush, Time, ReadGroup, ClaimStale, Enqueue,
       SetProcessing, Acquirable, IsCompleted, TryReclaimStale, Reclaimable, SendOk, SendTransient, SendPermanent, SendPanic,
       Acknowledge, SetCompleted, SendToDLQ, ClearProcessing, FlushRead, FlushZrem,
       FlushXadd, FlushBroken, AgeEntry, AgeLock, ExpireLock, Crash
  <2>. QED  BY <2>1, <2>2, <2>3
<1>. QED  BY <1>1, <1>2 DEF Live

\* Every step is a submission, a settlement or invisible to the client.
LEMMA ContractStep ==
  ASSUME CustodyInv, [Next]_vars, "xadd" \notin Faults
  PROVE  Contract!Next \/ UNCHANGED <<PendingTasks, SettledTasks>>
<1>. Typed /\ TypeOK /\ CustodyInv'
  BY CustodyNext DEF CustodyInv, AckInv, Typed
<1>1. SettledTasks \subseteq SettledTasks'
  BY SettledStays DEF SettledTasks
<1>2. ASSUME NEW t \in Tasks, Held(t, 0) PROVE t \in PendingTasks' \cup SettledTasks'
  <2>1. Held(t, 0)'
    BY <1>2, HeldStays
  <2>2. Settled(t)' \/ Live(t)'
    BY <2>1 DEF Held, HeldByEntry, HeldByMember, Live
  <2>. QED  BY <2>2 DEF PendingTasks, SettledTasks
<1>3. ASSUME NEW t \in Tasks, Held(t, 0) PROVE t \in PendingTasks \cup SettledTasks
  BY <1>3, HeldIff DEF PendingTasks, SettledTasks
<1>4. PendingTasks \cap SettledTasks = {} /\ PendingTasks' \cap SettledTasks' = {}
  BY DEF PendingTasks, SettledTasks
<1>5. ASSUME NEW t \in PendingTasks PROVE t \in Tasks /\ Held(t, 0)
  <2>1. t \in Tasks /\ Live(t)
    BY <1>5 DEF PendingTasks
  <2>2. CASE Enqueued(t)
    BY <2>1, <2>2, HeldIff
  <2>3. ASSUME NEW r \in retrySet, r.task = t PROVE Held(t, 0)
    <3>1. KeyOf(r) \in scheduled /\ KeyOf(r).task = t
      BY <2>3 DEF CustodyInv, MembersScheduled, KeyOf
    <3>. QED  BY <2>1, <3>1, HeldIff
  <2>. QED  BY <2>1, <2>2, <2>3 DEF Live, Enqueued
<1>6. ASSUME NEW t \in Tasks, t \in PendingTasks', ~Enqueue(t) PROVE t \in PendingTasks
  <2>1. Live(t)' /\ t \notin SettledTasks
    BY <1>1, <1>4, <1>6 DEF PendingTasks
  <2>2. Held(t, 0)
    BY <1>6, <2>1, LiveBefore
  <2>. QED  BY <1>3, <2>1, <2>2
<1>7. CASE \A t \in Tasks : ~Enqueue(t)
  <2>1. PendingTasks' = PendingTasks \ SettledTasks'
    BY <1>2, <1>4, <1>5, <1>6, <1>7 DEF PendingTasks
  <2>2. CASE SettledTasks' = SettledTasks
    BY <1>4, <2>1, <2>2
  <2>3. CASE SettledTasks' # SettledTasks
    <3>1. PICK d \in Deliveries : Busy(d) /\ SettledTasks' \subseteq SettledTasks \cup {Key(d).task}
      BY <1>1, <2>3, SettleStep DEF SettledTasks
    <3>2. Key(d).task \in Tasks /\ Key(d).task \in SettledTasks' /\ Key(d).task \notin SettledTasks
      BY <1>1, <2>3, <3>1, KeyType
    <3>3. Held(Key(d).task, 0)
      BY <3>1, <3>2, KeyEnqueued, HeldIff
    <3>4. PICK t \in Tasks : t = Key(d).task
      BY <3>2
    <3>5. t \in PendingTasks /\ SettledTasks' = SettledTasks \cup {t} /\ PendingTasks' = PendingTasks \ {t}
      BY <1>1, <1>3, <1>4, <2>1, <3>1, <3>2, <3>3, <3>4
    <3>. QED  BY <3>5 DEF Contract!Next, Contract!Settle
  <2>. QED  BY <2>2, <2>3
<1>8. ASSUME NEW t \in Tasks, Enqueue(t) PROVE Contract!Next \/ UNCHANGED <<PendingTasks, SettledTasks>>
  <2>1. SettledTasks' = SettledTasks
    BY <1>8 DEF Enqueue, historyVars, SettledTasks, Settled
  <2>2. \A s \in Tasks : s # t => ~Enqueue(s)
    <3>. SUFFICES ASSUME NEW s \in Tasks, Enqueue(s) PROVE s = t
      OBVIOUS
    <3>1. attemptKey(s, 0) \in Keys /\ attemptKey(t, 0) \in Keys
      BY ConstantsAssumption DEF attemptKey, Keys, Attempts
    <3>2. Xadd(attemptKey(s, 0)) /\ Xadd(attemptKey(t, 0)) /\ stream \in Seq(Keys)
      BY <1>8 DEF Enqueue, TypeOK
    <3>3. attemptKey(s, 0) = attemptKey(t, 0)
      BY <3>1, <3>2, XaddFacts
    <3>. QED  BY <3>3 DEF attemptKey
  <2>3. PendingTasks' \subseteq PendingTasks \cup {t}
    BY <1>6, <2>2 DEF PendingTasks
  <2>4. PendingTasks \subseteq PendingTasks'
    BY <1>2, <1>4, <1>5, <2>1
  <2>5. CASE t \in PendingTasks' /\ t \notin PendingTasks
    <3>1. PendingTasks' = PendingTasks \cup {t} /\ t \notin SettledTasks
      BY <1>4, <2>1, <2>3, <2>4, <2>5
    <3>. QED  BY <2>1, <2>5, <3>1 DEF Contract!Next, Contract!Submit
  <2>6. CASE ~(t \in PendingTasks' /\ t \notin PendingTasks)
    BY <2>1, <2>3, <2>4, <2>6
  <2>. QED  BY <2>5, <2>6
<1>. QED  BY <1>7, <1>8

\* The pipeline refines the contract of an at-least-once queue: seen from the
\* client, tasks are submitted and settled, one at a time, and nothing else ever
\* happens to one.
THEOREM RefinesContract ==
  ASSUME "xadd" \notin Faults PROVE Spec => ImplementsContract
<1>1. Init => Contract!Init
  <2>. SUFFICES ASSUME Init, NEW t \in Tasks PROVE ~Live(t) /\ ~Settled(t)
    BY DEF Contract!Init, PendingTasks, SettledTasks
  <2>1. ~Live(t)
    BY DEF Init, Live
  <2>2. ASSUME NEW a \in Attempts PROVE ~(accepted[attemptKey(t, a)] > 0) /\ ~(dlq[attemptKey(t, a)] > 0)
    <3>1. PICK k \in Keys : k = attemptKey(t, a)
      BY DEF attemptKey, Keys
    <3>2. accepted[k] = 0 /\ dlq[k] = 0
      BY DEF Init
    <3>. QED  BY <3>1, <3>2
  <2>. QED  BY <2>1, <2>2 DEF Settled
<1>2. CustodyInv /\ [Next]_vars => [Contract!Next]_<<PendingTasks, SettledTasks>>
  BY ContractStep
<1>. QED  BY <1>1, <1>2, CustodyInvariant, PTL DEF Spec, ImplementsContract, Contract!Spec

===============================================================================
