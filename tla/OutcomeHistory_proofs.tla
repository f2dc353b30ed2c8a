------------------------- MODULE OutcomeHistory_proofs -------------------------
(***************************************************************************)
(* Proofs about OutcomeHistory: what ends in two ways was put in doubt,    *)
(* under every kind of failure and for every number of tasks, pods,        *)
(* deliveries and attempts.                                                *)
(***************************************************************************)
EXTENDS OutcomeHistory, DeliveryPipeline_proofs

-------------------------------------------------------------------------------
(* The invariant *)

\* The attempt a retry of attempt k is scheduled as.
After(k) == attemptKey(k.task, k.attempt + 1)

Retried(k) == After(k) \in scheduled

\* Attempt k has no outcome on record.
Unsettled(k) == accepted[k] = 0 /\ dlq[k] = 0 /\ ~Retried(k)

\* A delivery here has passed the gate and has yet to record an outcome.
Undecided == {"send", "retry", "dlq"}

\* Attempt k ends in one way at most.
OneWay(k) ==
  /\ accepted[k] <= 1
  /\ dlq[k] <= 1 + repeats[k]
  /\ accepted[k] = 0 \/ dlq[k] = 0
  /\ Retried(k) => accepted[k] = 0 /\ dlq[k] = 0

\* The gate of attempt k worked: nobody passed it while it was open, one delivery
\* at a time is behind it, and that one finds no outcome on record before it has
\* recorded its own, but for the entries its own call of SendToDLQ has pushed.
Gated(k) ==
  /\ lock[k] = "absent" => Unsettled(k) /\ \A d \in Deliveries : ~Holding(d, k)
  /\ \A d, e \in Deliveries : Holding(d, k) /\ Holding(e, k) => d = e
  /\ \A d \in Deliveries : Holding(d, k) /\ worker[d].pc \in {"send", "retry"} => Unsettled(k)
  /\ \A d \in Deliveries : Holding(d, k) /\ worker[d].pc = "dlq" =>
       accepted[k] = 0 /\ ~Retried(k) /\ dlq[k] <= repeats[k]
  /\ OneWay(k)

GateInv == \A k \in Keys \ doubted : Gated(k)

RepeatsOK == repeats \in [Keys -> Nat]

\* Attempts come one after the other: what was scheduled had all attempts before
\* it scheduled, and what is in the stream, or has an email, was scheduled.
Chain ==
  /\ \A s \in scheduled : s.attempt > 0 /\ \A a \in 1 .. s.attempt : attemptKey(s.task, a) \in scheduled
  /\ \A i \in 1 .. Len(stream) : stream[i].attempt > 0 => stream[i] \in scheduled
  /\ \A k \in Keys : accepted[k] > 0 /\ k.attempt > 0 => k \in scheduled

OutcomeInv == Typed /\ RepeatsOK /\ MembersScheduled /\ Chain /\ GateInv

-------------------------------------------------------------------------------
(* Steps *)

\* The counts are numbers.
LEMMA CountsType ==
  ASSUME TypeOK, NEW k \in Keys
  PROVE  accepted[k] \in Nat /\ dlq[k] \in Nat
BY ConstantsAssumption DEF TypeOK

\* A counted email or DLQ entry is one more, at most.
LEMMA BumpOne ==
  ASSUME NEW f \in [Keys -> 0 .. Cap], NEW j \in Keys, NEW k \in Keys
  PROVE  Bump(f, j)[k] = f[k] \/ (j = k /\ Bump(f, j)[k] = f[k] + 1)
BY ConstantsAssumption DEF Bump

\* Different attempts have different next attempts.
LEMMA AfterInjective ==
  ASSUME NEW j \in Keys, NEW k \in Keys, After(j) = After(k)
  PROVE  j = k
<1>1. j.task = k.task /\ j.attempt + 1 = k.attempt + 1
  BY DEF After, attemptKey
<1>2. j.attempt \in Nat /\ k.attempt \in Nat
  BY ConstantsAssumption DEF Keys, Attempts
<1>3. j.attempt = k.attempt
  BY <1>1, <1>2
<1>. QED  BY <1>1, <1>3 DEF Keys

\* What delivery d, behind the gate of attempt k, does to its outcome.
Sends(d, k) ==
  /\ worker[d].pc = "send" /\ accepted'[k] = accepted[k] + 1
  /\ dlq'[k] = dlq[k] /\ (Retried(k)' <=> Retried(k))
Retries(d, k) ==
  /\ worker[d].pc = "retry" /\ accepted'[k] = accepted[k] /\ dlq'[k] = dlq[k]
Pushes(d, k) ==
  /\ worker[d].pc = "dlq" /\ dlq'[k] = dlq[k] + 1
  /\ accepted'[k] = accepted[k] /\ (Retried(k)' <=> Retried(k))

\* An attempt ends through the delivery that is behind its gate, which then has
\* nothing left to decide, or goes on to push the entry again.
LEMMA EndingStep ==
  ASSUME Typed, [Next]_vars, NEW k \in Keys, ~AnswerLost(k)
  PROVE  \/ accepted'[k] = accepted[k] /\ dlq'[k] = dlq[k] /\ (Retried(k)' <=> Retried(k))
         \/ \E d \in Deliveries : /\ Holding(d, k) /\ worker'[d].pc \notin Undecided
                                  /\ Sends(d, k) \/ Retries(d, k) \/ Pushes(d, k)
         \/ \E d \in Deliveries : Holding(d, k) /\ Pushes(d, k) /\ worker' = worker
<1>. USE DEF redisVars, historyVars
<1>. TypeOK /\ TypeOK'
  BY TypedNext DEF Typed
<1>. accepted \in [Keys -> 0 .. Cap] /\ dlq \in [Keys -> 0 .. Cap]
  BY DEF TypeOK
<1>. DEFINE Same == accepted'[k] = accepted[k] /\ dlq'[k] = dlq[k] /\ (Retried(k)' <=> Retried(k))
            Ends(d) == /\ Holding(d, k) /\ worker'[d].pc \notin Undecided
                       /\ Sends(d, k) \/ Retries(d, k) \/ Pushes(d, k)
            Goes(d) == Holding(d, k) /\ Pushes(d, k) /\ worker' = worker
            Goal == \/ Same
                    \/ \E d \in Deliveries : Ends(d)
                    \/ \E d \in Deliveries : Goes(d)
<1>1. ASSUME NEW d \in Deliveries, SendOk(d) PROVE Goal
  <2>1. /\ Key(d) \in Keys /\ worker[d].pc = "send" /\ worker'[d].pc = "ackSent"
        /\ accepted' = Bump(accepted, Key(d)) /\ UNCHANGED <<dlq, scheduled>>
    BY <1>1, KeyType, GotoType DEF SendOk, Calls, Busy, Pcs
  <2>2. accepted'[k] = accepted[k] \/ (Key(d) = k /\ accepted'[k] = accepted[k] + 1)
    BY <2>1, BumpOne
  <2>3. (Retried(k)' <=> Retried(k))
    BY <2>1 DEF Retried, After
  <2>4. Key(d) = k => Holding(d, k) /\ worker'[d].pc \notin Undecided
    BY <2>1 DEF Holding, HoldPcs, Undecided
  <2>. QED  BY <2>1, <2>2, <2>3, <2>4 DEF Sends
<1>2. ASSUME NEW d \in Deliveries, NEW e \in TransientErrors, SendTransient(d, e) PROVE Goal
  <2>1. accepted'[k] = accepted[k]
    <3>1. CASE UNCHANGED accepted
      BY <3>1
    <3>2. CASE Fault("ambiguous")
      <4>1. budget' # budget
        BY <3>2 DEF Fault, TypeOK
      <4>. QED  BY <4>1 DEF AnswerLost
    <3>. QED  BY <1>2, <3>1, <3>2 DEF SendTransient
  <2>. QED  BY <1>2, <2>1 DEF SendTransient, Retried, After
<1>3. ASSUME NEW d \in Deliveries, SendToDLQ(d) PROVE Goal
  <2>1. /\ Key(d) \in Keys /\ worker[d].pc = "dlq"
        /\ worker'[d].pc \in {"ack", "clear"} \/ worker' = worker
        /\ dlq' = Bump(dlq, Key(d)) \/ UNCHANGED dlq
        /\ UNCHANGED <<accepted, scheduled>>
    BY <1>3, KeyType, GotoType DEF SendToDLQ, Busy, Pcs
  <2>2. dlq'[k] = dlq[k] \/ (Key(d) = k /\ dlq'[k] = dlq[k] + 1)
    BY <2>1, BumpOne
  <2>3. (Retried(k)' <=> Retried(k)) /\ accepted'[k] = accepted[k]
    BY <2>1 DEF Retried, After
  <2>4. Key(d) = k => Holding(d, k)
    BY <2>1 DEF Holding, HoldPcs
  <2>5. worker'[d].pc \notin Undecided \/ worker' = worker
    BY <2>1 DEF Undecided
  <2>. QED  BY <2>1, <2>2, <2>3, <2>4, <2>5 DEF Pushes
<1>4. ASSUME NEW d \in Deliveries, ScheduleRetry(d) PROVE Goal
  <2>1. /\ Key(d) \in Keys /\ worker[d].pc = "retry" /\ worker'[d].pc \in {"ack", "clear"}
        /\ UNCHANGED <<accepted, dlq>>
    BY <1>4, KeyType, GotoType DEF ScheduleRetry, Busy, Pcs
  <2>2. KeyOf(RetryMember(d)) = After(Key(d))
    BY DEF KeyOf, RetryMember, After, attemptKey
  <2>3. scheduled' \in {scheduled, scheduled \cup {After(Key(d))}}
    BY <1>4, <2>2 DEF ScheduleRetry
  <2>4. (After(k) \in scheduled' <=> After(k) \in scheduled) \/ Key(d) = k
    BY <2>1, <2>3, AfterInjective
  <2>5. Key(d) = k => Ends(d)
    BY <2>1 DEF Holding, HoldPcs, Undecided, Retries
  <2>6. CASE After(k) \in scheduled' <=> After(k) \in scheduled
    BY <2>1, <2>6 DEF Retried, After
  <2>. QED  BY <2>4, <2>5, <2>6
<1>5. CASE UNCHANGED <<accepted, dlq, scheduled>>
  BY <1>5 DEF Retried, After
<1>. QED
  BY <1>1, <1>2, <1>3, <1>4, <1>5 DEF Next, vars, Receive, Process, Flush, Time, ReadGroup, ClaimStale,
     Enqueue, SetProcessing, IsCompleted, TryReclaimStale, SendPermanent, SendPanic, Acknowledge,
     SetCompleted, ClearProcessing, FlushRead, FlushZrem, FlushXadd, FlushBroken, AgeEntry, AgeLock,
     ExpireLock, Crash

\* Who is behind a gate that was not reopened was there before, or found it open
\* and shut it.
LEMMA EnterStep ==
  ASSUME Typed, [Next]_vars, NEW k \in Keys, ~Reopens(k), NEW c \in Deliveries, Holding(c, k)'
  PROVE  \/ Holding(c, k)
         \/ SetProcessing(c) /\ lock[k] = "absent" /\ lock'[k] = "processing"
<1>. TypeOK
  BY DEF Typed
<1>1. worker'[c].pc \in HoldPcs /\ Key(c)' = k
  BY DEF Holding
<1>2. Key(c) = k
  BY <1>1, PassGate
<1>3. CASE worker[c].pc \in HoldPcs
  BY <1>2, <1>3 DEF Holding
<1>4. CASE SetProcessing(c) /\ lock[k] = "absent"
  <2>1. worker'[c].pc # "check"
    BY <1>1 DEF HoldPcs
  <2>2. ASSUME Goto(c, "check") PROVE FALSE
    BY <2>1, <2>2, GotoType DEF Pcs
  <2>3. lock' = [lock EXCEPT ![k] = "processing"]
    BY <1>2, <1>4, <2>2 DEF SetProcessing
  <2>. QED  BY <1>4, <2>3 DEF TypeOK
<1>5. CASE TryReclaimStale(c) /\ lock[k] = "processing" /\ k \in stale
  <2>1. ~Finish(c)
    BY <1>1, FinishType DEF NoWork, HoldPcs
  <2>2. stale' = stale \ {k} /\ lock' = lock
    BY <1>2, <1>5, <2>1 DEF TryReclaimStale
  <2>3. Reopens(k)
    BY <1>5, <2>2 DEF Reopens
  <2>. QED  BY <2>3
<1>. QED  BY <1>1, <1>2, <1>3, <1>4, <1>5, PassGate

\* A delivery that has decided does not become undecided again behind the gate, and
\* one that dead-letters does nothing else.
LEMMA DecidedStays ==
  ASSUME Typed, [Next]_vars, NEW c \in Deliveries, worker[c].pc \in HoldPcs,
         worker'[c].pc \in Undecided
  PROVE  worker[c].pc \in Undecided /\ (worker[c].pc = "dlq" => worker'[c].pc = "dlq")
<1>. USE DEF redisVars, historyVars
<1>. TypeOK
  BY DEF Typed
<1>1. CASE worker'[c] = worker[c]
  BY <1>1
<1>2. CASE worker'[c] # worker[c]
  <2>1. Process(c)
    <3>1. ASSUME NEW d \in Deliveries, Receive(d) PROVE worker'[c].pc \notin Undecided
      BY <1>2, <3>1 DEF Receive, ReadGroup, ClaimStale, Start, TypeOK, Undecided
    <3>2. ASSUME NEW p \in Pods, Flush(p) \/ FlushBroken(p) \/ Crash(p)
          PROVE  worker'[c].pc \notin Undecided
      BY <1>2, <3>2 DEF Flush, FlushRead, FlushXadd, FlushZrem, FlushBroken, Crash, NoWork, Undecided
    <3>3. ASSUME NEW d \in Deliveries, Process(d) PROVE Process(c)
      BY <1>2, <3>3, ProcessKeeps
    <3>. QED  BY <1>2, <3>1, <3>2, <3>3 DEF Next, vars, Enqueue, Time, AgeEntry, AgeLock, ExpireLock
  <2>2. ASSUME Acknowledge(c) \/ SetCompleted(c) \/ ClearProcessing(c)
        PROVE  worker'[c].pc \notin Undecided
    <3>1. Goto(c, "complete") \/ Finish(c)
      BY <2>2 DEF Acknowledge, SetCompleted, ClearProcessing
    <3>. QED  BY <3>1, GotoType, FinishType DEF NoWork, Undecided, Pcs
  <2>3. ASSUME SendToDLQ(c) PROVE worker'[c].pc \notin Undecided
    <3>1. Goto(c, "ack") \/ Goto(c, "clear")
      BY <1>2, <2>3 DEF SendToDLQ
    <3>. QED  BY <3>1, GotoType DEF Undecided, Pcs
  <2>. QED
    BY <2>1, <2>2, <2>3 DEF Process, SetProcessing, IsCompleted, TryReclaimStale, SendOk, SendTransient,
       SendPermanent, SendPanic, ScheduleRetry, Calls, HoldPcs, Undecided
<1>. QED  BY <1>1, <1>2

\* The gate of an attempt that is not put in doubt goes on working.
LEMMA GatedNext ==
  ASSUME Typed, RepeatsOK, HistoryNext, NEW k \in Keys, Gated(k), ~Reopens(k), ~AnswerLost(k)
  PROVE  Gated(k)'
<1>. TypeOK /\ [Next]_vars
  BY DEF Typed, HistoryNext
<1>0. /\ accepted[k] \in Nat /\ dlq[k] \in Nat /\ repeats[k] \in Nat
      /\ repeats'[k] = IF PushRepeated(k) THEN repeats[k] + 1 ELSE repeats[k]
  BY CountsType DEF RepeatsOK, HistoryNext
<1>. DEFINE Same == accepted'[k] = accepted[k] /\ dlq'[k] = dlq[k] /\ (Retried(k)' <=> Retried(k))
<1>a. lock[k] = "absent" => Unsettled(k)'
  <2>1. lock[k] = "absent" => Same
    BY EndingStep DEF Gated
  <2>. QED  BY <2>1 DEF Gated, Unsettled
<1>b. OneWay(k)'
  <2>1. CASE Same
    BY <1>0, <2>1 DEF Gated, OneWay, PushRepeated
  <2>2. ASSUME NEW d \in Deliveries, Holding(d, k), Sends(d, k) \/ Retries(d, k)
        PROVE  OneWay(k)'
    <3>1. Unsettled(k)
      BY <2>2 DEF Gated, Sends, Retries
    <3>. QED  BY <1>0, <2>2, <3>1 DEF Unsettled, OneWay, Sends, Retries
  <2>3. ASSUME NEW d \in Deliveries, Holding(d, k), Pushes(d, k) PROVE OneWay(k)'
    <3>1. accepted[k] = 0 /\ ~Retried(k) /\ dlq[k] <= repeats[k]
      BY <2>3 DEF Gated, Pushes
    <3>. QED  BY <1>0, <2>3, <3>1 DEF OneWay, Pushes
  <2>. QED  BY <2>1, <2>2, <2>3, EndingStep
<1>2. lock'[k] = "absent" => lock[k] = "absent"
  BY DEF Reopens
<1>3. ASSUME lock'[k] = "absent", NEW d \in Deliveries, Holding(d, k)' PROVE FALSE
  BY <1>2, <1>3, EnterStep DEF Gated
<1>4. ASSUME NEW d \in Deliveries, NEW e \in Deliveries, Holding(d, k)', Holding(e, k)' PROVE d = e
  <2>1. CASE Holding(d, k) /\ Holding(e, k)
    BY <2>1 DEF Gated
  <2>2. CASE lock[k] = "absent"
    <3>1. ~Holding(d, k) /\ ~Holding(e, k)
      BY <2>2 DEF Gated
    <3>2. Process(d) /\ Process(e)
      BY <1>4, <3>1, EnterStep DEF Process
    <3>3. d # e => worker'[e] = worker[e] /\ Key(e)' = Key(e)
      <4>1. worker'[e].pc \in HoldPcs
        BY <1>4 DEF Holding
      <4>. QED  BY <3>2, <4>1, ProcessKeeps, PassGate
    <3>. QED  BY <1>4, <3>1, <3>3 DEF Holding
  <2>. QED  BY <1>4, <2>1, <2>2, EnterStep
<1>5. ASSUME NEW d \in Deliveries, Holding(d, k)', worker'[d].pc \in Undecided
      PROVE  /\ worker'[d].pc \in {"send", "retry"} => Unsettled(k)'
             /\ worker'[d].pc = "dlq" =>
                  accepted'[k] = 0 /\ ~Retried(k)' /\ dlq'[k] <= repeats'[k]
  <2>1. CASE Holding(d, k)
    <3>1. worker[d].pc \in Undecided /\ (worker[d].pc = "dlq" => worker'[d].pc = "dlq")
      BY <1>5, <2>1, DecidedStays DEF Holding
    <3>2. /\ worker[d].pc \in {"send", "retry"} => Unsettled(k)
          /\ worker[d].pc = "dlq" => accepted[k] = 0 /\ ~Retried(k) /\ dlq[k] <= repeats[k]
      BY <2>1 DEF Gated
    <3>3. ASSUME NEW e \in Deliveries, Holding(e, k) PROVE e = d
      BY <2>1, <3>3 DEF Gated
    <3>4. CASE Same
      BY <1>0, <3>1, <3>2, <3>4 DEF Undecided, Unsettled, PushRepeated
    <3>5. CASE Pushes(d, k) /\ worker' = worker
      <4>1. repeats'[k] = repeats[k] + 1
        BY <1>0, <3>5 DEF Pushes, PushRepeated
      <4>. QED  BY <1>0, <3>2, <3>5, <4>1 DEF Pushes
    <3>. QED  BY <1>5, <3>3, <3>4, <3>5, EndingStep
  <2>2. CASE lock[k] = "absent"
    <3>1. dlq'[k] <= repeats'[k]
      BY <1>0, <1>a, <2>2 DEF Unsettled
    <3>. QED  BY <1>a, <2>2, <3>1 DEF Unsettled
  <2>. QED  BY <1>5, <2>1, <2>2, EnterStep
<1>6. ASSUME NEW d \in Deliveries, Holding(d, k)', worker'[d].pc \in {"send", "retry"}
      PROVE  Unsettled(k)'
  BY <1>5, <1>6 DEF Undecided
<1>7. ASSUME NEW d \in Deliveries, Holding(d, k)', worker'[d].pc = "dlq"
      PROVE  accepted'[k] = 0 /\ ~Retried(k)' /\ dlq'[k] <= repeats'[k]
  BY <1>5, <1>7 DEF Undecided
<1>. QED  BY <1>a, <1>b, <1>2, <1>3, <1>4, <1>6, <1>7 DEF Gated

-------------------------------------------------------------------------------
(* Attempts come one after the other *)

\* The attempt a delivery works on is the first one, or it was scheduled.
LEMMA WorkedScheduled ==
  ASSUME Typed, Chain, NEW d \in Deliveries, Busy(d)
  PROVE  Key(d) \in Keys /\ (Key(d).attempt > 0 => Key(d) \in scheduled)
BY KeyType DEF Chain, Key

\* A retry is scheduled as the attempt after one that was scheduled itself.
LEMMA ScheduledNext ==
  ASSUME Typed, Chain, [Next]_vars, NEW s \in scheduled'
  PROVE  s.attempt > 0 /\ \A a \in 1 .. s.attempt : attemptKey(s.task, a) \in scheduled'
<1>. USE DEF redisVars, historyVars
<1>1. CASE s \in scheduled
  BY <1>1, Growth DEF Chain
<1>2. ASSUME NEW d \in Deliveries, ScheduleRetry(d), s \notin scheduled
      PROVE  s.attempt > 0 /\ \A a \in 1 .. s.attempt : attemptKey(s.task, a) \in scheduled'
  <2>1. Key(d) \in Keys /\ (Key(d).attempt > 0 => Key(d) \in scheduled) /\ Key(d).attempt \in Nat
    BY <1>2, WorkedScheduled, KeyType, ConstantsAssumption DEF ScheduleRetry, Busy, Attempts
  <2>2. s = KeyOf(RetryMember(d))
    BY <1>2 DEF ScheduleRetry
  <2>3. s = attemptKey(Key(d).task, Key(d).attempt + 1)
    BY <2>2 DEF KeyOf, RetryMember, attemptKey
  <2>4. s.task = Key(d).task /\ s.attempt = Key(d).attempt + 1
    BY <2>3 DEF attemptKey
  <2>5. ASSUME NEW a \in 1 .. s.attempt PROVE attemptKey(s.task, a) \in scheduled'
    <3>1. CASE a = s.attempt
      BY <2>3, <2>4, <3>1 DEF attemptKey
    <3>2. CASE a # s.attempt
      <4>1. Key(d).attempt > 0 /\ a \in 1 .. Key(d).attempt
        BY <2>1, <2>4, <2>5, <3>2
      <4>2. attemptKey(Key(d).task, a) \in scheduled
        BY <2>1, <4>1 DEF Chain
      <4>. QED  BY <2>4, <4>2, Growth
    <3>. QED  BY <3>1, <3>2
  <2>. QED  BY <2>1, <2>4, <2>5
<1>3. UNCHANGED scheduled \/ \E d \in Deliveries : ScheduleRetry(d)
  BY DEF Next, vars, Receive, Process, Flush, Time, ReadGroup, ClaimStale, Enqueue,
     SetProcessing, IsCompleted, TryReclaimStale, SendOk, SendTransient, SendPermanent, SendPanic,
     Acknowledge, SetCompleted, SendToDLQ, ClearProcessing, FlushRead, FlushZrem,
     FlushXadd, FlushBroken, AgeEntry, AgeLock, ExpireLock, Crash
<1>. QED  BY <1>1, <1>2, <1>3

\* What is appended to the stream is a first attempt or a scheduled one.
LEMMA EntriesNext ==
  ASSUME Typed, Chain, MembersScheduled, [Next]_vars, NEW i \in 1 .. Len(stream'),
         stream'[i].attempt > 0
  PROVE  stream'[i] \in scheduled'
<1>. USE DEF redisVars, historyVars
<1>. TypeOK
  BY DEF Typed
<1>1. CASE i \in 1 .. Len(stream)
  BY <1>1, Growth DEF Chain
<1>2. ASSUME NEW j \in Keys, Xadd(j), j.attempt > 0 => j \in scheduled, i \notin 1 .. Len(stream)
      PROVE  stream'[i] \in scheduled'
  <2>1. /\ Len(stream') = Len(stream) + 1 /\ stream'[Len(stream) + 1] = j /\ Len(stream) \in Nat
    BY <1>2, StreamType, XaddFacts
  <2>2. i = Len(stream) + 1
    BY <1>2, <2>1
  <2>. QED  BY <1>2, <2>1, <2>2, Growth
<1>3. ASSUME NEW t \in Tasks, Enqueue(t)
      PROVE  \E j \in Keys : Xadd(j) /\ (j.attempt > 0 => j \in scheduled)
  <2>1. attemptKey(t, 0) \in Keys /\ attemptKey(t, 0).attempt = 0
    BY ConstantsAssumption DEF attemptKey, Keys, Attempts
  <2>. QED  BY <1>3, <2>1 DEF Enqueue
<1>4. ASSUME NEW p \in Pods, NEW m \in todo[p], FlushXadd(p, m)
      PROVE  UNCHANGED stream \/ \E j \in Keys : Xadd(j) /\ (j.attempt > 0 => j \in scheduled)
  <2>1. KeyOf(m) \in Keys /\ KeyOf(m) \in scheduled
    BY DEF TypeOK, Members, KeyOf, Keys, MembersScheduled
  <2>. QED  BY <1>4, <2>1 DEF FlushXadd
<1>5. UNCHANGED stream \/ (\E t \in Tasks : Enqueue(t))
        \/ (\E p \in Pods : \E m \in todo[p] : FlushXadd(p, m))
  BY DEF Next, vars, Receive, Process, Flush, Time, ReadGroup, ClaimStale,
     SetProcessing, IsCompleted, TryReclaimStale, SendOk, SendTransient, SendPermanent, SendPanic,
     Acknowledge, SetCompleted, ScheduleRetry, SendToDLQ, ClearProcessing, FlushRead, FlushZrem,
     FlushBroken, AgeEntry, AgeLock, ExpireLock, Crash
<1>6. CASE UNCHANGED stream
  BY <1>1, <1>6
<1>. QED  BY <1>1, <1>2, <1>3, <1>4, <1>5, <1>6

\* An email belongs to an attempt that is in the stream.
LEMMA SentNext ==
  ASSUME Typed, Chain, [Next]_vars, NEW k \in Keys, accepted'[k] > 0, k.attempt > 0
  PROVE  k \in scheduled'
<1>. USE DEF redisVars, historyVars
<1>. TypeOK
  BY DEF Typed
<1>. accepted \in [Keys -> 0 .. Cap]
  BY DEF TypeOK
<1>1. CASE accepted[k] > 0
  BY <1>1, Growth DEF Chain
<1>2. ASSUME NEW d \in Deliveries, Busy(d), accepted' = Bump(accepted, Key(d)), ~(accepted[k] > 0)
      PROVE  k \in scheduled'
  <2>1. Key(d) \in Keys /\ (Key(d).attempt > 0 => Key(d) \in scheduled)
    BY <1>2, WorkedScheduled
  <2>2. Key(d) = k
    BY <1>2, <2>1, BumpOne
  <2>. QED  BY <2>1, <2>2, Growth
<1>3. UNCHANGED accepted \/ \E d \in Deliveries : Busy(d) /\ accepted' = Bump(accepted, Key(d))
  BY DEF Next, vars, Receive, Process, Flush, Time, ReadGroup, ClaimStale, Enqueue,
     SetProcessing, IsCompleted, TryReclaimStale, SendOk, SendTransient, SendPermanent, SendPanic,
     Acknowledge, SetCompleted, ScheduleRetry, SendToDLQ, ClearProcessing, FlushRead, FlushZrem,
     FlushXadd, FlushBroken, AgeEntry, AgeLock, ExpireLock, Crash, Calls, Busy
<1>. QED  BY <1>1, <1>2, <1>3

-------------------------------------------------------------------------------
(* Theorems *)

\* Nothing has ended, and nobody is behind a gate, initially.
LEMMA OutcomeInit == HistoryInit => OutcomeInv
<1>. SUFFICES ASSUME Init, repeats = [k \in Keys |-> 0]
              PROVE  RepeatsOK /\ Chain /\ MembersScheduled /\ \A k \in Keys : Gated(k)
  BY TypedInit DEF HistoryInit, OutcomeInv, GateInv
<1>1. Chain /\ MembersScheduled /\ RepeatsOK
  BY DEF Init, Chain, MembersScheduled, RepeatsOK
<1>2. ASSUME NEW k \in Keys
      PROVE  Unsettled(k) /\ repeats[k] = 0 /\ \A d \in Deliveries : ~Holding(d, k)
  BY DEF Init, Unsettled, Retried, Holding, NoWork, HoldPcs
<1>. QED  BY <1>1, <1>2 DEF Gated, OneWay, Unsettled

\* The invariant is inductive.
LEMMA OutcomeNext == OutcomeInv /\ [HistoryNext]_historyState => OutcomeInv'
<1>. SUFFICES ASSUME OutcomeInv, [HistoryNext]_historyState PROVE OutcomeInv'
  OBVIOUS
<1>. Typed /\ RepeatsOK /\ MembersScheduled /\ Chain /\ [Next]_vars
  BY DEF OutcomeInv, HistoryNext, historyState
<1>1. Typed' /\ MembersScheduled'
  BY TypedNext, MembersScheduledNext
<1>2. Chain'
  BY ScheduledNext, EntriesNext, SentNext DEF Chain
<1>3. RepeatsOK'
  BY DEF RepeatsOK, HistoryNext, historyState
<1>4. ASSUME NEW k \in Keys \ doubted' PROVE Gated(k)'
  <2>1. CASE HistoryNext
    <3>1. k \in Keys \ doubted /\ ~Reopens(k) /\ ~AnswerLost(k)
      BY <1>4, <2>1 DEF HistoryNext
    <3>. QED  BY <2>1, <3>1, GatedNext DEF OutcomeInv, GateInv
  <2>2. CASE UNCHANGED historyState
    <3>1. Gated(k)
      BY <1>4, <2>2 DEF OutcomeInv, GateInv, historyState
    <3>. QED
      BY <2>2, <3>1 DEF Gated, OneWay, Unsettled, Retried, After, Holding, Key, vars, historyState
  <2>. QED  BY <2>1, <2>2
<1>. QED  BY <1>1, <1>2, <1>3, <1>4 DEF OutcomeInv, GateInv

\* What the invariant says of outcomes.
LEMMA OutcomeMeans == OutcomeInv => OneOutcome
<1>. SUFFICES ASSUME OutcomeInv, NEW k \in Keys \ doubted
              PROVE  /\ accepted[k] <= 1
                     /\ dlq[k] <= 1 + repeats[k]
                     /\ accepted[k] = 0 \/ dlq[k] = 0
                     /\ accepted[k] + dlq[k] > 0 =>
                          \A s \in scheduled : s.task = k.task => s.attempt <= k.attempt
  BY DEF OneOutcome
<1>. TypeOK /\ Chain
  BY DEF OutcomeInv, Typed
<1>1. OneWay(k) /\ accepted[k] \in Nat /\ dlq[k] \in Nat
  BY CountsType DEF OutcomeInv, GateInv, Gated
<1>2. accepted[k] + dlq[k] > 0 => After(k) \notin scheduled
  BY <1>1 DEF OneWay, Retried
<1>3. ASSUME NEW s \in scheduled, s.task = k.task, ~(s.attempt <= k.attempt)
      PROVE  After(k) \in scheduled
  <2>1. s.attempt \in Nat /\ k.attempt \in Nat
    BY ConstantsAssumption DEF TypeOK, Keys, Attempts
  <2>2. k.attempt + 1 \in 1 .. s.attempt
    BY <1>3, <2>1
  <2>. QED  BY <1>3, <2>2 DEF Chain, After
<1>. QED  BY <1>1, <1>2, <1>3 DEF OneWay

\* An attempt ends in one way, and its task with it, unless its lock was given
\* up, lost or taken over, or the provider's answer was lost: with every kind and
\* number of other failures, of redelivered and duplicate entries, and of pushes
\* the client library repeats, which are all that more than one DLQ entry goes
\* back to.
THEOREM OneOutcomeOnly == HistorySpec => []OneOutcome
BY OutcomeInit, OutcomeNext, OutcomeMeans, PTL DEF HistorySpec

\* ADR-006 holds as long as nothing was put in doubt: the emails it did not count
\* with all come from a lock that was deleted, expired or was reclaimed, or from
\* an answer that did not arrive.
THEOREM ExactlyOnceWithoutDoubt == HistorySpec => [](doubted = {} => SentExactlyOnce)
<1>1. OutcomeInv => (doubted = {} => SentExactlyOnce)
  <2>. SUFFICES ASSUME OutcomeInv, doubted = {}, NEW k1 \in Keys, NEW k2 \in Keys,
                       accepted[k1] > 0, accepted[k2] > 0, k1.task = k2.task
                PROVE  k1 = k2 /\ accepted[k1] = 1
    BY DEF SentExactlyOnce
  <2>. TypeOK /\ Chain /\ OneOutcome
    BY OutcomeMeans DEF OutcomeInv, Typed
  <2>1. ASSUME NEW k \in Keys, accepted[k] > 0
        PROVE  /\ accepted[k] = 1
               /\ \A s \in scheduled : s.task = k.task => s.attempt <= k.attempt
               /\ k.attempt \in Nat
               /\ k.attempt > 0 => k \in scheduled
    <3>1. accepted[k] \in Nat /\ dlq[k] \in Nat /\ accepted[k] <= 1
      BY CountsType DEF OneOutcome
    <3>2. accepted[k] + dlq[k] > 0 /\ accepted[k] = 1
      BY <2>1, <3>1
    <3>3. k.attempt \in Nat
      BY ConstantsAssumption DEF Keys, Attempts
    <3>. QED  BY <2>1, <3>2, <3>3 DEF OneOutcome, Chain
  <2>2. k1.attempt = k2.attempt
    <3>1. k2.attempt > 0 => k2.attempt <= k1.attempt
      BY <2>1
    <3>2. k1.attempt > 0 => k1.attempt <= k2.attempt
      BY <2>1
    <3>3. k1.attempt \in Nat /\ k2.attempt \in Nat
      BY <2>1
    <3>. QED  BY <3>1, <3>2, <3>3
  <2>. QED  BY <2>1, <2>2 DEF Keys
<1>. QED  BY <1>1, OutcomeInit, OutcomeNext, PTL DEF HistorySpec

===============================================================================
