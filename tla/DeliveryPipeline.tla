--------------------------- MODULE DeliveryPipeline ---------------------------
(***************************************************************************)
(* The path of an email task through Redis and the worker pods: producer,  *)
(* priority stream with its consumer group and pending-entries list (PEL), *)
(* idempotency locks, sender, retry sorted set with its flusher, and       *)
(* dead-letter queue.  One action is one Redis command, one Lua script or  *)
(* one call of the sender; everything a goroutine does between two of      *)
(* these is local to it and belongs to the action before.                  *)
(*                                                                         *)
(* A "delivery" is one in-memory copy of a task, from the moment           *)
(* XREADGROUP or XAUTOCLAIM returns it until processTask ends.  It waits   *)
(* for its turn in the channel and for a semaphore slot at pc "gate"       *)
(* (module WorkerPool is about that wait).                                 *)
(*                                                                         *)
(* A definition X_variant is X with a fault; no action uses it.  It serves *)
(* to see that a property fails when the code has that fault.              *)
(***************************************************************************)
EXTENDS Naturals, Sequences, FiniteSets

CONSTANTS
  Tasks,           \* task IDs
  Pods,            \* worker processes
  Deliveries,      \* deliveries that can be in memory at once
  PodOf,           \* the pod a delivery lives in
  MaxAttempts,     \* EmailTask.MaxAttempts, the same for every task
  TransientErrors, \* error texts of retryable failures (EmailTask.LastError)
  Outcomes,        \* what Send may do with a task: a function on Tasks
  Faults,          \* the kinds of failure that may happen
  MaxFaults,       \* bound: how many failures happen in a behaviour
  MaxMsgs,         \* bound: how many entries are ever added to the stream
  Cap              \* bound: counts of emails and DLQ entries stop here

\* crash: a pod dies.  slow: a lock ages past the idle threshold while its
\* holder is still at work.  ttl: a lock key expires.  ambiguous: the provider
\* accepts the email, the call still fails.  resubmit: a client enqueues a task
\* again.  The others are failures of one Redis command: read (reply lost), ack,
\* lock (SetProcessing, IsCompleted, TryReclaimStale), complete, clear, retry,
\* dlq (failed, or repeated by the client library), xadd (refused while the rest
\* of the pipeline runs), pipe (connection lost in a flush pipeline).
FaultKinds == {"crash", "slow", "ttl", "ambiguous", "resubmit", "read", "ack", "lock",
               "complete", "clear", "retry", "dlq", "xadd", "pipe"}

OutcomeKinds == {"ok", "transient", "permanent", "panic"}

ASSUME ConstantsAssumption ==
  /\ PodOf \in [Deliveries -> Pods]
  /\ IsFiniteSet(Deliveries)
  /\ MaxAttempts \in Nat \ {0}      \* EmailTask.Validate
  /\ Outcomes \in [Tasks -> SUBSET OutcomeKinds]
  /\ Faults \subseteq FaultKinds
  /\ MaxFaults \in Nat
  /\ MaxMsgs \in Nat
  /\ Cap \in Nat \ {0}

VARIABLES
  stream,    \* entries XADDed, oldest first; an entry's ID is its position
  lastRead,  \* the group's last-delivered-id
  pel,       \* IDs delivered and not acknowledged
  idle,      \* IDs in the PEL idle for at least ClaimIdleThreshold
  lock,      \* status of the idempotency key of each attempt
  stale,     \* attempts whose started_at is at least ClaimIdleThreshold ago
  retrySet,  \* members of the sorted set queue:email:retry:delayed
  batch,     \* per pod, the members FlushReady read in this tick
  todo,      \* per pod, the members of the batch whose XADD has not run
  dlq,       \* how many DLQ entries each attempt has
  accepted,  \* how many emails the provider accepted for each attempt
  tried,     \* per task, the attempts for which Send was called (history)
  scheduled, \* attempts ever put into the retry set (history)
  worker,    \* per delivery: pc, the stream ID it carries, the error text
  budget     \* failures still to happen

redisVars == <<stream, lastRead, pel, idle, lock, stale, retrySet, dlq>>
historyVars == <<accepted, tried, scheduled>>
vars == <<stream, lastRead, pel, idle, lock, stale, retrySet, batch, todo, dlq,
          accepted, tried, scheduled, worker, budget>>

-------------------------------------------------------------------------------
(* Types *)

Attempts == 0 .. MaxAttempts
\* attemptKey: an attempt is a task ID and an attempt number.
Keys == [task : Tasks, attempt : Attempts]
\* The JSON member of the sorted set differs when the metadata the consumer
\* stamped (_stream_id) or LastError does.
Members == [task : Tasks, attempt : Attempts, src : Nat, err : TransientErrors]
Statuses == {"absent", "processing", "completed"}
Pcs == {"none", "gate", "check", "reclaim", "send", "ackSent", "complete",
        "retry", "dlq", "clear", "ack"}
\* From a lock acquired until the outcome is recorded or the lock is given up.
HoldPcs == {"send", "ackSent", "complete", "retry", "dlq", "clear"}
WorkerStates == [pc : Pcs, msg : Nat, err : TransientErrors \cup {"none"}]
NoWork == [pc |-> "none", msg |-> 0, err |-> "none"]

-------------------------------------------------------------------------------
(* Helpers *)

attemptKey(t, a) == [task |-> t, attempt |-> a]
KeyOf(m) == [task |-> m.task, attempt |-> m.attempt]
Key(d) == stream[worker[d].msg]
Busy(d) == worker[d].pc # "none"
Goto(d, pc) == worker' = [worker EXCEPT ![d].pc = pc]
Finish(d) == worker' = [worker EXCEPT ![d] = NoWork]
Bump(f, k) == [f EXCEPT ![k] = IF @ < Cap THEN @ + 1 ELSE @]

Fault(kind) ==
  /\ kind \in Faults
  /\ budget > 0
  /\ budget' = budget - 1

Xadd(k) ==
  /\ Len(stream) < MaxMsgs
  /\ stream' = Append(stream, k)

IsRetryable_inclusive(k) == k.attempt <= MaxAttempts

\* A task is retryable while Attempt < MaxAttempts.  The poison flag is never
\* set here: it is only written to a copy that Nack then drops (see SendPanic).
IsRetryable(k) == k.attempt < MaxAttempts

\* The conditions of the CAS and the reclaim script.
Acquirable_unlessHeld(k) == lock[k] # "processing"
Acquirable(k) == lock[k] = "absent"

Reclaimable_anyAge(k) == lock[k] = "processing"
Reclaimable_never(k) == FALSE
Reclaimable(k) == lock[k] = "processing" /\ k \in stale

Holding(d, k) == worker[d].pc \in HoldPcs /\ Key(d) = k

-------------------------------------------------------------------------------
(* Producer *)

Enqueued(t) == \E i \in 1 .. Len(stream) : stream[i].task = t

\* Enqueue appends attempt 0 of the task.
Enqueue(t) ==
  /\ IF Enqueued(t) THEN Fault("resubmit") ELSE UNCHANGED budget
  /\ Xadd(attemptKey(t, 0))
  /\ UNCHANGED <<lastRead, pel, idle, lock, stale, retrySet, batch, todo, dlq,
                 historyVars, worker>>

-------------------------------------------------------------------------------
(* Consumer: XREADGROUP, XAUTOCLAIM, time in the PEL *)

Start(d, m) ==
  /\ ~Busy(d)
  /\ worker' = [worker EXCEPT ![d] = [pc |-> "gate", msg |-> m, err |-> "none"]]

\* XREADGROUP ">" delivers the next entry and puts it into the PEL.
ReadGroup(d) ==
  /\ lastRead < Len(stream)
  /\ lastRead' = lastRead + 1
  /\ pel' = pel \cup {lastRead + 1}
  /\ \/ Start(d, lastRead + 1) /\ UNCHANGED budget
     \/ Fault("read") /\ UNCHANGED worker
  /\ UNCHANGED <<stream, idle, lock, stale, retrySet, batch, todo, dlq, historyVars>>

\* XAUTOCLAIM takes an idle entry over, whoever holds it, and resets its idle
\* time.  When it fails on a later stream, the entries claimed so far are lost
\* to this tick.
ClaimStale(d, m) ==
  /\ m \in idle
  /\ idle' = idle \ {m}
  /\ \/ Start(d, m) /\ UNCHANGED budget
     \/ Fault("read") /\ UNCHANGED worker
  /\ UNCHANGED <<stream, lastRead, pel, lock, stale, retrySet, batch, todo, dlq,
                 historyVars>>

AgeEntry(m) ==
  /\ m \in pel \ idle
  /\ idle' = idle \cup {m}
  /\ UNCHANGED <<stream, lastRead, pel, lock, stale, retrySet, batch, todo, dlq,
                 historyVars, worker, budget>>

-------------------------------------------------------------------------------
(* Idempotency gate of processTask *)

\* The CAS script acquires an absent key.  An error, with or without the script
\* having run, counts as not acquired.
SetProcessing(d) ==
  /\ worker[d].pc = "gate"
  /\ \/ /\ Acquirable(Key(d))
        /\ lock' = [lock EXCEPT ![Key(d)] = "processing"]
        /\ stale' = stale \ {Key(d)}
        /\ \/ Goto(d, "send") /\ UNCHANGED budget
           \/ Goto(d, "check") /\ Fault("lock")
     \/ /\ ~Acquirable(Key(d))
        /\ Goto(d, "check")
        /\ UNCHANGED <<lock, stale, budget>>
     \/ /\ Acquirable(Key(d))
        /\ Fault("lock")
        /\ Goto(d, "check")
        /\ UNCHANGED <<lock, stale>>
  /\ UNCHANGED <<stream, lastRead, pel, idle, retrySet, batch, todo, dlq, historyVars>>

IsCompleted_anyStatus(d) ==
  /\ worker[d].pc = "check"
  /\ Goto(d, IF lock[Key(d)] # "absent" THEN "ack" ELSE "reclaim")
  /\ UNCHANGED <<redisVars, batch, todo, historyVars, budget>>

IsCompleted_ignored(d) ==
  /\ worker[d].pc = "check"
  /\ Goto(d, "reclaim")
  /\ UNCHANGED <<redisVars, batch, todo, historyVars, budget>>

\* An error of IsCompleted counts as not completed.
IsCompleted(d) ==
  /\ worker[d].pc = "check"
  /\ \/ Goto(d, IF lock[Key(d)] = "completed" THEN "ack" ELSE "reclaim") /\ UNCHANGED budget
     \/ Goto(d, "reclaim") /\ Fault("lock")
  /\ UNCHANGED <<redisVars, batch, todo, historyVars>>

\* The reclaim script takes over a processing key older than the threshold.
\* Without it, or on an error, the delivery is nacked: it ends and its entry
\* stays in the PEL.
TryReclaimStale(d) ==
  /\ worker[d].pc = "reclaim"
  /\ \/ /\ Reclaimable(Key(d))
        /\ stale' = stale \ {Key(d)}
        /\ \/ Goto(d, "send") /\ UNCHANGED budget
           \/ Finish(d) /\ Fault("lock")
     \/ /\ ~Reclaimable(Key(d))
        /\ Finish(d)
        /\ UNCHANGED <<stale, budget>>
     \/ /\ Fault("lock")
        /\ Finish(d)
        /\ UNCHANGED stale
  /\ UNCHANGED <<stream, lastRead, pel, idle, lock, retrySet, batch, todo, dlq, historyVars>>

\* started_at of a lock gets older than the threshold.
AgeLock(k) ==
  /\ lock[k] = "processing" /\ k \notin stale
  /\ IF \E d \in Deliveries : Holding(d, k) THEN Fault("slow") ELSE UNCHANGED budget
  /\ stale' = stale \cup {k}
  /\ UNCHANGED <<stream, lastRead, pel, idle, lock, retrySet, batch, todo, dlq,
                 historyVars, worker>>

ExpireLock(k) ==
  /\ lock[k] # "absent"
  /\ Fault("ttl")
  /\ lock' = [lock EXCEPT ![k] = "absent"]
  /\ stale' = stale \ {k}
  /\ UNCHANGED <<stream, lastRead, pel, idle, retrySet, batch, todo, dlq, historyVars, worker>>

-------------------------------------------------------------------------------
(* Send and what follows it in processTask *)

Calls(d, outcome) ==
  /\ worker[d].pc = "send"
  /\ outcome \in Outcomes[Key(d).task]
  /\ tried' = [tried EXCEPT ![Key(d).task] = @ \cup {Key(d).attempt}]

SendOk(d) ==
  /\ Calls(d, "ok")
  /\ accepted' = Bump(accepted, Key(d))
  /\ Goto(d, "ackSent")
  /\ UNCHANGED <<redisVars, batch, todo, scheduled, budget>>

\* A retryable error: retry while attempts remain, else dead-letter.  The
\* provider may have accepted the email all the same.
SendTransient(d, e) ==
  /\ Calls(d, "transient")
  /\ worker' = [worker EXCEPT ![d].pc = IF IsRetryable(Key(d)) THEN "retry" ELSE "dlq",
                              ![d].err = e]
  /\ \/ UNCHANGED <<accepted, budget>>
     \/ Fault("ambiguous") /\ accepted' = Bump(accepted, Key(d))
  /\ UNCHANGED <<redisVars, batch, todo, scheduled>>

\* ErrNonRetryable or ErrCircuitOpen: straight to the DLQ.
SendPermanent(d) ==
  /\ Calls(d, "permanent")
  /\ Goto(d, "dlq")
  /\ UNCHANGED <<redisVars, batch, todo, accepted, scheduled, budget>>

\* The deferred recover flags the in-memory task as poison and nacks it: the
\* flag is lost with the copy, the lock stays "processing".
SendPanic(d) ==
  /\ Calls(d, "panic")
  /\ Finish(d)
  /\ UNCHANGED <<redisVars, batch, todo, accepted, scheduled, budget>>

\* XACK; its error is ignored.
Acknowledge(d) ==
  /\ worker[d].pc \in {"ackSent", "ack"}
  /\ \/ /\ pel' = pel \ {worker[d].msg}
        /\ idle' = idle \ {worker[d].msg}
        /\ UNCHANGED budget
     \/ Fault("ack") /\ UNCHANGED <<pel, idle>>
  /\ IF worker[d].pc = "ackSent" THEN Goto(d, "complete") ELSE Finish(d)
  /\ UNCHANGED <<stream, lastRead, lock, stale, retrySet, batch, todo, dlq, historyVars>>

\* SET XX: whatever the key holds becomes "completed", an absent key stays so.
SetCompleted(d) ==
  /\ worker[d].pc = "complete"
  /\ \/ /\ lock' = [lock EXCEPT ![Key(d)] = IF @ = "absent" THEN "absent" ELSE "completed"]
        /\ stale' = stale \ {Key(d)}
        /\ UNCHANGED budget
     \/ Fault("complete") /\ UNCHANGED <<lock, stale>>
  /\ Finish(d)
  /\ UNCHANGED <<stream, lastRead, pel, idle, retrySet, batch, todo, dlq, historyVars>>

\* The member ScheduleRetry stores: the task with Attempt incremented, the
\* routing metadata of this delivery and the last error.
RetryMember(d) ==
  [task |-> Key(d).task, attempt |-> Key(d).attempt + 1,
   src |-> worker[d].msg, err |-> worker[d].err]

\* ZADD NX; a failed call may have been applied.
ScheduleRetry(d) ==
  /\ worker[d].pc = "retry"
  /\ \/ /\ retrySet' = retrySet \cup {RetryMember(d)}
        /\ scheduled' = scheduled \cup {KeyOf(RetryMember(d))}
        /\ \/ Goto(d, "ack") /\ UNCHANGED budget
           \/ Goto(d, "clear") /\ Fault("retry")
     \/ /\ Fault("retry")
        /\ Goto(d, "clear")
        /\ UNCHANGED <<retrySet, scheduled>>
  /\ UNCHANGED <<stream, lastRead, pel, idle, lock, stale, batch, todo, dlq, accepted, tried>>

\* RPUSH and EXPIRE in one pipeline.  A call that fails may have pushed the entry.
\* When the connection is lost after the RPUSH the client library may run the
\* pipeline again: the entry is there and the call goes on.
SendToDLQ(d) ==
  /\ worker[d].pc = "dlq"
  /\ \/ /\ dlq' = Bump(dlq, Key(d))
        /\ \/ Goto(d, "ack") /\ UNCHANGED budget
           \/ Goto(d, "clear") /\ Fault("dlq")
           \/ UNCHANGED worker /\ Fault("dlq")
     \/ /\ Fault("dlq")
        /\ Goto(d, "clear")
        /\ UNCHANGED dlq
  /\ UNCHANGED <<stream, lastRead, pel, idle, lock, stale, retrySet, batch, todo, historyVars>>

\* clearLockAndNack: DEL of the key, whoever holds it, then Nack.
ClearProcessing(d) ==
  /\ worker[d].pc = "clear"
  /\ \/ /\ lock' = [lock EXCEPT ![Key(d)] = "absent"]
        /\ stale' = stale \ {Key(d)}
        /\ UNCHANGED budget
     \/ Fault("clear") /\ UNCHANGED <<lock, stale>>
  /\ Finish(d)
  /\ UNCHANGED <<stream, lastRead, pel, idle, retrySet, batch, todo, dlq, historyVars>>

-------------------------------------------------------------------------------
(* FlushReady, run by the delayed scheduler of every pod *)

FlushRead_pop(p) ==
  /\ batch[p] = {}
  /\ \E due \in SUBSET retrySet \ {{}} :
       /\ batch' = [batch EXCEPT ![p] = due]
       /\ todo' = [todo EXCEPT ![p] = due]
       /\ retrySet' = retrySet \ due
  /\ UNCHANGED <<stream, lastRead, pel, idle, lock, stale, dlq, historyVars, worker, budget>>

\* ZRANGEBYSCORE: any of the members may be due.
FlushRead(p) ==
  /\ batch[p] = {}
  /\ \E due \in SUBSET retrySet \ {{}} :
       /\ batch' = [batch EXCEPT ![p] = due]
       /\ todo' = [todo EXCEPT ![p] = due]
  /\ UNCHANGED <<redisVars, historyVars, worker, budget>>

\* One XADD of the pipeline, which either runs or is refused.
FlushXadd(p, m) ==
  /\ m \in todo[p]
  /\ todo' = [todo EXCEPT ![p] = @ \ {m}]
  /\ \/ Xadd(KeyOf(m)) /\ UNCHANGED budget
     \/ Fault("xadd") /\ UNCHANGED stream
  /\ UNCHANGED <<lastRead, pel, idle, lock, stale, retrySet, batch, dlq, historyVars, worker>>

FlushZrem_first(p) ==
  /\ batch[p] # {}
  /\ retrySet' = retrySet \ batch[p]
  /\ batch' = [batch EXCEPT ![p] = {}]
  /\ UNCHANGED <<stream, lastRead, pel, idle, lock, stale, todo, dlq, historyVars,
                 worker, budget>>

\* The pipeline's last command removes the whole batch.
FlushZrem(p) ==
  /\ batch[p] # {} /\ todo[p] = {}
  /\ retrySet' = retrySet \ batch[p]
  /\ batch' = [batch EXCEPT ![p] = {}]
  /\ UNCHANGED <<stream, lastRead, pel, idle, lock, stale, todo, dlq, historyVars,
                 worker, budget>>

\* The connection breaks, maybe after ZREM has run.  The commands not yet run never
\* do, or the client library runs the whole pipeline again.
FlushBroken(p) ==
  /\ batch[p] # {}
  /\ Fault("pipe")
  /\ \/ UNCHANGED retrySet
     \/ todo[p] = {} /\ retrySet' = retrySet \ batch[p]
  /\ \/ batch' = [batch EXCEPT ![p] = {}] /\ todo' = [todo EXCEPT ![p] = {}]
     \/ UNCHANGED batch /\ todo' = [todo EXCEPT ![p] = batch[p]]
  /\ UNCHANGED <<stream, lastRead, pel, idle, lock, stale, dlq, historyVars, worker>>

-------------------------------------------------------------------------------
(* A pod dies with everything it has in memory, and is restarted *)

Crash(p) ==
  /\ batch[p] # {} \/ \E d \in Deliveries : PodOf[d] = p /\ Busy(d)
  /\ Fault("crash")
  /\ worker' = [d \in Deliveries |-> IF PodOf[d] = p THEN NoWork ELSE worker[d]]
  /\ batch' = [batch EXCEPT ![p] = {}]
  /\ todo' = [todo EXCEPT ![p] = {}]
  /\ UNCHANGED <<redisVars, historyVars>>

-------------------------------------------------------------------------------
(* Specification *)

Init ==
  /\ stream = << >>
  /\ lastRead = 0
  /\ pel = {} /\ idle = {}
  /\ lock = [k \in Keys |-> "absent"] /\ stale = {}
  /\ retrySet = {}
  /\ batch = [p \in Pods |-> {}] /\ todo = [p \in Pods |-> {}]
  /\ dlq = [k \in Keys |-> 0]
  /\ accepted = [k \in Keys |-> 0]
  /\ tried = [t \in Tasks |-> {}]
  /\ scheduled = {}
  /\ worker = [d \in Deliveries |-> NoWork]
  /\ budget = MaxFaults

\* The steps of processTask after the task was delivered.
Process(d) ==
  \/ SetProcessing(d) \/ IsCompleted(d) \/ TryReclaimStale(d)
  \/ SendOk(d) \/ (\E e \in TransientErrors : SendTransient(d, e))
  \/ SendPermanent(d) \/ SendPanic(d)
  \/ Acknowledge(d) \/ SetCompleted(d)
  \/ ScheduleRetry(d) \/ SendToDLQ(d) \/ ClearProcessing(d)

Receive(d) ==
  ReadGroup(d) \/ \E m \in idle : ClaimStale(d, m)

Flush(p) ==
  FlushRead(p) \/ (\E m \in todo[p] : FlushXadd(p, m)) \/ FlushZrem(p)

Time ==
  (\E m \in pel : AgeEntry(m)) \/ (\E k \in Keys : AgeLock(k))

Next ==
  \/ \E t \in Tasks : Enqueue(t)
  \/ \E d \in Deliveries : Receive(d) \/ Process(d)
  \/ \E p \in Pods : Flush(p) \/ FlushBroken(p) \/ Crash(p)
  \/ Time
  \/ \E k \in Keys : ExpireLock(k)

Spec == Init /\ [][Next]_vars

-------------------------------------------------------------------------------
(* What the pipeline promises *)

\* The type invariant.  Its content is the attempt numbers: no stream entry and
\* no sorted-set member carries an attempt beyond MaxAttempts, because a retry
\* is only scheduled for a retryable task (IsRetryable, supervisor.go).
TypeOK ==
  /\ stream \in Seq(Keys)
  /\ lastRead \in 0 .. Len(stream)
  /\ pel \subseteq 1 .. lastRead
  /\ idle \subseteq pel
  /\ lock \in [Keys -> Statuses]
  /\ stale \subseteq Keys
  /\ retrySet \subseteq Members
  /\ batch \in [Pods -> SUBSET Members]
  /\ todo \in [Pods -> SUBSET Members]
  /\ dlq \in [Keys -> 0 .. Cap]
  /\ accepted \in [Keys -> 0 .. Cap]
  /\ tried \in [Tasks -> SUBSET Attempts]
  /\ scheduled \subseteq Keys
  /\ worker \in [Deliveries -> WorkerStates]
  /\ budget \in 0 .. MaxFaults

\* The outcome of attempt k is on record somewhere that outlives the worker.
Recorded(k) ==
  \/ accepted[k] > 0
  \/ dlq[k] > 0
  \/ [task |-> k.task, attempt |-> k.attempt + 1] \in scheduled

\* An entry leaves the PEL only after the email was accepted, the next attempt
\* was put into the retry set or the task was dead-lettered: the ordering of
\* Acknowledge after Send, ScheduleRetry and SendToDLQ in processTask, and its
\* trust in a "completed" lock, with any failure between any two commands.
AckAfterOutcome ==
  \A m \in 1 .. lastRead : m \in pel \/ Recorded(stream[m])

Settled(t) == \E a \in Attempts : accepted[attemptKey(t, a)] > 0 \/ dlq[attemptKey(t, a)] > 0
Unacked(m) == m > lastRead \/ m \in pel
Live(t) ==
  \/ \E m \in 1 .. Len(stream) : Unacked(m) /\ stream[m].task = t
  \/ \E r \in retrySet : r.task = t

\* At-least-once: a task that was enqueued is settled (accepted by the provider
\* or dead-lettered), or still held by the stream, the PEL or the retry set,
\* from where ClaimStale or FlushReady will bring it back.
NoTaskLost ==
  \A t \in Tasks : Enqueued(t) => Settled(t) \/ Live(t)

\* Two deliveries never work on the same attempt at once: the idempotency gate
\* of processTask (SetProcessing, IsCompleted, TryReclaimStale) is a mutex on
\* the attempt, including takeover of a lock its holder left behind.
ExclusiveAttempt ==
  \A d1, d2 \in Deliveries :
    worker[d1].pc \in HoldPcs /\ worker[d2].pc \in HoldPcs /\ Key(d1) = Key(d2) => d1 = d2

\* One attempt never has two emails accepted, although its entry may be read,
\* claimed and resubmitted many times and its XACK may fail.
AcceptedOncePerAttempt ==
  \A k \in Keys : accepted[k] <= 1

\* Every further email of an attempt has a failure of its own to blame: a worker
\* that dies or stalls after Send, a lock that expires, a record that is not
\* written.  One failure never multiplies, although the DEL and the SET of a worker
\* whose lock was taken over hit the record of the one that took it.
ResendsCostFailures ==
  \A k \in Keys : accepted[k] <= 1 + (MaxFaults - budget)

\* A "completed" record is never taken back: neither the CAS and reclaim
\* scripts nor the unconditional DEL of ClearProcessing ever hits one.
CompletedIsFinal ==
  [][\A k \in Keys : lock[k] = "completed" => lock'[k] = "completed"]_vars

\* Fairness: the goroutines of processTask run, XREADGROUP and XAUTOCLAIM are
\* called again and again, every scheduler ticks, and time passes for entries
\* and for locks whose holder is gone.
Fairness ==
  /\ \A d \in Deliveries : WF_vars(Process(d))
  /\ WF_vars(\E d \in Deliveries : ReadGroup(d))
  /\ \A m \in 1 .. MaxMsgs :
       WF_vars(\E d \in Deliveries : ClaimStale(d, m)) /\ WF_vars(AgeEntry(m))
  /\ \A p \in Pods : WF_vars(Flush(p))
  /\ \A k \in Keys : WF_vars(AgeLock(k))

FairSpec == Spec /\ Fairness

\* Every task enqueued is eventually accepted or dead-lettered, once failures
\* stop: crashed pods' entries are claimed, abandoned locks reclaimed, due
\* retries flushed.  (Beyond MaxMsgs entries the model refuses XADD.)
EventuallySettled ==
  \A t \in Tasks : Enqueued(t) ~> (Settled(t) \/ Len(stream) = MaxMsgs)

\* The PEL drains: no entry is redelivered for ever.
PelDrains ==
  \A m \in 1 .. MaxMsgs : m \in pel ~> m \notin pel

\* The pipeline implements the contract of an at-least-once queue: a task is
\* pending while Redis holds a copy that will be delivered again, and it only
\* stops being pending by being settled.
SettledTasks == {t \in Tasks : Settled(t)}
PendingTasks == {t \in Tasks : Live(t) /\ ~Settled(t)}

Contract == INSTANCE DeliveryContract WITH
  pending <- PendingTasks, settled <- SettledTasks

ImplementsContract == Contract!Spec

-------------------------------------------------------------------------------
(* What comments and documents say, and the code does not do *)

\* docs/adr/ADR-006: an email is sent exactly once, whatever is redelivered.
SentExactlyOnce ==
  \A k1, k2 \in Keys :
    accepted[k1] > 0 /\ accepted[k2] > 0 /\ k1.task = k2.task
      => k1 = k2 /\ accepted[k1] = 1

\* retry_scheduler.go: a member whose XADD failed stays for the next tick.
RemovedOnlyIfAdded ==
  [][\A r \in retrySet \ retrySet' :
       \E i \in 1 .. Len(stream) : stream[i] = KeyOf(r)]_vars

\* docs/adr/ADR-004: a task that made a worker panic is dead-lettered when it
\* is processed next.
PoisonIsDeadLettered ==
  \A t \in Tasks : tried[t] # {} ~> (\E a \in Attempts : dlq[attemptKey(t, a)] > 0)

===============================================================================
