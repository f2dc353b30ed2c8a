# A TLA+ model of the email queue

The repository is a Go service that delivers email tasks through Redis: a
producer appends tasks to streams, a pool of workers per pod reads them through
a consumer group, sends them through SendGrid, schedules retries in a sorted set
and moves hopeless tasks to a dead-letter queue. This directory holds
specifications of it, the TLC configurations that check them on small instances
and TLAPS proofs for instances of every size.

## Inventory

| Component | State | Operations | Interaction |
|---|---|---|---|
| Producer (`adapters/redis/producer.go`) | none of its own | `Enqueue`, `EnqueueBatch`, `EnqueueDelayed` | XADD to a priority stream, alone or in a pipeline; ZADD to `queue:email:delayed` |
| Consumer (`adapters/redis/consumer.go`) | a group on each of four streams, its position, pending-entries list (PEL) and idle times, all in Redis | `Consume`/`pollLoop`, `Acknowledge`, `Nack`, `ClaimStale` | feeds the supervisor through a buffered channel |
| Supervisor (`worker/supervisor.go`) | semaphore, active-workers counter, goroutines | `Run`, `dispatch`, `processTask`, `waitForWorkers`, `Drain` | calls every other adapter, one Redis command after another |
| Idempotency store and Lua scripts (`adapters/redis/idempotency.go`, `scripts.go`) | one key per attempt: processing or completed, `started_at`, TTL; the scripts loaded in Redis | `LoadScripts`, `SetProcessing`, `IsCompleted`, `TryReclaimStale`, `SetCompleted`, `ClearProcessing` | shared by all pods |
| Retry scheduler (`adapters/redis/retry_scheduler.go`, `worker/delayed_scheduler.go`) | sorted set of tasks, poison list | `ScheduleRetry`, `FlushReady`, quarantine | written by workers, flushed by every pod's ticker into the streams |
| DLQ writer (`adapters/redis/dlq_writer.go`) | one list per tenant and type | `SendToDLQ` (reads: `ListDLQ`, `DLQDepth`) | written by workers |
| Sender and circuit breaker (`adapters/email`) | consecutive failures, `openUntil` | `Send`, `Allow`, `RecordSuccess`, `RecordFailure` | called concurrently by the workers of a pod |
| Task and policy (`domain`) | attempt, error, metadata | `Validate`, `IsRetryable`, `IsPoisonMessage`, `ComputeDelay` | used by producer, supervisor and scheduler |
| Configuration (`config/config.go`) | settings | `Load`, `Validate` | read once by `main` |
| Lifecycle (`cmd/server/main.go`) | contexts, errgroup, readiness flag | start, signals, shutdown coordinator, exit code | runs the servers, the supervisor, the scheduler and the DLQ monitor, closes Redis and the tracer |
| HTTP API (`adapters/http`) | readiness flag | probes; task handlers that answer 501 | served by `main` |
| DLQ monitor, Redis client, observability, stubs | – | – | read-only gauge, connection, output, stand-ins |

What is hard here: `processTask` is a chain of up to seven Redis commands and one
HTTP call, none atomic with the next, run by several goroutines in several pods
on redelivered copies of the same task. Every command may fail with or without
having been applied; a pod may die between any two; entries and locks are taken
over by age; the flush pipeline is not a transaction and runs in every pod.
`PROJECT.json` lists each hazard with its line and the properties that cover it.

## Modules

* **`DeliveryPipeline`** is the core: producer, stream, consumer group,
  idempotency gate, sender, retry set, flush and DLQ. One action is one Redis
  command, Lua script or `Send`. A *delivery* is one in-memory copy of a task;
  its `pc` names the next command of `processTask`. `lock` and `stale` are the
  idempotency keys and their age, `pel` and `idle` the pending entries and
  theirs; `accepted` counts emails per attempt; `tried` and `scheduled` are
  history. Failures are nondeterministic, each of a kind in `Faults` and paid
  from `budget`; a failed command is modelled in both versions, applied and not.
* **`DeliveryContract`** is the abstract specification, an at-least-once queue:
  tasks are pending until settled, and settled for good. `DeliveryPipeline`
  implements it with *pending* read as "not settled, and Redis holds an
  unacknowledged entry or a retry member of it".
* **`OutcomeHistory`** adds a history to `DeliveryPipeline`, the attempts that were
  put in *doubt*: a step deleted the lock of the attempt, let it expire or handed
  it to another delivery, or the provider's answer was lost. It also counts the
  pushes to the DLQ that the client library repeated. It changes nothing in what
  the pipeline does, and serves to say what a second outcome goes back to.
* **`WorkerPool`** is one pod: poll loop, channel, `Run` and `dispatch`,
  semaphore, counter, goroutines, the two drains and the closing of Redis. What
  `processTask` does with Redis is one step there (`Work`); `DeliveryPipeline`
  has the details, and takes the wait for channel and slot as the time a
  delivery spends at `gate`.
* **`PoolContract`** is the abstract supervisor, in five variables: workers are
  launched only while its loop runs and into a free slot, count themselves when
  they are scheduled, and give back the slot before they count themselves out.
  `WorkerPool` implements it, with the goroutines counted by their state, and so
  does `Service`, which has only the three numbers.
* **`RetryQueue`** is the delay queue in detail: back-off, scores in whole
  seconds, batch limit, unparsable members and their quarantine, pipelines of
  several pods broken anywhere and repeated by the client library, commands that
  Redis refuses while those behind them run (`dropped` keeps the members a ZREM then
  loses), and the separate set `EnqueueDelayed` writes.
* **`CircuitBreaker`** is `SendGridSender.Send` with its breaker. In
  `DeliveryPipeline` a rejected call is a permanent error, as in the supervisor.
* **`Producer`** is `Enqueue` and `EnqueueBatch`, command by command, and what they
  return: a command may be refused, the connection lost with some replies read, or
  none obtained at all. The last leaves an error on `Exec` and none on the commands
  of a pipeline; `Enqueue`, which runs a single command, has it there.
* **`ConsumerGroup`** composes `Producer` with the consumers of all pods: several
  streams, how their groups are created at `"$"`, lost and recreated, entries
  that do not parse, `ClaimStale` stream by stream, the Lua scripts a pod loads
  when it starts, and restarts of Redis with or without its data. `processTask`
  is one step there (`Handle`, or `NackNoScript` while Redis lacks the scripts).
* **`Service`** is one process: configuration, start-up, the six goroutines of
  the errgroup, signals, the shutdown with its timeouts, and the exit code. Of the
  supervisor it has what `PoolContract` shows: a worker is not counted before it
  begins, which may be after `Run` has returned, and may still be counted when
  its slot is another's, so that `activeWorkers` may exceed the pool size.
* `MC*` modules hold the values the `.cfg` files give to constants, `*_proofs`
  the proofs. A definition `X_variant` is `X` with a plausible fault; no action
  uses it, and each property is known to fail when the fault replaces `X`.

`PROJECT.json`, under `map`, has the source lines of every definition.

Abstractions. In `DeliveryPipeline`: one stream, whose entries parse and whose
group exists (`ConsumerGroup` has the others); a task is an ID and an attempt
number; a pipeline whose connection is lost (flush or DLQ) is given up or repeated
as a whole by the client library, and a refused XADD is a failure of its own; when a
retry is due is nondeterministic (`RetryQueue` has the scores);
TTLs act only as `ttl` failures. In `ConsumerGroup` IDs count entries over all
streams, which keeps their order within each. In `RetryQueue` the random part of
a delay is a whole number of ticks. In `Service` a step that waits for nothing
takes no time, and the clock counts from the moment the service is to stop.

## Runs

| Run | Checks | Shows |
|---|---|---|
| `pipeline_safety` | `TypeOK`, `AckAfterOutcome`, `NoTaskLost`, `ResendsCostFailures`, `OneOutcome` | two deliveries of a task at once and one failure of any kind anywhere: nothing acknowledged before its outcome is on record, nothing lost, at most one more email for a failure, no second outcome of a task without a doubted attempt, and more than one DLQ entry only where the client library repeated the push |
| `pipeline_locks` | `ExclusiveAttempt`, `AcceptedOncePerAttempt`, `CompletedIsFinal` | the idempotency gate is a mutex per attempt, with two pods flushing duplicates |
| `pipeline_liveness` | `ImplementsContract`, `EventuallySettled`, `PelDrains` | with two failures, crashes included, the pipeline is an at-least-once queue and everything still settles |
| `group` | `TypeOK`, `ReportIsTruthful`, `SkippedOnlyInGap`, `GroupsComeBack`, `HandledInTheEnd` | producer and two pods on two streams through failures of Redis, a connection or a pod: reports are true but for the `nil` of an `EnqueueBatch` that never got a connection, which never hides a partial write; only entries written while a stream had no group are skipped, groups come back, and neither an unparsable entry nor a missing group blocks the rest |
| `pool` | `TypeOK`, `BoundedConcurrency`, `NothingDropped`, `ShutdownTerminates`, `ReadTaskStarts`, `ImplementsPool` | exact counters, bounded work, no entry dropped by a shutdown, no deadlock at shutdown, no starvation by back-pressure, and a pool as in `PoolContract` |
| `service` | `TypeOK`, `StopsInTwoDrains`, `CleanExit`, `NoPartialService`, `PanicOnlyByInterval`, `ImplementsPool`, `ShutdownCompletes` | signals, failures and hanging requests or workers at any point: the process ends, in time, with the right exit code, never runs on with a part missing, and has its workers as in `PoolContract` |
| `breaker` | `TypeOK`, `OpensEveryMaxFailures`, `ShutOutBounded`, `OpenEnds` | late results do not confuse the count, and keep the circuit open only as long as the requests in flight can open it anew |
| `retry` | `TypeOK`, `Accounted`, `DuplicatesBounded`, `NeverEarly`, `RetryDrains` | concurrent flushes, quarantine, broken and repeated pipelines lose nothing except by a ZREM behind a refused push, copy boundedly, put nothing back a second or more early and are not blocked |

Four runs are expected to find a violation: each states what a comment or a
document says and shows that the code does otherwise.

| Run | Statement | What happens |
|---|---|---|
| `pipeline_exactly_once` | ADR-006: exactly-once delivery is enforced | a redelivered attempt reclaims the lock a scheduled retry left behind; both send |
| `pipeline_flush_loss` | a failed XADD is retried on the next tick | the ZREM removes the member anyway |
| `pipeline_poison` | ADR-004: a poison task goes to the DLQ on redelivery | the flag is lost with the in-memory copy; the task panics for ever |
| `pool_redis_closed` | Redis is closed when the workers are idle | a launched goroutine has not counted itself yet |

### Disagreements without a run

Met while modelling; the models do what the code does.

* `email_task.go:59` and `retry_policy.go:19` call `MaxAttempts` the total number
  of attempts; `Attempt` starts at 0 and a task is sent `MaxAttempts + 1` times.
  `retry_policy.go:23` has the first retry wait for `BaseDelay` (attempt 0), but
  the supervisor increments `Attempt` first, so it waits for twice that. The
  policy is `DefaultRetryPolicy`'s: `RETRY_BASE_DELAY`, `RETRY_MAX_DELAY` and
  `RETRY_JITTER_FACTOR` are validated and not used.
* `producer.go:197-198` has the scheduler move delayed tasks; no scheduler reads
  `queue:email:delayed`.
* `ports/retry.go:18-19` calls re-scheduling a queued task ID a no-op; ZADD NX
  compares the whole JSON, with its error and stream ID.
* `supervisor.go:221` logs "processing anyway" when `SetProcessing` fails; the task
  is then treated as not acquired, and after `NOSCRIPT` nacked until a pod
  restarts. ADR-008:398 has the liveness probe notice a lost Redis;
  `handleHealthz` does not ask it.
* `supervisor.go:72-73` says that `Run` drains its goroutines; a launched one may
  not have counted itself (the cause behind `pool_redis_closed`).
* `circuit_breaker.go:12-14` says that an open circuit rejects until its window
  elapses, and ADR-005:373 that it resets after 30 s; the late success of an earlier
  request closes it at once, and late failures start the window over
  (`ShutOutBounded` says how often).
* `producer.go:119-127` has `EnqueueBatch` list every failed task; when the client
  library obtains no connection, `Exec` returns an error that no command has, the
  code looks at the commands only (168-181) and returns nil with nothing written.
* `retry_scheduler.go:242-244` checks the ZREM of the quarantine and nothing looks at
  its RPUSHes: one that is refused has its member removed all the same, as in
  `pipeline_flush_loss`.
* `handlers.go:24-25` and `router.go:50-52`: `/readyz` reports the worker pool active
  before `Consume` has run, and `SetReady(true)` of a late HTTP goroutine may
  overwrite the `SetReady(false)` of the shutdown.
* `main.go:36-37` has misconfigurations caught at start-up; an interval that is not
  positive passes `Validate` and panics in `NewTicker`. `main.go:172-173` has panics
  propagated by the errgroup; nothing recovers them.
* `main.go:232-237` and ADR-008:102-108 have Redis closed and the pod gone at T+30s;
  the drains are in series and may take twice `DRAIN_TIMEOUT` (`StopsInTwoDrains` is
  the bound that holds), after which the tracer's flush finds its context expired.
  With the documented 30 s that is 60 s, and with the 5 s that the preStop hook of
  ADR-008:121-130 takes from the same 60 s grace period the process may be killed
  before it is done.
* `README.md:154` promises exit code 0 after SIGTERM; a signal that arrives before
  `Consume` has made the groups makes it fail, and the exit code is 1.
  `README.md:140` names `WORKER_DRAIN_TIMEOUT`; the code reads `DRAIN_TIMEOUT`.

### Bounds

The pipeline runs have one task, two deliveries (one for liveness), one retry
(`MaxAttempts = 1`) and three stream entries: enough for a redelivery to overlap
with the original, its retry and a resubmission. Failures are bounded by
`MaxFaults`, one in the safety runs because two deliveries and ageing already
produce the overlaps, two in the liveness run. `xadd` failures are left out of
`pipeline_safety` since they lose tasks (`pipeline_flush_loss`); `slow`, `ttl`,
`crash`, `complete` and `ambiguous` out of `pipeline_locks` since after them the
code sends again. `Cap` stops the counts of emails and DLQ entries above
every number the properties compare them with.
Several tasks only share the flush batch; the proofs cover any number. The
liveness run leaves out panics (`pipeline_poison`), and a task that reaches
`MaxMsgs` entries counts as settled because the model refuses the next one.
`pool` has two tasks, one slot, a channel of one and two goroutines (one that has
released its slot still counts), so that channel and semaphore fill up;
`pool_redis_closed` has two slots and three goroutines. The breaker has five
workers and `MaxFailures = 2`, so that late failures can open it anew twice;
`MaxStreak` is larger than the pool, so that the count of windows does not get to it. The
retry run has an unparsable member and two tasks, one of them on a later attempt,
with a batch of one that the unparsable member fills, two pods, one broken
pipeline and one refused push, and a second of two ticks so that scores are cut off.
`group` has one call, of `Enqueue` or of `EnqueueBatch` (a batch over both streams, one with
an invalid task), an unparsable entry, two stored entries and two pods: enough for one
pod to recreate a group while the other reads and the producer writes between them. A
failure of the producer counts for one and any other for `FaultCost = 2` of the
`MaxFaults = 2`, so that a call can lose its first connection and its last one
(`MaxRetries = 1`), or one failure of Redis or a pod falls anywhere. Its
`ClaimCount` exceeds the number of unparsable entries; with as many of
them as `claimBatchSize` (100) on a stream, `ClaimStale` would not get past them.
`service` has nine environments (one with more slots than workers, the others that
get to the launch with a single slot; one for each way to fail `Validate` that
matters later, one for each interval, one with both servers on a port), a request
per server, two worker goroutines, so that one may be counted beside the holder of
the only slot, and a drain timeout of two ticks.

Deadlock is not checked where the system may come to rest: everything settled,
or the pod shut down.

### Fairness

`DeliveryPipeline!FairSpec`: a goroutine in `processTask` proceeds (`Send` has a
30 s timeout), `XREADGROUP` and `ClaimStale` are called for ever by the poll loop
and the ticker, every scheduler ticks, and time passes for entries and locks.
Failures are not fair: they just stop being available. `WorkerPool!FairSpec`:
goroutines are scheduled, the drain timers fire, and `RunReceive` is strongly
fair because Go's `select` picks among ready cases at random, so a channel that
is ready again and again is chosen. The start of the shutdown is not assumed.
`CircuitBreaker` assumes only that time passes; `RetryQueue` that the clock and
the schedulers do. `ConsumerGroup!FairSpec`: Kubernetes restarts a pod that died,
poll loop and claim ticker go on, workers run, time passes; that the scripts
stay loaded is the premise of `HandledInTheEnd`, not assumed. `Service!FairSpec`:
every goroutine runs and time passes; requests and workers may hang.

## Proofs

All for arbitrary constants.

* `DeliveryPipeline_proofs`, six inductive invariants built on one another:
  * `Typed`: `TypeOK`, and a busy delivery carries an entry that was read;
    gives `TypeCorrect`.
  * `AckInv` adds that a delivery at `ack` or `complete` has its outcome on
    record and that a completed lock means an accepted email; gives `AckSafety`,
    under every failure.
  * `CustodyInv` adds that an enqueued task, and every scheduled attempt, is
    *held*: settled, or held at this attempt or a later one by an unacknowledged
    entry or by a member that no pod is about to remove without having added it.
    "At this attempt or a later one" is what makes it inductive: an
    acknowledgement passes custody on to the scheduled retry. Gives
    `AtLeastOnce` and `RefinesContract`, assuming `"xadd" \notin Faults`.
  * `TickedOff`: a member a pod has taken off its list of XADDs has its attempt in
    the stream. Under the same assumption it gives `FlushKeeps`, the comment that
    `pipeline_flush_loss` refutes: a refused XADD is the only failure behind it.
  * `LockInv`: whoever is past the gate has a fresh processing lock; gives
    `MutualExclusion` and `CompletedFinal`, assuming locks neither expire nor age
    past the threshold under a holder.
  * `OnceInv` adds that an accepted attempt is completed or about to be; gives
    `OncePerAttempt`, assuming no `ResendFaults`.
* `Resends_proofs`: `ResendsBounded`, without any assumption on failures. Its
  invariant bounds the *exposure* of an attempt: the emails it has, plus the
  deliveries that passed the gate and still owe an outcome, plus one if the gate
  is open, now or once the lock is old. A failure raises it by one, and nothing
  else does: what a step adds to one term it takes from another.
* `OutcomeHistory_proofs`: `OneOutcomeOnly` and `ExactlyOnceWithoutDoubt`, again
  without any assumption on failures. `OutcomeInv` says of an attempt that is not
  in doubt (`GateInv`): it has at most one outcome (email, DLQ entry or scheduled
  retry), at most one delivery is past its gate, that one finds no outcome on
  record before it has recorded its own, and an absent lock means that nobody has
  passed. `Chain` says of a task that its attempts come one after the other, each
  scheduled by the one before, so that an attempt with an email or a DLQ entry, its
  only outcome, has no successor. Entries in the DLQ are counted against the repeated
  pushes, so that one call of `SendToDLQ` is one outcome. The second theorem is the promise of ADR-006 with the
  premise it needs; `pipeline_exactly_once` shows the code itself removing that
  premise, by reclaiming the lock a scheduled retry left behind.
* `ConsumerGroup_proofs`: `GroupTypeCorrect`, `NothingSkipped` and
  `TruthfulReports`. `StreamInv` has an invariant for the log, the groups, what was
  skipped and the pods' memory; entries claimed by one pod may be acknowledged by
  another in the meantime, so a pod's hand is only known to hold entries that
  parse. `CallInv` and `PipelineInv` relate the commands a pipeline has run, on
  whichever repetition, to the entries in the streams: a command without an error
  has its entry if it comes before the one that runs next, or wherever it stands when
  a repetition begins, unless no attempt had a connection yet.
* `WorkerPool_proofs`: `PoolTypeCorrect` and `SemaphoreBounds`, from the
  invariant that both counters equal the cardinality of the goroutines they
  count; without it a release could take a counter below zero. `NothingLeftBehind`
  from `Begun`: a goroutine that may acknowledge has started on its task.
  `PodImplementsPool` step by step from the same counters: the slots split into
  those of goroutines that have not begun and of those that have, and a goroutine
  that leaves is counted and in neither part.
* `RetryQueue_proofs`: `QueueTypeCorrect`, and `NothingLost` from `BatchInv`: what a
  pod has taken off its list has a copy or was refused, so its ZREM removes nothing
  uncopied that it does not count as dropped.
  `NoEarlyRetry` from `TimeInv`: what a pod holds was due when it read it.
  `CopiesBounded` from `CopyInv`, which counts for each item the pods that may
  still add a copy.
* `CircuitBreaker_proofs`: `OpeningAccounting`, `BreakerTypeCorrect`, and
  `ShutOutIsBounded` from `ShutInv`: while the circuit is open, the failures counted
  for its windows and the requests that may still fail are together no more than the
  pool, because a failure only moves a request from the one to the other and nobody
  is admitted. `WindowsBounded` derives that the model's own bound is never met.
* `Service_proofs`: `ServiceTypeCorrect`, `WholeOrStopping`, `TrueExitCode`,
  `OnlyIntervalsPanic`, `TwoDrains` and `ProcessHasPool`. `ServiceInv` ties each goroutine's place to
  what main, the coordinator and the errgroup have done; `WorkInv` places workers
  and requests; `TimeInv` bounds the clock
  by the deadline of whatever is still waited for.

Every invariant, action property and refinement of the passing runs is proved.
Only model-checked: liveness (fairness and ENABLED are outside the prover's reach)
and the violations.

## Plan

Done: the modules, runs and proofs above. Possible next steps:

1. An abstract delay queue that both `RetryQueue` and the retry set of
   `DeliveryPipeline` implement, as `WorkerPool` and `Service` do `PoolContract`.
2. `Consume`, `pollLoop` and `ClaimStale` of `ConsumerGroup` as the receiving side of
   `DeliveryPipeline`, so that its custody argument extends to a Redis that loses
   its data.

## Not modelled

The task handlers of the HTTP API (they answer 501) and its middleware; pool
metrics, log lines, spans and gauges, which nothing reads back; `ListDLQ`,
`DLQDepth` and the DLQ monitor's scrape, which only read; the TTL of DLQ lists;
the stubs, which keep no state; a `WORKER_POOL_SIZE` beyond what `make(chan)` accepts,
which passes `Validate` and panics at `consumer.go:117`.
