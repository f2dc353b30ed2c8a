------------------------------ MODULE WorkerPool ------------------------------
(***************************************************************************)
(* The goroutines of one pod: the consumer's poll loop and its channel,    *)
(* the supervisor's dispatch loop with its semaphore, the worker           *)
(* goroutines with the active-workers counter, and the shutdown            *)
(* coordinator of main.  What a worker does with its task is the subject   *)
(* of DeliveryPipeline; here it acknowledges its entry or leaves it in the *)
(* PEL.                                                                    *)
(*                                                                         *)
(* A definition X_variant is X with a fault; no action uses it.  It serves *)
(* to see that a property fails when the code has that fault.              *)
(***************************************************************************)
EXTENDS Integers, Sequences, FiniteSets

CONSTANTS
  Tasks,       \* entries of the stream, one per task
  PoolSize,    \* cfg.Worker.PoolSize: semaphore slots and channel buffer
  Goroutines,  \* bound: worker goroutines that exist at once
  ReadCount    \* COUNT of XREADGROUP

ASSUME PoolAssumption ==
  /\ PoolSize \in Nat \ {0}
  /\ ReadCount \in Nat \ {0}
  /\ IsFiniteSet(Goroutines)

VARIABLES
  cancelled,   \* gCtx is done: SIGTERM, or a goroutine of the errgroup failed
  unread,      \* entries not delivered to the group yet
  pel,         \* entries delivered and not acknowledged
  poll,        \* pollLoop: its pc and the entries it still has to forward
  ch,          \* the channel between pollLoop and Run
  closed,      \* the channel is closed
  run,         \* Run: its pc and the tasks it is dispatching
  sem,         \* occupied semaphore slots
  active,      \* activeWorkers
  gor,         \* worker goroutines: their state and task
  coord,       \* pc of the shutdown coordinator
  forced,      \* who gave up waiting because its drain timeout elapsed
  redisClosed, \* redisLifecycle.Close was called
  started      \* tasks a worker has begun to process (history)

vars == <<cancelled, unread, pel, poll, ch, closed, run, sem, active, gor, coord, forced,
          redisClosed, started>>

-------------------------------------------------------------------------------
(* Types *)

NoTask == "no task"
GorStates == {"none", "spawned", "working", "finished", "released"}
\* A goroutine holds its slot from the dispatch to the deferred release.
Slots == {g \in Goroutines : gor[g].st \in {"spawned", "working", "finished"}}
\* It is counted from its first to its last statement.
Counted == {g \in Goroutines : gor[g].st \in {"working", "finished", "released"}}
Working == {g \in Goroutines : gor[g].st = "working"}
Alive == {g \in Goroutines : gor[g].st # "none"}

-------------------------------------------------------------------------------
(* Consumer: pollLoop *)

\* pollLoop looks at its context only between two calls.
PollCall ==
  /\ poll.pc = "read" /\ ~cancelled
  /\ poll' = [poll EXCEPT !.pc = "blocked"]
  /\ UNCHANGED <<cancelled, unread, pel, ch, closed, run, sem, active, gor, coord, forced,
                 redisClosed, started>>

PollRead_noAck(entries) ==
  /\ poll.pc = "blocked" /\ ~redisClosed
  /\ entries # {} /\ entries \subseteq unread /\ Cardinality(entries) <= ReadCount
  /\ unread' = unread \ entries
  /\ poll' = [pc |-> "send", hand |-> entries]
  /\ UNCHANGED <<cancelled, pel, ch, closed, run, sem, active, gor, coord, forced, redisClosed, started>>

\* XREADGROUP answers with up to ReadCount new entries, also when the context
\* was cancelled while it was blocked.
PollRead(entries) ==
  /\ poll.pc = "blocked" /\ ~redisClosed
  /\ entries # {} /\ entries \subseteq unread /\ Cardinality(entries) <= ReadCount
  /\ unread' = unread \ entries
  /\ pel' = pel \cup entries
  /\ poll' = [pc |-> "send", hand |-> entries]
  /\ UNCHANGED <<cancelled, ch, closed, run, sem, active, gor, coord, forced, redisClosed, started>>

\* BlockTimeout elapses, or the call fails.
PollNothing ==
  /\ poll.pc = "blocked"
  /\ poll' = [poll EXCEPT !.pc = "read"]
  /\ UNCHANGED <<cancelled, unread, pel, ch, closed, run, sem, active, gor, coord, forced,
                 redisClosed, started>>

\* Forward one task; a full channel blocks.
PollSend(t) ==
  /\ poll.pc = "send" /\ t \in poll.hand
  /\ Len(ch) < PoolSize
  /\ ch' = Append(ch, t)
  /\ poll' = [pc |-> IF poll.hand = {t} THEN "read" ELSE "send", hand |-> poll.hand \ {t}]
  /\ UNCHANGED <<cancelled, unread, pel, closed, run, sem, active, gor, coord, forced,
                 redisClosed, started>>

PollExit_betweenReads ==
  /\ poll.pc \in {"read", "blocked"} /\ cancelled
  /\ poll' = [pc |-> "done", hand |-> {}]
  /\ closed' = TRUE
  /\ UNCHANGED <<cancelled, unread, pel, ch, run, sem, active, gor, coord, forced,
                 redisClosed, started>>

\* The context is done: leave, with what is in hand staying in the PEL, and
\* close the channel.  A channel with room left is as good a choice for select.
PollExit ==
  /\ poll.pc \in {"read", "blocked", "send"} /\ cancelled
  /\ poll' = [pc |-> "done", hand |-> {}]
  /\ closed' = TRUE
  /\ UNCHANGED <<cancelled, unread, pel, ch, run, sem, active, gor, coord, forced,
                 redisClosed, started>>

-------------------------------------------------------------------------------
(* Supervisor: Run and dispatch *)

RunReceive_draining ==
  /\ run.pc \in {"select", "wait"} /\ ch # << >>
  /\ run' = [pc |-> "dispatch", todo |-> {Head(ch)}]
  /\ ch' = Tail(ch)
  /\ UNCHANGED <<cancelled, unread, pel, poll, closed, sem, active, gor, coord, forced,
                 redisClosed, started>>

\* case task := <-taskCh
RunReceive ==
  /\ run.pc = "select" /\ ch # << >>
  /\ run' = [pc |-> "dispatch", todo |-> {Head(ch)}]
  /\ ch' = Tail(ch)
  /\ UNCHANGED <<cancelled, unread, pel, poll, closed, sem, active, gor, coord, forced,
                 redisClosed, started>>

\* case <-claimTicker.C: any pending entries may be idle for long enough, those
\* of this pod included.  With a cancelled context ClaimStale fails.
RunClaim(entries) ==
  /\ run.pc = "select" /\ ~cancelled
  /\ entries # {} /\ entries \subseteq pel
  /\ run' = [pc |-> "dispatch", todo |-> entries]
  /\ UNCHANGED <<cancelled, unread, pel, poll, ch, closed, sem, active, gor, coord, forced,
                 redisClosed, started>>

\* case <-ctx.Done(), or the channel is closed and empty: stop dispatching.
RunStop ==
  /\ run.pc = "select"
  /\ cancelled \/ (closed /\ ch = << >>)
  /\ run' = [pc |-> "wait", todo |-> {}]
  /\ UNCHANGED <<cancelled, unread, pel, poll, ch, closed, sem, active, gor, coord, forced,
                 redisClosed, started>>

AfterDispatch(t) ==
  run' = [pc |-> IF run.todo = {t} THEN "select" ELSE "dispatch", todo |-> run.todo \ {t}]

DispatchLaunch_noSlot(t, g) ==
  /\ run.pc = "dispatch" /\ t \in run.todo
  /\ gor[g].st = "none"
  /\ sem' = sem + 1
  /\ gor' = [gor EXCEPT ![g] = [st |-> "spawned", task |-> t]]
  /\ AfterDispatch(t)
  /\ UNCHANGED <<cancelled, unread, pel, poll, ch, closed, active, coord, forced,
                 redisClosed, started>>

\* dispatch acquires a slot and starts a goroutine ...
DispatchLaunch(t, g) ==
  /\ run.pc = "dispatch" /\ t \in run.todo
  /\ sem < PoolSize
  /\ gor[g].st = "none"
  /\ sem' = sem + 1
  /\ gor' = [gor EXCEPT ![g] = [st |-> "spawned", task |-> t]]
  /\ AfterDispatch(t)
  /\ UNCHANGED <<cancelled, unread, pel, poll, ch, closed, active, coord, forced,
                 redisClosed, started>>

\* ... or nacks the task because the context is done.
DispatchNack(t) ==
  /\ run.pc = "dispatch" /\ t \in run.todo
  /\ cancelled
  /\ AfterDispatch(t)
  /\ UNCHANGED <<cancelled, unread, pel, poll, ch, closed, sem, active, gor, coord, forced,
                 redisClosed, started>>

\* waitForWorkers returns when the counter is zero or the drain timeout elapses.
RunReturn ==
  /\ run.pc = "wait"
  /\ run' = [run EXCEPT !.pc = "returned"]
  /\ forced' = IF active = 0 THEN forced ELSE forced \cup {"run"}
  /\ UNCHANGED <<cancelled, unread, pel, poll, ch, closed, sem, active, gor, coord,
                 redisClosed, started>>

-------------------------------------------------------------------------------
(* Worker goroutines: processTask *)

\* The first statement counts the worker.
Begin(g) ==
  /\ gor[g].st = "spawned"
  /\ gor' = [gor EXCEPT ![g].st = "working"]
  /\ active' = active + 1
  /\ started' = started \cup {gor[g].task}
  /\ UNCHANGED <<cancelled, unread, pel, poll, ch, closed, run, sem, coord, forced, redisClosed>>

\* The body ends with its entry acknowledged, or not: a nack, a panic or a
\* Redis client that is closed.
Work(g) ==
  /\ gor[g].st = "working"
  /\ gor' = [gor EXCEPT ![g].st = "finished"]
  /\ \/ ~redisClosed /\ pel' = pel \ {gor[g].task}
     \/ UNCHANGED pel
  /\ UNCHANGED <<cancelled, unread, poll, ch, closed, run, sem, active, coord, forced,
                 redisClosed, started>>

Release_leak(g) ==
  /\ gor[g].st = "finished"
  /\ gor' = [gor EXCEPT ![g].st = "released"]
  /\ UNCHANGED <<cancelled, unread, pel, poll, ch, closed, run, sem, active, coord, forced,
                 redisClosed, started>>

\* The deferred function frees the slot, then counts the worker out.
Release(g) ==
  /\ gor[g].st = "finished"
  /\ gor' = [gor EXCEPT ![g].st = "released"]
  /\ sem' = sem - 1
  /\ UNCHANGED <<cancelled, unread, pel, poll, ch, closed, run, active, coord, forced,
                 redisClosed, started>>

Leave(g) ==
  /\ gor[g].st = "released"
  /\ gor' = [gor EXCEPT ![g] = [st |-> "none", task |-> NoTask]]
  /\ active' = active - 1
  /\ UNCHANGED <<cancelled, unread, pel, poll, ch, closed, run, sem, coord, forced,
                 redisClosed, started>>

-------------------------------------------------------------------------------
(* main: cancellation and the shutdown coordinator *)

Cancel ==
  /\ ~cancelled
  /\ cancelled' = TRUE
  /\ UNCHANGED <<unread, pel, poll, ch, closed, run, sem, active, gor, coord, forced,
                 redisClosed, started>>

\* After the HTTP and metrics servers are shut down, Drain waits like
\* waitForWorkers does.
CoordStart ==
  /\ coord = "idle" /\ cancelled
  /\ coord' = "drain"
  /\ UNCHANGED <<cancelled, unread, pel, poll, ch, closed, run, sem, active, gor, forced,
                 redisClosed, started>>

CoordDrained ==
  /\ coord = "drain"
  /\ coord' = "close"
  /\ forced' = IF active = 0 THEN forced ELSE forced \cup {"coord"}
  /\ UNCHANGED <<cancelled, unread, pel, poll, ch, closed, run, sem, active, gor,
                 redisClosed, started>>

CoordClose ==
  /\ coord = "close"
  /\ coord' = "done"
  /\ redisClosed' = TRUE
  /\ UNCHANGED <<cancelled, unread, pel, poll, ch, closed, run, sem, active, gor, forced, started>>

-------------------------------------------------------------------------------
(* Specification *)

Init ==
  /\ cancelled = FALSE
  /\ unread = Tasks /\ pel = {}
  /\ poll = [pc |-> "read", hand |-> {}]
  /\ ch = << >> /\ closed = FALSE
  /\ run = [pc |-> "select", todo |-> {}]
  /\ sem = 0 /\ active = 0
  /\ gor = [g \in Goroutines |-> [st |-> "none", task |-> NoTask]]
  /\ coord = "idle" /\ forced = {}
  /\ redisClosed = FALSE
  /\ started = {}

Poll ==
  \/ PollCall \/ PollNothing \/ PollExit
  \/ \E entries \in SUBSET unread : PollRead(entries)
  \/ \E t \in poll.hand : PollSend(t)

Dispatch == \E t \in run.todo : DispatchNack(t) \/ \E g \in Goroutines : DispatchLaunch(t, g)

Worker(g) == Begin(g) \/ Work(g) \/ Release(g) \/ Leave(g)

Coordinator == CoordStart \/ CoordDrained \/ CoordClose

Next ==
  \/ Poll
  \/ RunReceive \/ (\E entries \in SUBSET pel : RunClaim(entries)) \/ RunStop \/ Dispatch \/ RunReturn
  \/ \E g \in Goroutines : Worker(g)
  \/ Cancel \/ Coordinator

Spec == Init /\ [][Next]_vars

\* Every goroutine is scheduled, the timers of the two drains fire, and a select
\* that can receive again and again does: Go chooses among ready cases at random.
Fairness ==
  /\ WF_vars(Poll) /\ WF_vars(Dispatch) /\ WF_vars(RunReturn) /\ WF_vars(RunStop)
  /\ SF_vars(RunReceive)
  /\ \A g \in Goroutines : WF_vars(Worker(g))
  /\ WF_vars(Coordinator)

FairSpec == Spec /\ Fairness

-------------------------------------------------------------------------------
(* Properties *)

\* The type invariant.  Its content: slots and channel never exceed PoolSize,
\* and neither counter goes below zero.
TypeOK ==
  /\ cancelled \in BOOLEAN
  /\ unread \subseteq Tasks /\ pel \subseteq Tasks
  /\ poll \in [pc : {"read", "blocked", "send", "done"}, hand : SUBSET Tasks]
  /\ ch \in Seq(Tasks) /\ Len(ch) <= PoolSize
  /\ closed \in BOOLEAN
  /\ run \in [pc : {"select", "dispatch", "wait", "returned"}, todo : SUBSET Tasks]
  /\ sem \in 0 .. PoolSize
  /\ active \in Nat
  /\ gor \in [Goroutines -> [st : GorStates, task : Tasks \cup {NoTask}]]
  /\ coord \in {"idle", "drain", "close", "done"}
  /\ forced \subseteq {"run", "coord"}
  /\ redisClosed \in BOOLEAN
  /\ started \subseteq Tasks

\* The semaphore bounds the work: as many goroutines hold a slot as the channel
\* has elements, so at most PoolSize tasks are processed at once, and the
\* counter is exact, whatever the order in which goroutines start and end.
BoundedConcurrency ==
  /\ sem = Cardinality(Slots)
  /\ active = Cardinality(Counted)
  /\ Cardinality(Working) <= PoolSize

\* No entry is dropped: what was read and not acknowledged is pending, also when
\* the shutdown takes it out of pollLoop, the channel or dispatch.
NothingDropped ==
  \A t \in Tasks : t \in unread \/ t \in pel \/ t \in started

\* The goroutines of the pod as the process sees them.
Spawned == {g \in Goroutines : gor[g].st = "spawned"}
PoolPhase == CASE run.pc \in {"select", "dispatch"} -> "loop"
               [] run.pc = "wait" -> "drain"
               [] run.pc = "returned" -> "done"
Pool == INSTANCE PoolContract
  WITH size <- PoolSize, phase <- PoolPhase, slots <- sem, spawned <- Cardinality(Spawned)

\* The dispatch loop and the worker goroutines keep what PoolContract promises:
\* a goroutine is launched only while the loop runs and into a free slot, only one
\* that has begun frees its slot, and only one that has freed it counts itself out.
ImplementsPool == Pool!Spec

\* Shutdown terminates: after SIGTERM the poll loop, the dispatch loop and the
\* coordinator all end, although each may be blocked on the channel, on the
\* semaphore or on the counter when it comes.
ShutdownTerminates ==
  cancelled ~> (poll.pc = "done" /\ run.pc = "returned" /\ coord = "done")

\* Back-pressure does not starve: a task that was read is started unless the
\* pod shuts down first.
ReadTaskStarts ==
  \A t \in Tasks : t \in pel ~> (t \in started \/ cancelled)

-------------------------------------------------------------------------------
(* What a comment says, and the code does not do *)

\* cmd/server/main.go: Redis is closed when the workers are idle.
ClosedWhenIdle == redisClosed /\ "coord" \notin forced => Alive = {}

===============================================================================
