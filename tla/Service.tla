-------------------------------- MODULE Service --------------------------------
(***************************************************************************)
(* The life of one process: main from the configuration to the exit code.  *)
(* The environment is read and validated, the tracer, Redis and the Lua    *)
(* scripts are set up, six goroutines are launched in an errgroup, and a   *)
(* signal or the first error of one of them makes the shutdown coordinator *)
(* drain the HTTP server, the metrics server and the workers, close Redis  *)
(* and flush the tracer.  WorkerPool has the inside of the supervisor.     *)
(*                                                                         *)
(* The clock counts from the moment the service is to stop.  Steps that    *)
(* wait for nothing take no time: it advances when whoever is not done     *)
(* waits for requests, workers or a timeout.                               *)
(*                                                                         *)
(* A definition X_variant is X with a fault; no action uses it.  It serves *)
(* to see that a property fails when the code has that fault.              *)
(***************************************************************************)
EXTENDS Integers, FiniteSets

CONSTANTS
  Envs,        \* environments: functions from the variables that are set, and
               \* parse, to their values
  MaxActive,   \* bound: worker goroutines that exist at once
  MaxRequests  \* bound: requests in flight on a server

\* What of Config decides something here; the other fields only pass through to
\* libraries.  Durations are in ticks of one second, rates in percent; a text is
\* 1, an empty or unusable one 0.
Variables ==
  {"REDIS_URL", "API_KEYS", "REDIS_POOL_SIZE", "WORKER_POOL_SIZE", "DRAIN_TIMEOUT",
   "WORKER_CLAIM_IDLE_THRESHOLD", "RETRY_SCHEDULER_INTERVAL", "DLQ_MONITOR_INTERVAL",
   "RETRY_BASE_DELAY", "RETRY_MAX_DELAY", "RETRY_JITTER_FACTOR", "DLQ_TTL_SECONDS",
   "HTTP_PORT", "METRICS_PORT", "SENDGRID_API_KEY", "EMAIL_FROM", "STUB_EMAIL_FAIL_RATE",
   "LOG_LEVEL"}

ASSUME ServiceAssumption ==
  /\ \A env \in Envs : DOMAIN env \subseteq Variables /\ \A x \in DOMAIN env : env[x] \in Int
  /\ MaxActive \in Nat /\ MaxRequests \in Nat

VARIABLES
  env,       \* the process environment
  main,      \* pc of main
  signalled, \* SIGTERM was caught
  failed,    \* a goroutine of the errgroup returned an error
  gor,       \* pcs of the goroutines
  ready,     \* what /readyz reports
  shut,      \* servers whose Shutdown was called
  requests,  \* per server: requests in flight
  slots,     \* places of the semaphore that are taken
  spawned,   \* worker goroutines launched that have not counted themselves yet
  active,    \* activeWorkers
  deadline,  \* when each drain timeout elapses
  clock,     \* time since the service is to stop
  redis,     \* the Redis client: none, open or closed
  exit       \* running, or how the process ended

vars == <<env, main, signalled, failed, gor, ready, shut, requests, slots, spawned, active,
          deadline, clock, redis, exit>>
\* What the workers change.
workers == <<slots, spawned, active>>
\* What only the goroutines change, and what only main does.
goVars == <<ready, shut, requests, workers, deadline, clock>>

-------------------------------------------------------------------------------
(* Configuration *)

Default ==
  [x \in Variables |->
     CASE x = "REDIS_POOL_SIZE" -> 75
       [] x = "WORKER_POOL_SIZE" -> 50
       [] x \in {"DRAIN_TIMEOUT", "WORKER_CLAIM_IDLE_THRESHOLD", "DLQ_MONITOR_INTERVAL"} -> 30
       [] x \in {"RETRY_SCHEDULER_INTERVAL", "RETRY_BASE_DELAY"} -> 1
       [] x = "RETRY_MAX_DELAY" -> 900
       [] x = "RETRY_JITTER_FACTOR" -> 20
       [] x = "DLQ_TTL_SECONDS" -> 604800
       [] x = "HTTP_PORT" -> 8080
       [] x = "METRICS_PORT" -> 9090
       [] x \in {"EMAIL_FROM", "LOG_LEVEL"} -> 1
       [] OTHER -> 0]

\* getEnvInt, getEnvFloat, parseDuration: a variable that is not set, or cannot
\* be parsed, has its default.
Load == [x \in Variables |-> IF x \in DOMAIN env THEN env[x] ELSE Default[x]]

Percent == 0 .. 100
Port == 1 .. 65535

Validate_noPoolSize(c) ==
  /\ c["REDIS_URL"] = 1 /\ c["API_KEYS"] = 1
  /\ c["DRAIN_TIMEOUT"] > 0
  /\ c["METRICS_PORT"] \in Port /\ c["HTTP_PORT"] \in Port

\* Validate collects all violations; here only whether there is one.
Validate(c) ==
  /\ c["REDIS_URL"] = 1 /\ c["API_KEYS"] = 1
  /\ c["WORKER_POOL_SIZE"] > 0 /\ c["REDIS_POOL_SIZE"] > 0
  /\ c["RETRY_JITTER_FACTOR"] \in Percent
  /\ c["RETRY_BASE_DELAY"] > 0 /\ c["RETRY_MAX_DELAY"] >= c["RETRY_BASE_DELAY"]
  /\ c["DLQ_TTL_SECONDS"] > 0
  /\ c["DRAIN_TIMEOUT"] > 0
  /\ c["METRICS_PORT"] \in Port /\ c["HTTP_PORT"] \in Port
  /\ c["SENDGRID_API_KEY"] = 1 => c["EMAIL_FROM"] = 1
  /\ c["STUB_EMAIL_FAIL_RATE"] \in Percent
  /\ c["LOG_LEVEL"] = 1

DrainTimeout == Load["DRAIN_TIMEOUT"]

-------------------------------------------------------------------------------
(* Types and helpers *)

Servers == {"http", "metrics"}
Goroutines == Servers \cup {"supervisor", "scheduler", "monitor", "coordinator"}

\* gCtx is done.
Cancelled == signalled \/ failed
Launched == main = "wait"
Alive == exit = "running"
AllDone == \A g \in Goroutines : gor[g] = "done"

Goto(g, pc) == gor' = [gor EXCEPT ![g] = pc]

\* A panic outside processTask is recovered by nobody.
Panic == exit' = "panic" /\ UNCHANGED <<main, signalled, failed, gor, redis>>

\* A goroutine returns an error: the errgroup cancels gCtx.
Fail(g) == Goto(g, "done") /\ failed' = TRUE /\ UNCHANGED <<main, signalled, redis, exit>>

-------------------------------------------------------------------------------
(* main, up to the launch *)

\* log.Fatal and os.Exit(1): nothing is drained or closed.
Fatal == exit' = "1" /\ UNCHANGED <<main, signalled, failed, gor, redis>>

LoadConfig ==
  /\ Alive /\ main = "config"
  /\ IF Validate(Load)
     THEN main' = "notify" /\ UNCHANGED <<signalled, failed, gor, redis, exit>>
     ELSE Fatal
  /\ UNCHANGED <<env, goVars>>

\* signal.NotifyContext.
Notify ==
  /\ Alive /\ main = "notify"
  /\ main' = "tracer"
  /\ UNCHANGED <<env, signalled, failed, gor, goVars, redis, exit>>

InitTracer ==
  /\ Alive /\ main = "tracer"
  /\ \/ main' = "redis" /\ UNCHANGED <<signalled, failed, gor, redis, exit>>
     \/ Fatal
  /\ UNCHANGED <<env, goVars>>

\* PING, under a context of its own.
NewRedisClient ==
  /\ Alive /\ main = "redis"
  /\ \/ main' = "scripts" /\ redis' = "open" /\ UNCHANGED <<signalled, failed, gor, exit>>
     \/ Fatal
  /\ UNCHANGED <<env, goVars>>

\* LoadScripts runs under the context of the signal.
LoadScripts ==
  /\ Alive /\ main = "scripts"
  /\ \/ /\ ~signalled
        /\ main' = "construct"
        /\ UNCHANGED <<signalled, failed, gor, redis, exit>>
     \/ Fatal
  /\ UNCHANGED <<env, goVars>>

\* NewSupervisor makes the semaphore, a channel of PoolSize places; then the
\* goroutines are launched.
Launch ==
  /\ Alive /\ main = "construct"
  /\ IF Load["WORKER_POOL_SIZE"] < 0 THEN Panic
     ELSE /\ main' = "wait"
          /\ gor' = [g \in Goroutines |-> "start"]
          /\ UNCHANGED <<signalled, failed, redis, exit>>
  /\ UNCHANGED <<env, goVars>>

\* Before NotifyContext the signal kills the process; a second one is ignored.
Signal ==
  /\ Alive /\ ~signalled
  /\ IF main \in {"config", "notify"} THEN exit' = "killed" /\ UNCHANGED signalled
     ELSE signalled' = TRUE /\ UNCHANGED exit
  /\ UNCHANGED <<env, main, failed, gor, goVars, redis>>

Wait_ignoresError ==
  /\ Alive /\ Launched /\ AllDone
  /\ exit' = "0"
  /\ UNCHANGED <<env, main, signalled, failed, gor, goVars, redis>>

\* g.Wait returns when all goroutines have.
Wait ==
  /\ Alive /\ Launched /\ AllDone
  /\ exit' = IF failed THEN "1" ELSE "0"
  /\ UNCHANGED <<env, main, signalled, failed, gor, goVars, redis>>

-------------------------------------------------------------------------------
(* The two servers *)

\* The HTTP goroutine sets the readiness flag before it listens.
BeginServer(s) ==
  /\ Alive /\ gor[s] = "start"
  /\ ready' = (ready \/ s = "http")
  /\ Goto(s, "listen")
  /\ UNCHANGED <<env, main, signalled, failed, shut, requests, workers, deadline, clock, redis, exit>>

ListenFailure_swallowed(s) ==
  /\ Alive /\ gor[s] = "listen" /\ s \notin shut
  /\ Goto(s, "done")
  /\ UNCHANGED <<env, main, signalled, failed, goVars, redis, exit>>

\* The port cannot be bound; it is taken when both servers have the same.
ListenFailure(s) ==
  /\ Alive /\ gor[s] = "listen" /\ s \notin shut
  /\ Fail(s)
  /\ UNCHANGED <<env, goVars>>

Listen(s) ==
  /\ Alive /\ gor[s] = "listen" /\ s \notin shut
  /\ Load["HTTP_PORT"] = Load["METRICS_PORT"] => \A o \in Servers : gor[o] # "serve"
  /\ Goto(s, "serve")
  /\ UNCHANGED <<env, main, signalled, failed, goVars, redis, exit>>

ServerClosed_serving(s) ==
  /\ Alive /\ gor[s] = "serve" /\ s \in shut
  /\ Goto(s, "done")
  /\ UNCHANGED <<env, main, signalled, failed, goVars, redis, exit>>

\* ListenAndServe returns ErrServerClosed at once when Shutdown is called, or was
\* before: not an error.
ServerClosed(s) ==
  /\ Alive /\ gor[s] \in {"listen", "serve"} /\ s \in shut
  /\ Goto(s, "done")
  /\ UNCHANGED <<env, main, signalled, failed, goVars, redis, exit>>

RequestArrives(s) ==
  /\ Alive /\ gor[s] = "serve" /\ s \notin shut /\ requests[s] < MaxRequests
  /\ requests' = [requests EXCEPT ![s] = @ + 1]
  /\ UNCHANGED <<env, main, signalled, failed, gor, ready, shut, workers, deadline, clock, redis, exit>>

RequestEnds(s) ==
  /\ Alive /\ requests[s] > 0
  /\ requests' = [requests EXCEPT ![s] = @ - 1]
  /\ UNCHANGED <<env, main, signalled, failed, gor, ready, shut, workers, deadline, clock, redis, exit>>

-------------------------------------------------------------------------------
(* Supervisor, delayed scheduler and DLQ monitor *)

\* Consume fails when gCtx is done, or Redis does.  NewTicker panics for an
\* interval that is not positive.
SupervisorStart ==
  /\ Alive /\ gor["supervisor"] = "start"
  /\ \/ Fail("supervisor")
     \/ /\ ~Cancelled
        /\ IF Load["WORKER_CLAIM_IDLE_THRESHOLD"] <= 0 THEN Panic
           ELSE Goto("supervisor", "loop") /\ UNCHANGED <<main, signalled, failed, redis, exit>>
  /\ UNCHANGED <<env, goVars>>

DispatchLaunch_anyTime ==
  /\ Alive /\ gor["supervisor"] \in {"loop", "drain"}
  /\ spawned + active < MaxActive /\ slots < Load["WORKER_POOL_SIZE"]
  /\ slots' = slots + 1 /\ spawned' = spawned + 1
  /\ UNCHANGED <<env, main, signalled, failed, gor, ready, shut, requests, active, deadline, clock,
                 redis, exit>>

\* dispatch takes a slot and launches a worker, for buffered tasks also after gCtx
\* is done.
DispatchLaunch ==
  /\ Alive /\ gor["supervisor"] = "loop"
  /\ spawned + active < MaxActive /\ slots < Load["WORKER_POOL_SIZE"]
  /\ slots' = slots + 1 /\ spawned' = spawned + 1
  /\ UNCHANGED <<env, main, signalled, failed, gor, ready, shut, requests, active, deadline, clock,
                 redis, exit>>

\* A worker counts itself in when it is scheduled, be it after Run has returned.
WorkerBegins ==
  /\ Alive /\ spawned > 0
  /\ spawned' = spawned - 1 /\ active' = active + 1
  /\ UNCHANGED <<env, main, signalled, failed, gor, ready, shut, requests, slots, deadline, clock,
                 redis, exit>>

WorkerReleases_notBegun ==
  /\ Alive /\ slots > 0
  /\ slots' = slots - 1
  /\ UNCHANGED <<env, main, signalled, failed, gor, ready, shut, requests, spawned, active, deadline,
                 clock, redis, exit>>

\* A worker that has begun ends: it gives its slot back ...
WorkerReleases ==
  /\ Alive /\ slots > spawned
  /\ slots' = slots - 1
  /\ UNCHANGED <<env, main, signalled, failed, gor, ready, shut, requests, spawned, active, deadline,
                 clock, redis, exit>>

\* ... and then counts itself out: of those that have begun, slots - spawned still
\* have their slot.
WorkerLeaves ==
  /\ Alive /\ active > slots - spawned
  /\ active' = active - 1
  /\ UNCHANGED <<env, main, signalled, failed, gor, ready, shut, requests, slots, spawned, deadline,
                 clock, redis, exit>>

\* ctx.Done, or the channel closed after it: waitForWorkers.
SupervisorStop ==
  /\ Alive /\ gor["supervisor"] = "loop" /\ Cancelled
  /\ Goto("supervisor", "drain")
  /\ deadline' = [deadline EXCEPT !["supervisor"] = clock + DrainTimeout]
  /\ UNCHANGED <<env, main, signalled, failed, ready, shut, requests, workers, clock, redis, exit>>

Drained(g) == active = 0 \/ clock >= deadline[g]

SupervisorDrained ==
  /\ Alive /\ gor["supervisor"] = "drain" /\ Drained("supervisor")
  /\ Goto("supervisor", "done")
  /\ UNCHANGED <<env, main, signalled, failed, goVars, redis, exit>>

\* The delayed scheduler's NewTicker panics for an interval that is not positive;
\* the monitor replaces such an interval by its default.
LoopStart(g) ==
  /\ Alive /\ g \in {"scheduler", "monitor"} /\ gor[g] = "start"
  /\ IF g = "scheduler" /\ Load["RETRY_SCHEDULER_INTERVAL"] <= 0 THEN Panic
     ELSE Goto(g, "loop") /\ UNCHANGED <<main, signalled, failed, redis, exit>>
  /\ UNCHANGED <<env, goVars>>

\* FlushReady and scrape end with their context; their errors are logged.
LoopStop(g) ==
  /\ Alive /\ g \in {"scheduler", "monitor"} /\ gor[g] = "loop" /\ Cancelled
  /\ Goto(g, "done")
  /\ UNCHANGED <<env, main, signalled, failed, goVars, redis, exit>>

-------------------------------------------------------------------------------
(* Shutdown coordinator *)

BeginShutdown ==
  /\ Alive /\ gor["coordinator"] = "start" /\ Cancelled
  /\ ready' = FALSE
  /\ deadline' = [deadline EXCEPT !["servers"] = clock + DrainTimeout]
  /\ Goto("coordinator", "http")
  /\ UNCHANGED <<env, main, signalled, failed, shut, requests, workers, clock, redis, exit>>

\* Shutdown closes the listeners at once ...
ShutdownServer(s) ==
  /\ Alive /\ gor["coordinator"] = s /\ s \notin shut
  /\ shut' = shut \cup {s}
  /\ UNCHANGED <<env, main, signalled, failed, gor, ready, requests, workers, deadline, clock, redis, exit>>

After(s) == IF s = "http" THEN "metrics" ELSE "workers"

ServerDrained_ownTimeout(s) ==
  /\ Alive /\ gor["coordinator"] = s /\ s \in shut
  /\ requests[s] = 0 \/ clock >= deadline["servers"]
  /\ Goto("coordinator", After(s))
  /\ deadline' = [deadline EXCEPT !["servers"] = clock + DrainTimeout,
                                  !["workers"] = clock + DrainTimeout]
  /\ UNCHANGED <<env, main, signalled, failed, ready, shut, requests, workers, clock, redis, exit>>

\* ... and waits for the requests in flight until drainCtx, which both servers
\* share, is done.  Drain has a timeout of its own.
ServerDrained(s) ==
  /\ Alive /\ gor["coordinator"] = s /\ s \in shut
  /\ requests[s] = 0 \/ clock >= deadline["servers"]
  /\ Goto("coordinator", After(s))
  /\ deadline' = IF s = "metrics" THEN [deadline EXCEPT !["workers"] = clock + DrainTimeout]
                 ELSE deadline
  /\ UNCHANGED <<env, main, signalled, failed, ready, shut, requests, workers, clock, redis, exit>>

\* Drain returns, and Redis is closed.
CloseRedis ==
  /\ Alive /\ gor["coordinator"] = "workers" /\ Drained("workers")
  /\ redis' = "closed"
  /\ Goto("coordinator", "tracer")
  /\ UNCHANGED <<env, main, signalled, failed, goVars, exit>>

\* shutdownObs flushes, or gives up when drainCtx is done.
ShutdownTracer ==
  /\ Alive /\ gor["coordinator"] = "tracer"
  /\ Goto("coordinator", "done")
  /\ UNCHANGED <<env, main, signalled, failed, goVars, redis, exit>>

\* What the goroutines still wait for takes time, until a timeout elapses.
Waiting(g) ==
  \/ gor[g] = "done"
  \/ g = "supervisor" /\ gor[g] = "drain" /\ ~Drained(g)
  \/ /\ g = "coordinator"
     /\ \/ \E s \in Servers : gor[g] = s /\ s \in shut /\ requests[s] > 0
                                         /\ clock < deadline["servers"]
        \/ gor[g] = "workers" /\ ~Drained("workers")
        \/ gor[g] = "tracer" /\ clock < deadline["servers"]
  \* The metrics server runs until its turn comes.
  \/ g = "metrics" /\ gor[g] = "serve" /\ g \notin shut

Tick ==
  /\ Alive /\ Launched /\ Cancelled /\ ~AllDone
  /\ \A g \in Goroutines : Waiting(g)
  /\ clock' = clock + 1
  /\ UNCHANGED <<env, main, signalled, failed, gor, ready, shut, requests, workers, deadline, redis, exit>>

-------------------------------------------------------------------------------
(* Specification *)

Init ==
  /\ env \in Envs
  /\ main = "config" /\ signalled = FALSE /\ failed = FALSE
  /\ gor = [g \in Goroutines |-> "none"]
  /\ ready = FALSE /\ shut = {}
  /\ requests = [s \in Servers |-> 0]
  /\ slots = 0 /\ spawned = 0 /\ active = 0
  /\ deadline = [d \in {"servers", "workers", "supervisor"} |-> 0] /\ clock = 0
  /\ redis = "none"
  /\ exit = "running"

Boot == LoadConfig \/ Notify \/ InitTracer \/ NewRedisClient \/ LoadScripts \/ Launch \/ Wait
Server(s) == BeginServer(s) \/ Listen(s) \/ ListenFailure(s) \/ ServerClosed(s)
Supervisor == SupervisorStart \/ SupervisorStop \/ SupervisorDrained
Loop(g) == LoopStart(g) \/ LoopStop(g)
Coordinator ==
  \/ BeginShutdown \/ CloseRedis \/ ShutdownTracer
  \/ \E s \in Servers : ShutdownServer(s) \/ ServerDrained(s)

Workers == DispatchLaunch \/ WorkerBegins \/ WorkerReleases \/ WorkerLeaves

\* What is not up to the process.
Environment ==
  \/ Signal \/ Workers
  \/ \E s \in Servers : RequestArrives(s) \/ RequestEnds(s)

Next ==
  \/ Boot \/ Supervisor \/ Coordinator \/ Tick \/ Environment
  \/ \E s \in Servers : Server(s)
  \/ \E g \in {"scheduler", "monitor"} : Loop(g)

Spec == Init /\ [][Next]_vars

\* Every goroutine runs, and time passes.  Requests and workers may hang.
FairSpec ==
  /\ Spec
  /\ WF_vars(Boot) /\ WF_vars(Supervisor) /\ WF_vars(Coordinator) /\ WF_vars(Tick)
  /\ \A s \in Servers : WF_vars(Server(s))
  /\ \A g \in {"scheduler", "monitor"} : WF_vars(Loop(g))

-------------------------------------------------------------------------------
(* Properties *)

\* The type invariant.  Its content: no worker without a supervisor that started,
\* never more slots taken than the semaphore has places, each by a worker that
\* exists, and no request on a server that never listened.
TypeOK ==
  /\ env \in Envs
  /\ main \in {"config", "notify", "tracer", "redis", "scripts", "construct", "wait"}
  /\ signalled \in BOOLEAN /\ failed \in BOOLEAN /\ ready \in BOOLEAN
  /\ gor \in [Goroutines -> {"none", "start", "listen", "serve", "loop", "drain", "http",
                             "metrics", "workers", "tracer", "done"}]
  /\ shut \subseteq Servers
  /\ requests \in [Servers -> 0 .. MaxRequests]
  /\ slots \in Nat /\ spawned \in 0 .. slots /\ active \in Nat
  /\ slots <= spawned + active /\ spawned + active <= MaxActive
  /\ slots > 0 => slots <= Load["WORKER_POOL_SIZE"]
  /\ spawned + active > 0 => gor["supervisor"] \in {"loop", "drain", "done"}
  /\ \A s \in Servers : requests[s] > 0 => gor[s] \in {"serve", "done"}
  /\ deadline \in [{"servers", "workers", "supervisor"} -> Nat]
  /\ clock \in Nat
  /\ redis \in {"none", "open", "closed"}
  /\ exit \in {"running", "0", "1", "panic", "killed"}

\* The process is gone at most two drain timeouts after the shutdown begins, one
\* spent on both servers at once and one on the workers, however requests and
\* workers hang: every wait ends by itself and none starts over.  Whether that is
\* soon enough for who kills the process is not for the code to say (see README).
StopsInTwoDrains ==
  Launched => clock <= 2 * DrainTimeout

\* Exit code 0 means that a signal asked for it, no goroutine had failed and Redis
\* was closed; and the only other way out after the launch is an error or the
\* panic below.
CleanExit ==
  /\ exit = "0" => signalled /\ ~failed /\ AllDone /\ redis = "closed"
  /\ exit = "1" /\ Launched => failed /\ AllDone /\ redis = "closed"

\* The process never runs on with one of its goroutines gone: when a server
\* cannot listen or the consumer cannot start, the others are made to stop too.
NoPartialService ==
  Launched => \A g \in Goroutines : gor[g] = "done" => Cancelled

\* A configuration that passed Validate makes the process panic only through an
\* interval that is not positive, which Validate does not look at.
PanicOnlyByInterval ==
  exit = "panic" =>
    \/ Load["RETRY_SCHEDULER_INTERVAL"] <= 0
    \/ Load["WORKER_CLAIM_IDLE_THRESHOLD"] <= 0

\* The supervisor within the process.
PoolPhase == IF gor["supervisor"] \in {"none", "start"} THEN "off" ELSE gor["supervisor"]
Pool == INSTANCE PoolContract WITH size <- Load["WORKER_POOL_SIZE"], phase <- PoolPhase

\* The process sees the supervisor and its workers as PoolContract has them:
\* nothing is launched once the drain began, whatever the rest of the process does.
ImplementsPool == Pool!Spec

\* From whatever point of the start or of normal operation the service is told to
\* stop, and whatever hangs, the process ends.
ShutdownCompletes ==
  Cancelled ~> exit # "running"

===============================================================================
