---------------------------- MODULE Service_proofs ----------------------------
(***************************************************************************)
(* Proofs about Service for every set of environments and every bound on   *)
(* workers and requests: the process never runs on with a part of it gone, *)
(* its exit code is true, only an interval makes it panic, the shutdown    *)
(* takes at most two drain timeouts, and its workers are those of          *)
(* PoolContract.                                                           *)
(***************************************************************************)
EXTENDS Service, TLAPS

BootPcs == {"config", "notify", "tracer", "redis", "scripts", "construct"}
Pcs == {"none", "start", "listen", "serve", "loop", "drain", "http", "metrics", "workers",
        "tracer", "done"}
\* The coordinator has begun.
Stopping == {"http", "metrics", "workers", "tracer", "done"}

\* Where main and the goroutines can be.
ShapeInv ==
  /\ env \in Envs
  /\ main \in BootPcs \cup {"wait"}
  /\ gor \in [Goroutines -> Pcs]
  /\ signalled \in BOOLEAN /\ failed \in BOOLEAN
  /\ shut \subseteq Servers
  /\ main \in BootPcs => gor = [g \in Goroutines |-> "none"] /\ ~failed
  /\ \A s \in Servers : gor[s] \in {"none", "start", "listen", "serve", "done"}
  /\ gor["supervisor"] \in {"none", "start", "loop", "drain", "done"}
  /\ gor["scheduler"] \in {"none", "start", "loop", "done"}
  /\ gor["monitor"] \in {"none", "start", "loop", "done"}
  /\ gor["coordinator"] \in {"none", "start"} \cup Stopping

\* Nobody is done, and no server is shut, before the service is to stop; Redis is
\* closed by the time the coordinator comes to the tracer.
StopInv ==
  /\ \A g \in Goroutines : gor[g] = "done" => Cancelled
  /\ shut # {} => Cancelled
  /\ gor["supervisor"] = "drain" => Cancelled
  /\ gor["coordinator"] \in Stopping => Cancelled
  /\ gor["coordinator"] \in {"tracer", "done"} => redis = "closed"

\* The process ends with the configuration to blame, or when all are done.
ExitInv ==
  /\ CleanExit /\ PanicOnlyByInterval
  /\ main # "config" => Validate(Load)
  /\ exit = "1" /\ Launched => AllDone

ServiceInv == ShapeInv /\ StopInv /\ ExitInv

\* The initial state: nothing runs yet.
LEMMA InitInv == Init => ServiceInv
BY DEF Init, ServiceInv, ShapeInv, StopInv, ExitInv, BootPcs, Pcs, Stopping, Launched,
       CleanExit, PanicOnlyByInterval, Cancelled, Goroutines, Servers, AllDone

\* The steps of main before the launch.
LEMMA BootPreserves ==
  ASSUME ServiceInv,
         LoadConfig \/ Notify \/ InitTracer \/ NewRedisClient \/ LoadScripts
  PROVE  ServiceInv'
<1> USE DEF ServiceInv
<1>1. /\ UNCHANGED <<env, signalled, failed, gor, shut>>
      /\ main \in BootPcs /\ main' \in BootPcs
      /\ exit = "running" /\ exit' \in {"running", "1"}
      /\ main' # "config" => Validate(Load)
  BY DEF LoadConfig, Notify, InitTracer, NewRedisClient, LoadScripts, Fatal, goVars, Alive, BootPcs,
         ExitInv
<1>2. ShapeInv'
  BY <1>1 DEF ShapeInv
<1>3. StopInv'
  BY <1>1 DEF ShapeInv, StopInv, Cancelled, Goroutines, Servers, Stopping
<1>4. ExitInv'
  <2>1. Validate(Load)' <=> Validate(Load)
    BY <1>1 DEF Validate, Load
  <2>2. ~ Launched'
    BY <1>1 DEF BootPcs, Launched
  <2> QED BY <1>1, <2>1, <2>2 DEF ExitInv, CleanExit, PanicOnlyByInterval
<1> QED BY <1>2, <1>3, <1>4
\* Launch, and the end of main.
LEMMA LaunchPreserves ==
  ASSUME ServiceInv, Launch
  PROVE  ServiceInv'
<1> USE DEF ServiceInv
<1>1. /\ UNCHANGED <<env, signalled, failed, shut, redis>>
      /\ main = "construct" /\ ~ failed /\ exit = "running" /\ Validate(Load)
  BY DEF Launch, Panic, goVars, Alive, ExitInv, ShapeInv, BootPcs
<1>2. Load["WORKER_POOL_SIZE"] > 0 /\ Load["WORKER_POOL_SIZE"] \in Int
  <2>1. Load["WORKER_POOL_SIZE"] \in Int
    BY ServiceAssumption DEF Load, Default, ShapeInv, Variables
  <2> QED BY <1>1, <2>1 DEF Validate
<1>3. main' = "wait" /\ gor' = [g \in Goroutines |-> "start"] /\ exit' = "running"
  BY <1>1, <1>2 DEF Launch
<1>4. ShapeInv'
  BY <1>1, <1>3 DEF ShapeInv, BootPcs, Pcs, Goroutines, Servers
<1>5. StopInv'
  BY <1>1, <1>3 DEF StopInv, Cancelled, Goroutines, Servers, Stopping
<1>6. ExitInv'
  <2>1. Validate(Load)'
    BY <1>1 DEF Validate, Load
  <2> QED BY <1>3, <2>1 DEF ExitInv, CleanExit, PanicOnlyByInterval
<1> QED BY <1>4, <1>5, <1>6

\* A goroutine goes on: it is done only when the service is to stop, and the
\* coordinator closes Redis on its way to the tracer.
LEMMA GoroutinePreserves ==
  ASSUME ServiceInv, Alive, NEW g \in Goroutines, gor[g] # "none", NEW pc \in Pcs,
         gor' = [gor EXCEPT ![g] = pc],
         UNCHANGED <<env, main, signalled, exit>>, failed' \in {failed, TRUE},
         g \in Servers => pc \in {"listen", "serve", "done"},
         g = "supervisor" => pc \in {"loop", "drain", "done"} /\ (pc = "drain" => Cancelled),
         g \in {"scheduler", "monitor"} => pc \in {"loop", "done"},
         g = "coordinator" => pc \in Stopping /\ Cancelled,
         pc = "done" => Cancelled',
         shut' \subseteq Servers, shut' # {} => Cancelled,
         redis' \in {redis, "closed"},
         g = "coordinator" /\ pc \in {"tracer", "done"} => redis' = "closed"
  PROVE  ServiceInv'
<1> USE DEF ServiceInv
<1>0. main = "wait"
  BY DEF ShapeInv, BootPcs
<1>1. /\ gor \in [Goroutines -> Pcs] /\ gor'[g] = pc
      /\ \A h \in Goroutines : h # g => gor'[h] = gor[h]
      /\ Cancelled => Cancelled'
  BY DEF ShapeInv, Cancelled
<1>2. ShapeInv'
  <2>1. failed' \in BOOLEAN /\ signalled' \in BOOLEAN /\ gor' \in [Goroutines -> Pcs]
    BY DEF ShapeInv
  <2>2. main' = "wait" /\ main' \notin BootPcs
    BY <1>0 DEF BootPcs
  <2>3. \A s \in Servers : gor'[s] \in {"none", "start", "listen", "serve", "done"}
    BY <1>1 DEF ShapeInv, Goroutines
  <2>4. gor'["supervisor"] \in {"none", "start", "loop", "drain", "done"}
    BY <1>1 DEF ShapeInv, Goroutines
  <2>5. /\ gor'["scheduler"] \in {"none", "start", "loop", "done"}
        /\ gor'["monitor"] \in {"none", "start", "loop", "done"}
    BY <1>1 DEF ShapeInv, Goroutines
  <2>6. gor'["coordinator"] \in {"none", "start"} \cup Stopping
    BY <1>1 DEF ShapeInv, Goroutines
  <2> QED BY <2>1, <2>2, <2>3, <2>4, <2>5, <2>6 DEF ShapeInv
<1>3. StopInv'
  <2>1. \A h \in Goroutines : gor'[h] = "done" => Cancelled'
    BY <1>1 DEF StopInv
  <2>2. gor'["coordinator"] \in Stopping => Cancelled'
    BY <1>1 DEF StopInv, Goroutines
  <2>3. gor'["coordinator"] \in {"tracer", "done"} => redis' = "closed"
    BY <1>1 DEF StopInv, Goroutines
  <2>4. gor'["supervisor"] = "drain" => Cancelled'
    BY <1>1 DEF StopInv, Goroutines
  <2> QED BY <1>1, <2>1, <2>2, <2>3, <2>4 DEF StopInv
<1>4. ExitInv'
  <2>1. Validate(Load)' <=> Validate(Load)
    BY DEF Validate, Load
  <2> QED BY <2>1 DEF ExitInv, CleanExit, PanicOnlyByInterval, Alive
<1> QED BY <1>2, <1>3, <1>4

\* A goroutine panics, or nothing but counters, the clock and the readiness flag
\* changes.
LEMMA OtherPreserves ==
  ASSUME ServiceInv, UNCHANGED <<env, main, failed, gor, redis>>,
         shut' \subseteq Servers, shut' # {} => Cancelled,
         signalled' \in {signalled, TRUE},
         \/ exit' = exit /\ (exit = "running" \/ signalled' = signalled)
         \/ Alive /\ exit' = "killed"
         \/ /\ Alive /\ exit' = "panic"
            /\ \/ Load["RETRY_SCHEDULER_INTERVAL"] <= 0
               \/ Load["WORKER_CLAIM_IDLE_THRESHOLD"] <= 0
         \/ Wait
  PROVE  ServiceInv'
<1> USE DEF ServiceInv
<1>1. ShapeInv'
  <2>1. signalled' \in BOOLEAN
    BY DEF ShapeInv
  <2>2. /\ env' = env /\ main' = main /\ failed' = failed /\ gor' = gor
        /\ shut' \subseteq Servers
    OBVIOUS
  <2> QED BY <2>1, <2>2 DEF ShapeInv
<1>2. Cancelled => Cancelled'
  BY DEF Cancelled
<1>3. StopInv'
  BY <1>2 DEF StopInv
<1>4. /\ Load' = Load /\ (Validate(Load)' <=> Validate(Load))
      /\ (AllDone' <=> AllDone) /\ (Launched' <=> Launched)
  BY DEF Validate, Load, AllDone, Launched
<1> SUFFICES ExitInv'
  BY <1>1, <1>3
<1>5. CASE exit' = exit /\ (exit = "running" \/ signalled' = signalled)
  BY <1>4, <1>5 DEF ExitInv, CleanExit, PanicOnlyByInterval
<1>6. CASE exit' \in {"killed", "panic"}
  BY <1>4, <1>6 DEF ExitInv, CleanExit, PanicOnlyByInterval, Wait
<1>7. CASE Wait
  <2>1. gor["coordinator"] = "done" /\ AllDone /\ Launched
    BY <1>7 DEF Wait, AllDone, Goroutines
  <2>2. redis = "closed" /\ Cancelled
    BY <2>1 DEF StopInv, AllDone, Goroutines
  <2>3. signalled' = signalled /\ exit' = IF failed THEN "1" ELSE "0"
    BY <1>7 DEF Wait
  <2>4. CASE failed
    BY <1>4, <2>1, <2>2, <2>3, <2>4 DEF ExitInv, CleanExit, PanicOnlyByInterval
  <2>5. CASE ~ failed
    BY <1>4, <2>1, <2>2, <2>3, <2>5 DEF ExitInv, CleanExit, PanicOnlyByInterval, Cancelled
  <2> QED BY <2>4, <2>5
<1> QED BY <1>5, <1>6, <1>7

\* The steps of the two servers and of their requests.
LEMMA ServersPreserve ==
  ASSUME ServiceInv, NEW s \in Servers,
         \/ BeginServer(s) \/ Listen(s) \/ ListenFailure(s) \/ ServerClosed(s)
         \/ RequestArrives(s) \/ RequestEnds(s)
  PROVE  ServiceInv'
<1>0. /\ s \in Goroutines /\ shut \subseteq Servers /\ (shut # {} => Cancelled)
      /\ s \notin {"supervisor", "scheduler", "monitor", "coordinator"}
      /\ {"listen", "serve", "done"} \subseteq Pcs
  BY DEF Goroutines, Servers, ServiceInv, ShapeInv, StopInv, Pcs
<1>1. CASE BeginServer(s)
  BY <1>0, <1>1, GoroutinePreserves DEF BeginServer, Goto
<1>2. CASE Listen(s)
  BY <1>0, <1>2, GoroutinePreserves DEF Listen, Goto, goVars
<1>3. CASE ListenFailure(s)
  BY <1>0, <1>3, GoroutinePreserves DEF ListenFailure, Fail, Goto, goVars, Cancelled
<1>4. CASE ServerClosed(s)
  BY <1>0, <1>4, GoroutinePreserves DEF ServerClosed, Goto, goVars, Cancelled
<1>5. CASE RequestArrives(s) \/ RequestEnds(s)
  BY <1>0, <1>5, OtherPreserves DEF RequestArrives, RequestEnds
<1> QED BY <1>1, <1>2, <1>3, <1>4, <1>5

\* The steps of the delayed scheduler and of the DLQ monitor.
LEMMA LoopsPreserve ==
  ASSUME ServiceInv, NEW g \in {"scheduler", "monitor"}, LoopStart(g) \/ LoopStop(g)
  PROVE  ServiceInv'
<1>0. /\ g \in Goroutines /\ shut \subseteq Servers /\ (shut # {} => Cancelled)
      /\ g \notin Servers /\ g \notin {"supervisor", "coordinator"}
      /\ {"loop", "done"} \subseteq Pcs
  BY DEF Goroutines, Servers, ServiceInv, ShapeInv, StopInv, Pcs
<1>1. CASE LoopStart(g) /\ exit' = "panic"
  BY <1>0, <1>1, OtherPreserves DEF LoopStart, Panic, goVars, Alive
<1>2. CASE LoopStart(g) /\ exit' # "panic"
  BY <1>0, <1>2, GoroutinePreserves DEF LoopStart, Panic, Goto, goVars
<1>3. CASE LoopStop(g)
  BY <1>0, <1>3, GoroutinePreserves DEF LoopStop, Goto, goVars, Cancelled
<1> QED BY <1>1, <1>2, <1>3

\* The steps of the supervisor and of its workers.
LEMMA SupervisorPreserves ==
  ASSUME ServiceInv, Supervisor \/ Workers
  PROVE  ServiceInv'
<1>0. /\ "supervisor" \in Goroutines /\ shut \subseteq Servers /\ (shut # {} => Cancelled)
      /\ "supervisor" \notin Servers
      /\ {"loop", "drain", "done"} \subseteq Pcs
  BY DEF Goroutines, Servers, ServiceInv, ShapeInv, StopInv, Pcs
<1>1. CASE SupervisorStart /\ exit' = "panic"
  BY <1>0, <1>1, OtherPreserves DEF SupervisorStart, Panic, Fail, goVars, Alive
<1>2. CASE SupervisorStart /\ exit' # "panic" /\ Fail("supervisor")
  BY <1>0, <1>2, GoroutinePreserves DEF SupervisorStart, Fail, Goto, goVars, Cancelled
<1>3. CASE SupervisorStart /\ exit' # "panic" /\ ~ Fail("supervisor")
  BY <1>0, <1>3, GoroutinePreserves DEF SupervisorStart, Panic, Goto, goVars
<1>4. CASE SupervisorStop
  BY <1>0, <1>4, GoroutinePreserves DEF SupervisorStop, Goto
<1>5. CASE SupervisorDrained
  BY <1>0, <1>5, GoroutinePreserves
  DEF SupervisorDrained, Goto, goVars, Cancelled, ServiceInv, StopInv
<1>6. CASE Workers
  BY <1>0, <1>6, OtherPreserves
  DEF Workers, DispatchLaunch, WorkerBegins, WorkerReleases, WorkerLeaves
<1> QED BY <1>1, <1>2, <1>3, <1>4, <1>5, <1>6 DEF Supervisor

\* The steps of the shutdown coordinator.
LEMMA CoordinatorPreserves ==
  ASSUME ServiceInv, Coordinator
  PROVE  ServiceInv'
<1>0. /\ "coordinator" \in Goroutines /\ shut \subseteq Servers /\ (shut # {} => Cancelled)
      /\ "coordinator" \notin Servers /\ Stopping \subseteq Pcs /\ Servers \subseteq Stopping
  BY DEF Goroutines, Servers, ServiceInv, ShapeInv, StopInv, Pcs, Stopping
<1>1. CASE BeginShutdown
  BY <1>0, <1>1, GoroutinePreserves DEF BeginShutdown, Goto, Stopping
<1>2. CASE CloseRedis
  BY <1>0, <1>2, GoroutinePreserves
  DEF CloseRedis, Goto, goVars, Stopping, ServiceInv, StopInv
<1>3. CASE ShutdownTracer
  BY <1>0, <1>3, GoroutinePreserves
  DEF ShutdownTracer, Goto, goVars, Stopping, ServiceInv, StopInv, Cancelled
<1>4. ASSUME NEW s \in Servers, ShutdownServer(s) PROVE ServiceInv'
  BY <1>0, <1>4, OtherPreserves DEF ShutdownServer, ServiceInv, StopInv
<1>5. ASSUME NEW s \in Servers, ServerDrained(s) PROVE ServiceInv'
  <2>1. Cancelled /\ After(s) \in {"metrics", "workers"} /\ {"metrics", "workers"} \subseteq Stopping
    BY <1>0, <1>5 DEF ServerDrained, ServiceInv, StopInv, After, Stopping
  <2>2. /\ gor' = [gor EXCEPT !["coordinator"] = After(s)] /\ gor["coordinator"] # "none" /\ Alive
        /\ UNCHANGED <<env, main, signalled, failed, shut, redis, exit>>
    BY <1>0, <1>5 DEF ServerDrained, Goto, Stopping
  <2>3. After(s) \in Pcs /\ After(s) \notin {"tracer", "done"}
    BY <1>0, <2>1
  <2> QED BY <1>0, <2>1, <2>2, <2>3, GoroutinePreserves
<1> QED BY <1>1, <1>2, <1>3, <1>4, <1>5 DEF Coordinator

\* The invariant is inductive.
LEMMA ServiceInductive == ServiceInv /\ [Next]_vars => ServiceInv'
<1> SUFFICES ASSUME ServiceInv, [Next]_vars PROVE ServiceInv'
  OBVIOUS
<1>0. shut \subseteq Servers /\ (shut # {} => Cancelled)
  BY DEF ServiceInv, ShapeInv, StopInv
<1>1. CASE Tick
  BY <1>0, <1>1, OtherPreserves DEF Tick
<1>2. CASE Signal
  BY <1>0, <1>2, OtherPreserves DEF Signal, goVars, Alive
<1>3. CASE Wait
  BY <1>0, <1>3, OtherPreserves DEF Wait, goVars
<1>4. CASE UNCHANGED vars
  BY <1>0, <1>4, OtherPreserves DEF vars
<1> QED
  BY <1>1, <1>2, <1>3, <1>4, BootPreserves, LaunchPreserves, ServersPreserve, LoopsPreserve,
     SupervisorPreserves, CoordinatorPreserves
  DEF Next, Boot, Environment, Server, Loop

\* The process never runs on with one of its goroutines gone.
THEOREM WholeOrStopping == Spec => []NoPartialService
<1>1. ServiceInv => NoPartialService
  BY DEF ServiceInv, StopInv, NoPartialService
<1> QED BY <1>1, InitInv, ServiceInductive, PTL DEF Spec

\* The exit code is true: 0 after a signal, with everything drained and Redis
\* closed; 1 after the launch only when a goroutine failed.
THEOREM TrueExitCode == Spec => []CleanExit
<1>1. ServiceInv => CleanExit
  BY DEF ServiceInv, ExitInv
<1> QED BY <1>1, InitInv, ServiceInductive, PTL DEF Spec

\* Validate leaves no other way to panic than the two intervals.
THEOREM OnlyIntervalsPanic == Spec => []PanicOnlyByInterval
<1>1. ServiceInv => PanicOnlyByInterval
  BY DEF ServiceInv, ExitInv
<1> QED BY <1>1, InitInv, ServiceInductive, PTL DEF Spec

-------------------------------------------------------------------------------
(* StopsInTwoDrains *)

\* The clock does not run before the coordinator and the supervisor wait for
\* something, so their first deadlines are one drain timeout from the start; the
\* coordinator's second one comes at most one later.
TimeInv ==
  /\ clock \in Nat
  /\ deadline \in [{"servers", "workers", "supervisor"} -> Nat]
  /\ gor["coordinator"] \in {"none", "start"} => clock = 0
  /\ gor["supervisor"] \in {"none", "start", "loop"} => clock = 0
  /\ gor["supervisor"] = "drain" => deadline["supervisor"] = DrainTimeout
  /\ gor["coordinator"] \in Stopping => deadline["servers"] = DrainTimeout
  /\ gor["coordinator"] \in {"http", "metrics"} => clock <= DrainTimeout
  /\ gor["coordinator"] = "workers" => deadline["workers"] <= 2 * DrainTimeout
  /\ gor["coordinator"] \in {"workers", "tracer", "done"} => "metrics" \in shut
  /\ StopsInTwoDrains

\* After the launch the drain timeout is positive.
LEMMA DrainTimeoutType ==
  ASSUME ServiceInv, main # "config"
  PROVE  DrainTimeout \in Nat /\ DrainTimeout > 0
<1>1. Load["DRAIN_TIMEOUT"] \in Int
  BY ServiceAssumption DEF Load, Default, ServiceInv, ShapeInv, Variables
<1> QED BY <1>1 DEF ServiceInv, ExitInv, Validate, DrainTimeout

\* A step of anyone else.
LEMMA TimeUnchanged ==
  ASSUME ServiceInv, TimeInv, UNCHANGED <<env, clock, deadline, shut>>,
         gor'["coordinator"] = gor["coordinator"],
         \/ gor'["supervisor"] = gor["supervisor"]
         \/ gor["supervisor"] \in {"none", "start", "loop", "drain"}
            /\ gor'["supervisor"] \in {"start", "loop", "done"}
            /\ (gor'["supervisor"] \in {"start", "loop"} => gor["supervisor"] # "drain"),
         Launched' => Launched
  PROVE  TimeInv'
<1>1. DrainTimeout' = DrainTimeout
  BY DEF DrainTimeout, Load
<1> QED BY <1>1 DEF TimeInv, StopsInTwoDrains, Launched

\* Every step keeps it.
LEMMA TimeInductive == ServiceInv /\ TimeInv /\ [Next]_vars => TimeInv'
<1> SUFFICES ASSUME ServiceInv, TimeInv, [Next]_vars PROVE TimeInv'
  OBVIOUS
<1>0. /\ gor \in [Goroutines -> Pcs]
      /\ {"coordinator", "supervisor", "scheduler", "monitor"} \cup Servers \subseteq Goroutines
      /\ Servers \cap {"coordinator", "supervisor"} = {}
  BY DEF ServiceInv, ShapeInv, Goroutines, Servers
<1>1. CASE LoadConfig \/ Notify \/ InitTracer \/ NewRedisClient \/ LoadScripts
  <2>1. UNCHANGED <<env, gor, clock, deadline, shut>> /\ main' # "wait"
    BY <1>1 DEF LoadConfig, Notify, InitTracer, NewRedisClient, LoadScripts, Fatal, goVars
  <2> QED BY <2>1, TimeUnchanged DEF Launched
<1>2. CASE Launch
  <2>1. UNCHANGED <<env, clock, deadline, shut>> /\ main = "construct"
    BY <1>2 DEF Launch, goVars
  <2>2. gor = [g \in Goroutines |-> "none"] /\ clock = 0
    BY <1>0, <2>1 DEF ServiceInv, ShapeInv, BootPcs, TimeInv
  <2>3. gor' = gor \/ gor' = [g \in Goroutines |-> "start"]
    BY <1>2 DEF Launch, Panic
  <2>4. DrainTimeout' = DrainTimeout /\ DrainTimeout \in Nat
    BY <2>1, DrainTimeoutType DEF DrainTimeout, Load
  <2> QED BY <1>0, <2>1, <2>2, <2>3, <2>4 DEF TimeInv, StopsInTwoDrains, Stopping
<1>3. CASE Signal \/ Wait \/ UNCHANGED vars \/ Workers
  <2>1. UNCHANGED <<env, main, gor, clock, deadline, shut>>
    BY <1>3 DEF Signal, Wait, vars, goVars, Workers, DispatchLaunch, WorkerBegins, WorkerReleases,
                WorkerLeaves
  <2> QED BY <2>1, TimeUnchanged DEF Launched
<1>4. ASSUME NEW s \in Servers,
             Server(s) \/ RequestArrives(s) \/ RequestEnds(s)
      PROVE  TimeInv'
  <2>1. UNCHANGED <<env, main, clock, deadline, shut>>
    BY <1>4 DEF Server, BeginServer, Listen, ListenFailure, ServerClosed, RequestArrives,
                RequestEnds, goVars, Fail
  <2>2. gor' = gor \/ \E pc \in Pcs : gor' = [gor EXCEPT ![s] = pc]
    BY <1>4 DEF Server, BeginServer, Listen, ListenFailure, ServerClosed, RequestArrives,
                RequestEnds, Goto, Fail, Pcs
  <2>3. gor'["coordinator"] = gor["coordinator"] /\ gor'["supervisor"] = gor["supervisor"]
    BY <1>0, <2>2
  <2> QED BY <2>1, <2>3, TimeUnchanged DEF Launched
<1>5. ASSUME NEW g \in {"scheduler", "monitor"}, Loop(g) PROVE TimeInv'
  <2>1. UNCHANGED <<env, main, clock, deadline, shut>>
    BY <1>5 DEF Loop, LoopStart, LoopStop, goVars, Panic
  <2>2. gor' = gor \/ \E pc \in Pcs : gor' = [gor EXCEPT ![g] = pc]
    BY <1>5 DEF Loop, LoopStart, LoopStop, Panic, Goto, Pcs
  <2>3. gor'["coordinator"] = gor["coordinator"] /\ gor'["supervisor"] = gor["supervisor"]
    BY <1>0, <2>2
  <2> QED BY <2>1, <2>3, TimeUnchanged DEF Launched
<1>6. CASE SupervisorStart \/ SupervisorDrained
  <2>1. UNCHANGED <<env, main, clock, deadline, shut>>
    BY <1>6 DEF SupervisorStart, SupervisorDrained, goVars, Panic, Fail
  <2>2. /\ gor'["coordinator"] = gor["coordinator"]
        /\ gor["supervisor"] \in {"start", "drain"}
        /\ \/ gor'["supervisor"] = gor["supervisor"]
           \/ gor'["supervisor"] = "done"
           \/ gor["supervisor"] = "start" /\ gor'["supervisor"] = "loop"
    BY <1>0, <1>6 DEF SupervisorStart, SupervisorDrained, Panic, Fail, Goto
  <2> QED BY <2>1, <2>2, TimeUnchanged DEF Launched
<1>7. CASE SupervisorStop
  <2>1. /\ UNCHANGED <<env, main, clock, shut>> /\ gor["supervisor"] = "loop"
        /\ gor' = [gor EXCEPT !["supervisor"] = "drain"]
        /\ deadline' = [deadline EXCEPT !["supervisor"] = clock + DrainTimeout]
    BY <1>7 DEF SupervisorStop, Goto
  <2>2. main = "wait" /\ clock = 0
    BY <1>0, <2>1 DEF ServiceInv, ShapeInv, BootPcs, TimeInv
  <2>3. DrainTimeout' = DrainTimeout /\ DrainTimeout \in Nat
    BY <2>1, <2>2, DrainTimeoutType DEF DrainTimeout, Load
  <2> QED BY <1>0, <2>1, <2>2, <2>3 DEF TimeInv, StopsInTwoDrains, Launched
<1>8. ASSUME Coordinator PROVE TimeInv'
  <2>0. /\ UNCHANGED <<env, main, clock>>
        /\ gor["coordinator"] \notin {"none"}
    BY <1>8 DEF Coordinator, BeginShutdown, CloseRedis, ShutdownTracer, ShutdownServer,
                ServerDrained, goVars, Servers
  <2>1. main = "wait"
    BY <1>0, <2>0 DEF ServiceInv, ShapeInv, BootPcs
  <2>2. DrainTimeout' = DrainTimeout /\ DrainTimeout \in Nat
    BY <2>0, <2>1, DrainTimeoutType DEF DrainTimeout, Load
  <2>3. CASE BeginShutdown
    <3>1. /\ gor["coordinator"] = "start" /\ UNCHANGED shut
          /\ gor' = [gor EXCEPT !["coordinator"] = "http"]
          /\ deadline' = [deadline EXCEPT !["servers"] = clock + DrainTimeout]
      BY <2>3 DEF BeginShutdown, Goto
    <3>2. clock = 0
      BY <3>1 DEF TimeInv
    <3> QED BY <1>0, <2>0, <2>1, <2>2, <3>1, <3>2
            DEF TimeInv, StopsInTwoDrains, Launched, Stopping
  <2>4. ASSUME NEW s \in Servers, ShutdownServer(s) PROVE TimeInv'
    <3>1. UNCHANGED <<gor, deadline>> /\ shut \subseteq shut'
      BY <2>4 DEF ShutdownServer
    <3> QED BY <2>0, <2>1, <2>2, <3>1 DEF TimeInv, StopsInTwoDrains, Launched
  <2>5. CASE ServerDrained("http")
    <3>1. /\ gor["coordinator"] = "http" /\ UNCHANGED <<shut, deadline>>
          /\ gor' = [gor EXCEPT !["coordinator"] = "metrics"]
      BY <2>5 DEF ServerDrained, Goto, After
    <3> QED BY <1>0, <2>0, <2>1, <2>2, <3>1
            DEF TimeInv, StopsInTwoDrains, Launched, Stopping
  <2>6. CASE ServerDrained("metrics")
    <3>1. /\ gor["coordinator"] = "metrics" /\ UNCHANGED shut /\ "metrics" \in shut
          /\ gor' = [gor EXCEPT !["coordinator"] = "workers"]
          /\ deadline' = [deadline EXCEPT !["workers"] = clock + DrainTimeout]
      BY <2>6 DEF ServerDrained, Goto, After
    <3> QED BY <1>0, <2>0, <2>1, <2>2, <3>1
            DEF TimeInv, StopsInTwoDrains, Launched, Stopping
  <2>7. CASE CloseRedis \/ ShutdownTracer
    <3>1. /\ gor["coordinator"] \in {"workers", "tracer"} /\ UNCHANGED <<shut, deadline>>
          /\ \E pc \in {"tracer", "done"} : gor' = [gor EXCEPT !["coordinator"] = pc]
      BY <2>7 DEF CloseRedis, ShutdownTracer, Goto, goVars
    <3> QED BY <1>0, <2>0, <2>1, <2>2, <3>1
            DEF TimeInv, StopsInTwoDrains, Launched, Stopping
  <2> QED BY <1>8, <2>3, <2>4, <2>5, <2>6, <2>7 DEF Coordinator, Servers
<1>9. CASE Tick
  <2>1. /\ UNCHANGED <<env, main, gor, deadline, shut>> /\ clock' = clock + 1 /\ main = "wait"
        /\ ~ AllDone /\ \A g \in Goroutines : Waiting(g)
    BY <1>9 DEF Tick, Launched
  <2>2. DrainTimeout' = DrainTimeout /\ DrainTimeout \in Nat
    BY <2>1, DrainTimeoutType DEF DrainTimeout, Load
  <2>3. gor["supervisor"] \in {"drain", "done"}
    BY <1>0, <2>1 DEF Waiting
  <2>4. gor["supervisor"] = "drain" => clock < DrainTimeout
    BY <1>0, <2>1, <2>2 DEF Waiting, Drained, TimeInv
  <2>5. \/ gor["coordinator"] = "done"
        \/ gor["coordinator"] \in {"http", "metrics", "tracer"} /\ clock < DrainTimeout
        \/ gor["coordinator"] = "workers" /\ clock < 2 * DrainTimeout
    <3>1. Waiting("coordinator")
      BY <1>0, <2>1
    <3>2. CASE \E s \in Servers : gor["coordinator"] = s /\ clock < deadline["servers"]
      BY <2>2, <3>2 DEF TimeInv, Servers, Stopping
    <3>3. CASE gor["coordinator"] = "workers" /\ ~ Drained("workers")
      BY <2>2, <3>3 DEF TimeInv, Drained
    <3>4. CASE gor["coordinator"] = "tracer" /\ clock < deadline["servers"]
      BY <2>2, <3>4 DEF TimeInv, Stopping
    <3> QED BY <3>1, <3>2, <3>3, <3>4 DEF Waiting
  <2>6. CASE gor["coordinator"] = "done"
    <3>1. "metrics" \in shut
      BY <2>6 DEF TimeInv
    <3>2. PICK g \in Goroutines : gor[g] # "done"
      BY <2>1 DEF AllDone
    <3>3. g = "supervisor" /\ gor[g] = "drain"
      BY <2>1, <2>6, <3>1, <3>2 DEF Waiting
    <3> QED BY <2>1, <2>2, <2>3, <2>4, <2>6, <3>1, <3>3
            DEF TimeInv, StopsInTwoDrains, Launched
  <2>7. CASE gor["coordinator"] # "done"
    BY <2>1, <2>2, <2>3, <2>5, <2>7 DEF TimeInv, StopsInTwoDrains, Launched
  <2> QED BY <2>6, <2>7
<1> QED
  BY <1>1, <1>2, <1>3, <1>4, <1>5, <1>6, <1>7, <1>8, <1>9
  DEF Next, Boot, Environment, Supervisor

\* The shutdown takes at most two drain timeouts, whatever hangs.
THEOREM TwoDrains == Spec => []StopsInTwoDrains
<1>1. Init => TimeInv
  BY DEF Init, TimeInv, StopsInTwoDrains, Launched, Goroutines, Servers, Stopping
<1>2. TimeInv => StopsInTwoDrains
  BY DEF TimeInv
<1> QED BY <1>1, <1>2, InitInv, ServiceInductive, TimeInductive, PTL DEF Spec

-------------------------------------------------------------------------------
(* TypeOK *)

Dispatched == {"loop", "drain", "done"}
Served == {"serve", "done"}

\* Workers and requests, and what is left of the types.
WorkInv ==
  /\ ready \in BOOLEAN /\ redis \in {"none", "open", "closed"}
  /\ exit \in {"running", "0", "1", "panic", "killed"}
  /\ requests \in [Servers -> 0 .. MaxRequests]
  /\ slots \in Nat /\ spawned \in 0 .. slots /\ active \in Nat
  /\ slots <= spawned + active /\ spawned + active <= MaxActive
  /\ slots > 0 => slots <= Load["WORKER_POOL_SIZE"]
  /\ spawned + active > 0 => gor["supervisor"] \in Dispatched
  /\ \A s \in Servers : requests[s] > 0 => gor[s] \in Served

\* A step that moves goroutines only onward, and no request and no worker.
LEMMA WorkKept ==
  ASSUME WorkInv, UNCHANGED <<env, requests, workers>>,
         ready' \in BOOLEAN, redis' \in {"none", "open", "closed"},
         exit' \in {"running", "0", "1", "panic", "killed"},
         gor["supervisor"] \in Dispatched => gor'["supervisor"] \in Dispatched,
         \A s \in Servers : gor[s] \in Served => gor'[s] \in Served
  PROVE  WorkInv'
<1>1. Load' = Load /\ UNCHANGED <<requests, slots, spawned, active>>
  BY DEF Load, workers
<1> QED BY <1>1 DEF WorkInv

\* Every step keeps it.
LEMMA WorkInductive == ServiceInv /\ WorkInv /\ [Next]_vars => WorkInv'
<1> SUFFICES ASSUME ServiceInv, WorkInv, [Next]_vars PROVE WorkInv'
  OBVIOUS
<1> USE DEF goVars
<1>0. /\ gor \in [Goroutines -> Pcs]
      /\ {"coordinator", "supervisor", "scheduler", "monitor"} \cup Servers \subseteq Goroutines
      /\ Servers \cap {"coordinator", "supervisor", "scheduler", "monitor"} = {}
      /\ ready \in BOOLEAN /\ redis \in {"none", "open", "closed"}
      /\ exit \in {"running", "0", "1", "panic", "killed"}
  BY DEF ServiceInv, ShapeInv, Goroutines, Servers, WorkInv
<1>1. CASE LoadConfig \/ Notify \/ InitTracer \/ NewRedisClient \/ LoadScripts
  <2>1. /\ UNCHANGED <<env, gor, requests, workers, ready>>
        /\ exit' \in {exit, "1"} /\ redis' \in {redis, "open"}
    BY <1>1 DEF LoadConfig, Notify, InitTracer, NewRedisClient, LoadScripts, Fatal
  <2> QED BY <1>0, <2>1, WorkKept
<1>2. CASE Launch
  <2>1. /\ UNCHANGED <<env, requests, workers, ready, redis>> /\ main = "construct"
        /\ exit' \in {exit, "panic"}
    BY <1>2 DEF Launch, Panic
  <2>2. gor = [g \in Goroutines |-> "none"]
    BY <2>1 DEF ServiceInv, ShapeInv, BootPcs
  <2>3. gor["supervisor"] \notin Dispatched /\ \A s \in Servers : gor[s] \notin Served
    BY <1>0, <2>2 DEF Dispatched, Served
  <2> QED BY <1>0, <2>1, <2>3, WorkKept
<1>3. CASE Signal \/ Wait \/ UNCHANGED vars \/ Tick
  <2>1. /\ UNCHANGED <<env, gor, requests, workers, ready, redis>>
        /\ exit' \in {exit, "killed", "0", "1"}
    BY <1>3 DEF Signal, Wait, vars, Tick, workers
  <2> QED BY <1>0, <2>1, WorkKept
<1>4. ASSUME NEW s \in Servers, Server(s) PROVE WorkInv'
  <2>1. /\ UNCHANGED <<env, requests, workers, redis, exit>> /\ ready' \in BOOLEAN
        /\ \E pc \in Pcs : /\ gor' = [gor EXCEPT ![s] = pc]
                           /\ gor[s] \in Served => pc \in Served
    BY <1>0, <1>4 DEF Server, BeginServer, Listen, ListenFailure, ServerClosed, Fail, Goto, Pcs,
                      Served
  <2>2. gor'["supervisor"] = gor["supervisor"]
        /\ \A o \in Servers : gor[o] \in Served => gor'[o] \in Served
    BY <1>0, <2>1
  <2> QED BY <1>0, <2>1, <2>2, WorkKept
<1>5. ASSUME NEW s \in Servers, RequestArrives(s) \/ RequestEnds(s) PROVE WorkInv'
  <2>1. UNCHANGED <<env, gor, workers, ready, redis, exit>> /\ Load' = Load
    BY <1>5 DEF RequestArrives, RequestEnds, Load
  <2>2. PICK n \in 0 .. MaxRequests : /\ requests' = [requests EXCEPT ![s] = n]
                                      /\ n > 0 => gor[s] \in Served
    <3>1. requests[s] \in 0 .. MaxRequests /\ MaxRequests \in Nat
      BY ServiceAssumption DEF WorkInv
    <3>2. CASE RequestArrives(s)
      <4>1. PICK n \in 0 .. MaxRequests : n = requests[s] + 1
        BY <3>1, <3>2 DEF RequestArrives
      <4>2. requests' = [requests EXCEPT ![s] = n] /\ gor[s] \in Served
        BY <3>2, <4>1 DEF RequestArrives, Served
      <4> QED BY <4>2
    <3>3. CASE RequestEnds(s)
      <4>1. PICK n \in 0 .. MaxRequests : n = requests[s] - 1
        BY <3>1, <3>3 DEF RequestEnds
      <4>2. requests' = [requests EXCEPT ![s] = n] /\ gor[s] \in Served
        BY <3>3, <4>1 DEF RequestEnds, WorkInv
      <4> QED BY <4>2
    <3> QED BY <1>5, <3>2, <3>3
  <2>3. UNCHANGED <<slots, spawned, active>>
    BY <2>1 DEF workers
  <2> QED BY <2>1, <2>2, <2>3 DEF WorkInv
<1>6. CASE Workers
  <2>1. UNCHANGED <<env, gor, requests, ready, redis, exit>> /\ Load' = Load
    BY <1>6 DEF Workers, DispatchLaunch, WorkerBegins, WorkerReleases, WorkerLeaves, Load
  <2>2. Load["WORKER_POOL_SIZE"] \in Int /\ MaxActive \in Nat
    BY ServiceAssumption DEF Load, Default, ServiceInv, ShapeInv, Variables
  <2>3. /\ slots \in Nat /\ spawned \in 0 .. slots /\ active \in Nat
        /\ slots <= spawned + active /\ spawned + active <= MaxActive
        /\ slots > 0 => slots <= Load["WORKER_POOL_SIZE"]
        /\ spawned + active > 0 => gor["supervisor"] \in Dispatched
    BY DEF WorkInv
  <2>4. /\ slots' \in Nat /\ spawned' \in 0 .. slots' /\ active' \in Nat
        /\ slots' <= spawned' + active' /\ spawned' + active' <= MaxActive
        /\ slots' > 0 => slots' <= Load["WORKER_POOL_SIZE"]
        /\ spawned' + active' > 0 => gor["supervisor"] \in Dispatched
    <3>1. CASE DispatchLaunch
      BY <2>2, <2>3, <3>1 DEF DispatchLaunch, Dispatched
    <3>2. CASE WorkerBegins
      BY <2>2, <2>3, <3>2 DEF WorkerBegins
    <3>3. CASE WorkerReleases
      BY <2>2, <2>3, <3>3 DEF WorkerReleases
    <3>4. CASE WorkerLeaves
      BY <2>2, <2>3, <3>4 DEF WorkerLeaves
    <3> QED BY <1>6, <3>1, <3>2, <3>3, <3>4 DEF Workers
  <2> QED BY <2>1, <2>4 DEF WorkInv
<1>7. CASE Supervisor
  <2>1. /\ UNCHANGED <<env, requests, workers, ready, redis>> /\ exit' \in {exit, "panic"}
        /\ gor' = gor \/ \E pc \in Dispatched : gor' = [gor EXCEPT !["supervisor"] = pc]
    BY <1>7 DEF Supervisor, SupervisorStart, SupervisorStop, SupervisorDrained, Fail, Panic, Goto,
                Dispatched
  <2>2. /\ gor["supervisor"] \in Dispatched => gor'["supervisor"] \in Dispatched
        /\ \A o \in Servers : gor'[o] = gor[o]
    BY <1>0, <2>1
  <2> QED BY <1>0, <2>1, <2>2, WorkKept
<1>8. ASSUME NEW g \in {"scheduler", "monitor"}, Loop(g) PROVE WorkInv'
  <2>1. /\ UNCHANGED <<env, requests, workers, ready, redis>> /\ exit' \in {exit, "panic"}
        /\ gor' = gor \/ \E pc \in Pcs : gor' = [gor EXCEPT ![g] = pc]
    BY <1>8 DEF Loop, LoopStart, LoopStop, Panic, Goto, Pcs
  <2>2. gor'["supervisor"] = gor["supervisor"] /\ \A o \in Servers : gor'[o] = gor[o]
    BY <1>0, <2>1
  <2> QED BY <1>0, <2>1, <2>2, WorkKept
<1>9. CASE Coordinator
  <2>1. /\ UNCHANGED <<env, requests, workers, exit>> /\ ready' \in BOOLEAN
        /\ redis' \in {redis, "closed"}
        /\ gor' = gor \/ \E pc : gor' = [gor EXCEPT !["coordinator"] = pc]
    BY <1>0, <1>9 DEF Coordinator, BeginShutdown, CloseRedis, ShutdownTracer, ShutdownServer,
                      ServerDrained, Goto
  <2>2. gor'["supervisor"] = gor["supervisor"] /\ \A o \in Servers : gor'[o] = gor[o]
    BY <1>0, <2>1
  <2> QED BY <1>0, <2>1, <2>2, WorkKept
<1> QED
  BY <1>1, <1>2, <1>3, <1>4, <1>5, <1>6, <1>7, <1>8, <1>9 DEF Next, Boot, Environment

\* Every behaviour of a process keeps its types: there are workers only once a
\* supervisor has started, never more slots taken than the semaphore has places, and
\* requests only on a server that listened.
THEOREM ServiceTypeCorrect == Spec => []TypeOK
<1>1. Init => TimeInv /\ WorkInv
  <2>1. Init => TimeInv
    BY DEF Init, TimeInv, StopsInTwoDrains, Launched, Goroutines, Servers, Stopping
  <2>2. Init => WorkInv
    <3>1. 0 \in 0 .. MaxRequests /\ MaxActive \in Nat
      BY ServiceAssumption
    <3> SUFFICES ASSUME Init PROVE WorkInv
      OBVIOUS
    <3>2. requests \in [Servers -> 0 .. MaxRequests] /\ \A s \in Servers : ~(requests[s] > 0)
      BY <3>1 DEF Init
    <3>3. slots = 0 /\ spawned = 0 /\ active = 0
      BY DEF Init
    <3>4. /\ ready \in BOOLEAN /\ redis \in {"none", "open", "closed"}
          /\ exit \in {"running", "0", "1", "panic", "killed"}
      BY DEF Init
    <3> QED BY <3>1, <3>2, <3>3, <3>4 DEF WorkInv
  <2> QED BY <2>1, <2>2
<1>2. ServiceInv /\ TimeInv /\ WorkInv => TypeOK
  BY DEF ServiceInv, ShapeInv, TimeInv, WorkInv, TypeOK, BootPcs, Pcs, Dispatched, Served
<1> QED BY <1>1, <1>2, InitInv, ServiceInductive, TimeInductive, WorkInductive, PTL DEF Spec

-------------------------------------------------------------------------------
(* ImplementsPool *)

\* What no step of the supervisor and no worker does is invisible to the contract.
LEMMA PoolUnseen ==
  ASSUME UNCHANGED <<env, slots, spawned, active>>, PoolPhase' = PoolPhase
  PROVE  UNCHANGED Pool!vars
BY DEF Pool!vars, Load

\* A step of another goroutine leaves the supervisor where it is.
LEMMA PhaseKept ==
  ASSUME ServiceInv, NEW g \in Goroutines, g # "supervisor",
         gor' = gor \/ \E pc : gor' = [gor EXCEPT ![g] = pc]
  PROVE  PoolPhase' = PoolPhase
<1>1. gor'["supervisor"] = gor["supervisor"]
  BY DEF ServiceInv, ShapeInv, Goroutines
<1> QED BY <1>1 DEF PoolPhase

\* The supervisor starts, fails to start, stops and returns.
LEMMA SupervisorRefines ==
  ASSUME ServiceInv, Supervisor
  PROVE  [Pool!Next]_(Pool!vars)
<1>0. /\ UNCHANGED <<env, slots, spawned, active>> /\ Load' = Load
      /\ gor \in [Goroutines -> Pcs] /\ "supervisor" \in Goroutines
  BY DEF Supervisor, SupervisorStart, SupervisorStop, SupervisorDrained, Panic, Fail, Goto, goVars,
         workers, Load, ServiceInv, ShapeInv, Goroutines
<1>1. CASE gor' = gor
  BY <1>0, <1>1, PoolUnseen DEF PoolPhase
<1>2. CASE gor' # gor
  <2>1. \/ gor["supervisor"] = "start" /\ gor'["supervisor"] \in {"loop", "done"}
        \/ gor["supervisor"] = "loop" /\ gor'["supervisor"] = "drain"
        \/ gor["supervisor"] = "drain" /\ gor'["supervisor"] = "done"
    BY <1>0, <1>2 DEF Supervisor, SupervisorStart, SupervisorStop, SupervisorDrained, Panic, Fail, Goto
  <2>2. <<PoolPhase, PoolPhase'>> \in
          {<<"off", "loop">>, <<"off", "done">>, <<"loop", "drain">>, <<"drain", "done">>}
    BY <2>1 DEF PoolPhase
  <2> QED BY <1>0, <2>2 DEF Pool!Next, Pool!Advance
<1> QED BY <1>1, <1>2

\* Every step of the process is a step of the contract or is invisible to it.
LEMMA ServicePoolStep == ServiceInv /\ [Next]_vars => [Pool!Next]_(Pool!vars)
<1> SUFFICES ASSUME ServiceInv, [Next]_vars PROVE [Pool!Next]_(Pool!vars)
  OBVIOUS
<1> USE DEF goVars, workers
<1>0. Servers \cup {"scheduler", "monitor", "coordinator"} \subseteq Goroutines \ {"supervisor"}
  BY DEF Goroutines, Servers
<1>1. CASE LoadConfig \/ Notify \/ InitTracer \/ NewRedisClient \/ LoadScripts \/ Wait \/ Signal
           \/ Tick \/ UNCHANGED vars
  <2>1. UNCHANGED <<env, gor, slots, spawned, active>>
    BY <1>1 DEF LoadConfig, Notify, InitTracer, NewRedisClient, LoadScripts, Fatal, Wait, Signal,
                Tick, vars
  <2> QED BY <2>1, PoolUnseen DEF PoolPhase
<1>2. CASE Launch
  <2>1. UNCHANGED <<env, slots, spawned, active>> /\ main = "construct"
        /\ gor' \in {gor, [g \in Goroutines |-> "start"]}
    BY <1>2 DEF Launch, Panic
  <2>2. gor = [g \in Goroutines |-> "none"]
    BY <2>1 DEF ServiceInv, ShapeInv, BootPcs
  <2>3. PoolPhase = "off" /\ PoolPhase' = "off"
    BY <2>1, <2>2 DEF PoolPhase, Goroutines
  <2> QED BY <2>1, <2>3, PoolUnseen
<1>3. ASSUME NEW s \in Servers, Server(s) \/ RequestArrives(s) \/ RequestEnds(s)
      PROVE  [Pool!Next]_(Pool!vars)
  <2>1. /\ UNCHANGED <<env, slots, spawned, active>>
        /\ gor' = gor \/ \E pc : gor' = [gor EXCEPT ![s] = pc]
    BY <1>3 DEF Server, BeginServer, Listen, ListenFailure, ServerClosed, RequestArrives,
                RequestEnds, Fail, Goto
  <2> QED BY <1>0, <2>1, PhaseKept, PoolUnseen
<1>4. ASSUME NEW g \in {"scheduler", "monitor"}, Loop(g) PROVE [Pool!Next]_(Pool!vars)
  <2>1. /\ UNCHANGED <<env, slots, spawned, active>>
        /\ gor' = gor \/ \E pc : gor' = [gor EXCEPT ![g] = pc]
    BY <1>4 DEF Loop, LoopStart, LoopStop, Panic, Goto
  <2> QED BY <1>0, <2>1, PhaseKept, PoolUnseen
<1>5. CASE Coordinator
  <2>1. /\ UNCHANGED <<env, slots, spawned, active>>
        /\ gor' = gor \/ \E pc : gor' = [gor EXCEPT !["coordinator"] = pc]
    BY <1>5 DEF Coordinator, BeginShutdown, CloseRedis, ShutdownTracer, ShutdownServer,
                ServerDrained, Goto
  <2> QED BY <1>0, <2>1, PhaseKept, PoolUnseen
<1>6. CASE Supervisor
  BY <1>6, SupervisorRefines
<1>7. CASE Workers
  <2>1. UNCHANGED <<env, gor>> /\ Load' = Load /\ PoolPhase' = PoolPhase
    BY <1>7 DEF Workers, DispatchLaunch, WorkerBegins, WorkerReleases, WorkerLeaves, Load, PoolPhase
  <2>2. CASE DispatchLaunch
    BY <2>1, <2>2 DEF DispatchLaunch, Pool!Next, Pool!Launch, PoolPhase
  <2>3. CASE WorkerBegins
    BY <2>1, <2>3 DEF WorkerBegins, Pool!Next, Pool!Begin
  <2>4. CASE WorkerReleases
    BY <2>1, <2>4 DEF WorkerReleases, Pool!Next, Pool!Release
  <2>5. CASE WorkerLeaves
    BY <2>1, <2>5 DEF WorkerLeaves, Pool!Next, Pool!Leave
  <2> QED BY <1>7, <2>2, <2>3, <2>4, <2>5 DEF Workers
<1> QED
  BY <1>1, <1>2, <1>3, <1>4, <1>5, <1>6, <1>7 DEF Next, Boot, Environment

\* The process has in it the supervisor of PoolContract, which WorkerPool is shown
\* to implement: what Service says of workers and drains, it says of that pool.
THEOREM ProcessHasPool == Spec => ImplementsPool
<1>1. Init => Pool!Init
  BY DEF Init, Pool!Init, PoolPhase, Goroutines, Servers
<1> QED BY <1>1, InitInv, ServiceInductive, ServicePoolStep, PTL
        DEF Spec, ImplementsPool, Pool!Spec

===============================================================================
