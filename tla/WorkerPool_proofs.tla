--------------------------- MODULE WorkerPool_proofs ---------------------------
(***************************************************************************)
(* Proofs that the semaphore bounds the work of a pod, for any pool size,  *)
(* that no entry is dropped, and that the pod implements PoolContract.     *)
(***************************************************************************)
EXTENDS WorkerPool, FiniteSetTheorems, TLAPS

\* The two counters agree with the goroutines they count.
Counters ==
  /\ sem = Cardinality(Slots)
  /\ active = Cardinality(Counted)

\* A goroutine that exists has a task.
HasTask == \A g \in Goroutines : gor[g].st # "none" => gor[g].task \in Tasks

\* The inductive invariant: the counters are exact, which TypeOK needs to know
\* that a release never takes them below zero.
PoolInv == TypeOK /\ Counters /\ HasTask

\* The sets of goroutines are finite.
LEMMA FiniteCounts ==
  /\ IsFiniteSet(Slots) /\ IsFiniteSet(Counted)
  /\ Cardinality(Slots) \in Nat /\ Cardinality(Counted) \in Nat
<1>1. IsFiniteSet(Slots) /\ IsFiniteSet(Counted)
  BY PoolAssumption, FS_Subset DEF Slots, Counted
<1> QED BY <1>1, FS_CardinalityType

\* The same sets in the next state.
LEMMA FiniteCountsNext ==
  IsFiniteSet(Slots') /\ IsFiniteSet(Counted')
<1> QED BY PoolAssumption, FS_Subset DEF Slots, Counted

\* dispatch takes a slot for the goroutine it starts.
LEMMA LaunchPreserves ==
  ASSUME PoolInv, NEW t \in Tasks, NEW g \in Goroutines, DispatchLaunch(t, g)
  PROVE  PoolInv'
<1>1. TypeOK'
  BY PoolAssumption DEF PoolInv, TypeOK, DispatchLaunch, AfterDispatch, GorStates
<1>2. Slots' = Slots \cup {g} /\ g \notin Slots
  BY DEF PoolInv, TypeOK, DispatchLaunch, Slots
<1>3. Counted' = Counted
  BY DEF PoolInv, TypeOK, DispatchLaunch, Counted
<1>4. Cardinality(Slots') = Cardinality(Slots) + 1
  BY <1>2, FiniteCounts, FS_AddElement
<1>5. Cardinality(Counted') = Cardinality(Counted)
  BY <1>3
<1>6. HasTask'
  BY DEF PoolInv, TypeOK, HasTask, DispatchLaunch, GorStates
<1> QED BY <1>1, <1>4, <1>5, <1>6 DEF PoolInv, Counters, DispatchLaunch

\* A goroutine counts itself in.
LEMMA BeginPreserves ==
  ASSUME PoolInv, NEW g \in Goroutines, Begin(g)
  PROVE  PoolInv'
<1>1. gor' \in [Goroutines -> [st : GorStates, task : Tasks \cup {NoTask}]]
  BY DEF PoolInv, TypeOK, Begin, GorStates
<1>2. Slots' = Slots
  BY DEF PoolInv, TypeOK, Begin, Slots
<1>3. Counted' = Counted \cup {g} /\ g \notin Counted
  BY DEF PoolInv, TypeOK, Begin, Counted
<1>4. Cardinality(Slots') = Cardinality(Slots)
  BY <1>2
<1>5. Cardinality(Counted') = Cardinality(Counted) + 1
  BY <1>3, FiniteCounts, FS_AddElement
<1>6. started' \subseteq Tasks
  BY DEF PoolInv, HasTask, TypeOK, Begin
<1>7. HasTask'
  BY DEF PoolInv, TypeOK, HasTask, Begin, GorStates
<1> QED BY <1>1, <1>4, <1>5, <1>6, <1>7 DEF PoolInv, Counters, TypeOK, Begin

\* The body of processTask ends.
LEMMA WorkPreserves ==
  ASSUME PoolInv, NEW g \in Goroutines, Work(g)
  PROVE  PoolInv'
<1>1. gor' \in [Goroutines -> [st : GorStates, task : Tasks \cup {NoTask}]]
  BY DEF PoolInv, TypeOK, Work, GorStates
<1>2. Slots' = Slots /\ Counted' = Counted
  BY DEF PoolInv, TypeOK, Work, Slots, Counted
<1>3. Cardinality(Slots') = Cardinality(Slots) /\ Cardinality(Counted') = Cardinality(Counted)
  BY <1>2
<1>4. HasTask'
  BY DEF PoolInv, TypeOK, HasTask, Work, GorStates
<1> QED BY <1>1, <1>3, <1>4 DEF PoolInv, Counters, TypeOK, Work

\* The deferred function frees the slot.
LEMMA ReleasePreserves ==
  ASSUME PoolInv, NEW g \in Goroutines, Release(g)
  PROVE  PoolInv'
<1>1. gor' \in [Goroutines -> [st : GorStates, task : Tasks \cup {NoTask}]]
  BY DEF PoolInv, TypeOK, Release, GorStates
<1>2. Slots' = Slots \ {g} /\ g \in Slots
  BY DEF PoolInv, TypeOK, Release, Slots
<1>3. Counted' = Counted
  BY DEF PoolInv, TypeOK, Release, Counted
<1>4. Cardinality(Slots') = Cardinality(Slots) - 1 /\ Cardinality(Slots') \in Nat
  BY <1>2, FiniteCounts, FiniteCountsNext, FS_RemoveElement, FS_CardinalityType
<1>5. Cardinality(Counted') = Cardinality(Counted)
  BY <1>3
<1>6. sem' = sem - 1 /\ sem' \in 0 .. PoolSize
  BY <1>4, PoolAssumption DEF PoolInv, Counters, TypeOK, Release
<1>7. HasTask'
  BY DEF PoolInv, TypeOK, HasTask, Release, GorStates
<1> QED BY <1>1, <1>4, <1>5, <1>6, <1>7 DEF PoolInv, Counters, TypeOK, Release

\* The deferred function counts the goroutine out.
LEMMA LeavePreserves ==
  ASSUME PoolInv, NEW g \in Goroutines, Leave(g)
  PROVE  PoolInv'
<1>1. gor' \in [Goroutines -> [st : GorStates, task : Tasks \cup {NoTask}]]
  BY DEF PoolInv, TypeOK, Leave, GorStates
<1>2. Slots' = Slots
  BY DEF PoolInv, TypeOK, Leave, Slots
<1>3. Counted' = Counted \ {g} /\ g \in Counted
  BY DEF PoolInv, TypeOK, Leave, Counted
<1>4. Cardinality(Slots') = Cardinality(Slots)
  BY <1>2
<1>5. Cardinality(Counted') = Cardinality(Counted) - 1 /\ Cardinality(Counted') \in Nat
  BY <1>3, FiniteCounts, FiniteCountsNext, FS_RemoveElement, FS_CardinalityType
<1>6. active' = active - 1 /\ active' \in Nat
  BY <1>5 DEF PoolInv, Counters, TypeOK, Leave
<1>7. HasTask'
  BY DEF PoolInv, TypeOK, HasTask, Leave, GorStates
<1> QED BY <1>1, <1>4, <1>5, <1>6, <1>7 DEF PoolInv, Counters, TypeOK, Leave

\* Everything else leaves the goroutines and their counters alone.
LEMMA OthersPreserve ==
  ASSUME PoolInv, UNCHANGED <<sem, active, gor>>, TypeOK'
  PROVE  PoolInv'
<1>1. Slots' = Slots /\ Counted' = Counted
  BY DEF Slots, Counted
<1>2. Cardinality(Slots') = Cardinality(Slots) /\ Cardinality(Counted') = Cardinality(Counted)
  BY <1>1
<1> QED BY <1>2 DEF PoolInv, Counters, HasTask

\* The steps of pollLoop keep the types.
LEMMA PollTypes ==
  ASSUME TypeOK, Poll
  PROVE  TypeOK' /\ UNCHANGED <<sem, active, gor>>
<1>1. CASE PollCall
  BY <1>1 DEF TypeOK, PollCall
<1>2. CASE PollNothing
  BY <1>2 DEF TypeOK, PollNothing
<1>3. CASE PollExit
  BY <1>3 DEF TypeOK, PollExit
<1>4. ASSUME NEW entries \in SUBSET unread, PollRead(entries)
      PROVE  TypeOK' /\ UNCHANGED <<sem, active, gor>>
  BY <1>4 DEF TypeOK, PollRead
<1>5. ASSUME NEW t \in poll.hand, PollSend(t)
      PROVE  TypeOK' /\ UNCHANGED <<sem, active, gor>>
  <2>1. t \in Tasks
    BY <1>5 DEF TypeOK
  <2>2. ch' \in Seq(Tasks) /\ Len(ch') = Len(ch) + 1 /\ Len(ch) \in Nat
    BY <1>5, <2>1 DEF TypeOK, PollSend
  <2>3. Len(ch') <= PoolSize
    BY <1>5, <2>2, PoolAssumption DEF PollSend
  <2> QED BY <1>5, <2>2, <2>3 DEF TypeOK, PollSend
<1> QED BY <1>1, <1>2, <1>3, <1>4, <1>5 DEF Poll

\* So do those of Run, apart from the launch of a goroutine.
LEMMA RunTypes ==
  ASSUME TypeOK,
         \/ RunReceive \/ (\E entries \in SUBSET pel : RunClaim(entries))
         \/ RunStop \/ RunReturn \/ (\E t \in run.todo : DispatchNack(t))
  PROVE  TypeOK' /\ UNCHANGED <<sem, active, gor>>
<1>1. CASE RunReceive
  <2>1. ch \in Seq(Tasks) /\ ch # << >>
    BY <1>1 DEF TypeOK, RunReceive
  <2>2. Head(ch) \in Tasks /\ Tail(ch) \in Seq(Tasks) /\ Len(Tail(ch)) = Len(ch) - 1
        /\ Len(ch) \in Nat
    BY <2>1
  <2>3. ch' \in Seq(Tasks) /\ Len(ch') <= PoolSize
    BY <1>1, <2>2, PoolAssumption DEF TypeOK, RunReceive
  <2> QED BY <1>1, <2>2, <2>3 DEF TypeOK, RunReceive
<1>2. ASSUME NEW entries \in SUBSET pel, RunClaim(entries)
      PROVE  TypeOK' /\ UNCHANGED <<sem, active, gor>>
  BY <1>2 DEF TypeOK, RunClaim
<1>3. CASE RunStop
  BY <1>3 DEF TypeOK, RunStop
<1>4. CASE RunReturn
  BY <1>4 DEF TypeOK, RunReturn
<1>5. ASSUME NEW t \in run.todo, DispatchNack(t)
      PROVE  TypeOK' /\ UNCHANGED <<sem, active, gor>>
  BY <1>5 DEF TypeOK, DispatchNack, AfterDispatch
<1> QED BY <1>1, <1>2, <1>3, <1>4, <1>5

\* And those of main.
LEMMA MainTypes ==
  ASSUME TypeOK, Cancel \/ Coordinator
  PROVE  TypeOK' /\ UNCHANGED <<sem, active, gor>>
BY DEF TypeOK, Cancel, Coordinator, CoordStart, CoordDrained, CoordClose

\* The invariant is inductive.
LEMMA PoolInductive == PoolInv /\ [Next]_vars => PoolInv'
<1> SUFFICES ASSUME PoolInv, [Next]_vars PROVE PoolInv'
  OBVIOUS
<1>1. TypeOK
  BY DEF PoolInv
<1>2. CASE Poll
  BY <1>1, <1>2, PollTypes, OthersPreserve
<1>3. CASE Dispatch
  <2>1. run.todo \subseteq Tasks
    BY <1>1 DEF TypeOK
  <2>2. CASE \E t \in run.todo : DispatchNack(t)
    BY <1>1, <2>2, RunTypes, OthersPreserve
  <2>3. CASE \E t \in run.todo, g \in Goroutines : DispatchLaunch(t, g)
    BY <2>1, <2>3, LaunchPreserves
  <2> QED BY <1>3, <2>2, <2>3 DEF Dispatch
<1>4. CASE RunReceive \/ (\E entries \in SUBSET pel : RunClaim(entries)) \/ RunStop \/ RunReturn
  BY <1>1, <1>4, RunTypes, OthersPreserve
<1>5. CASE \E g \in Goroutines : Worker(g)
  BY <1>5, BeginPreserves, WorkPreserves, ReleasePreserves, LeavePreserves DEF Worker
<1>6. CASE Cancel \/ Coordinator
  BY <1>1, <1>6, MainTypes, OthersPreserve
<1>7. CASE UNCHANGED vars
  <2>1. TypeOK' /\ UNCHANGED <<sem, active, gor>>
    BY <1>1, <1>7 DEF vars, TypeOK
  <2> QED BY <2>1, OthersPreserve
<1> QED BY <1>2, <1>3, <1>4, <1>5, <1>6, <1>7 DEF Next

\* The initial state: no goroutine, both counters zero.
LEMMA PoolInit == Init => PoolInv
<1> SUFFICES ASSUME Init PROVE PoolInv
  OBVIOUS
<1>1. TypeOK
  <2>1. ch \in Seq(Tasks) /\ Len(ch) = 0
    BY DEF Init
  <2>2. sem \in 0 .. PoolSize /\ Len(ch) <= PoolSize
    BY <2>1, PoolAssumption DEF Init
  <2>3. gor \in [Goroutines -> [st : GorStates, task : Tasks \cup {NoTask}]]
    BY DEF Init, GorStates
  <2> QED BY <2>1, <2>2, <2>3 DEF Init, TypeOK
<1>2. Slots = {} /\ Counted = {}
  BY DEF Init, Slots, Counted
<1>3. HasTask
  BY DEF Init, HasTask
<1> QED BY <1>1, <1>2, <1>3, FS_EmptySet DEF Init, PoolInv, Counters

\* Every behaviour of a pod keeps its types: the semaphore and the channel stay
\* within PoolSize and no counter becomes negative.
THEOREM PoolTypeCorrect == Spec => []TypeOK
<1>1. PoolInv => TypeOK
  BY DEF PoolInv
<1> QED BY <1>1, PoolInit, PoolInductive, PTL DEF Spec

\* At most PoolSize tasks are processed at once and both counters are exact,
\* for every PoolSize and every number of tasks, before and during shutdown.
THEOREM SemaphoreBounds == Spec => []BoundedConcurrency
<1>1. PoolInv => BoundedConcurrency
  <2> SUFFICES ASSUME PoolInv PROVE BoundedConcurrency
    OBVIOUS
  <2>1. Working \subseteq Slots
    BY DEF Working, Slots
  <2>2. Cardinality(Working) <= Cardinality(Slots) /\ Cardinality(Working) \in Nat
    BY <2>1, FiniteCounts, FS_Subset, FS_CardinalityType
  <2>3. Cardinality(Slots) <= PoolSize /\ Cardinality(Slots) \in Nat
    BY FiniteCounts, PoolAssumption DEF PoolInv, Counters, TypeOK
  <2> QED BY <2>2, <2>3, PoolAssumption DEF PoolInv, Counters, BoundedConcurrency
<1> QED BY <1>1, PoolInit, PoolInductive, PTL DEF Spec

\* A goroutine that may acknowledge its entry has begun to process it.
Begun == \A g \in Goroutines : gor[g].st = "working" => gor[g].task \in started

\* The step that takes an entry out of the PEL is the only one that could drop it.
LEMMA DropInductive ==
  TypeOK /\ NothingDropped /\ Begun /\ [Next]_vars => NothingDropped' /\ Begun'
<1> SUFFICES ASSUME TypeOK, NothingDropped, Begun, [Next]_vars PROVE NothingDropped' /\ Begun'
  OBVIOUS
<1>0. gor \in [Goroutines -> [st : GorStates, task : Tasks \cup {NoTask}]]
  BY DEF TypeOK
<1>1. CASE UNCHANGED <<unread, pel, started, gor>>
  BY <1>1 DEF NothingDropped, Begun
<1>2. ASSUME NEW entries \in SUBSET unread, PollRead(entries) PROVE NothingDropped' /\ Begun'
  BY <1>2 DEF PollRead, NothingDropped, Begun
<1>3. ASSUME NEW t, NEW g \in Goroutines, DispatchLaunch(t, g) PROVE NothingDropped' /\ Begun'
  BY <1>0, <1>3 DEF DispatchLaunch, NothingDropped, Begun
<1>4. ASSUME NEW g \in Goroutines, Begin(g) PROVE NothingDropped' /\ Begun'
  BY <1>0, <1>4 DEF Begin, NothingDropped, Begun
<1>5. ASSUME NEW g \in Goroutines, Work(g) PROVE NothingDropped' /\ Begun'
  <2>1. gor[g].task \in started /\ pel \subseteq pel' \cup {gor[g].task}
        /\ UNCHANGED <<unread, started>>
    BY <1>5 DEF Work, Begun
  <2>2. NothingDropped'
    BY <2>1 DEF NothingDropped
  <2>3. Begun'
    BY <1>0, <1>5, <2>1 DEF Work, Begun
  <2> QED BY <2>2, <2>3
<1>6. ASSUME NEW g \in Goroutines, Release(g) \/ Leave(g) PROVE NothingDropped' /\ Begun'
  <2>1. UNCHANGED <<unread, pel, started>>
    BY <1>6 DEF Release, Leave
  <2>2. Begun'
    BY <1>0, <1>6, <2>1 DEF Release, Leave, Begun
  <2> QED BY <2>1, <2>2 DEF NothingDropped
<1>7. CASE PollCall \/ PollNothing \/ PollExit \/ \E t \in poll.hand : PollSend(t)
  BY <1>1, <1>7 DEF PollCall, PollNothing, PollExit, PollSend
<1>8. CASE \/ RunReceive \/ (\E entries \in SUBSET pel : RunClaim(entries)) \/ RunStop \/ RunReturn
           \/ \E t \in run.todo : DispatchNack(t)
  BY <1>1, <1>8 DEF RunReceive, RunClaim, RunStop, RunReturn, DispatchNack
<1>9. CASE Cancel \/ Coordinator
  BY <1>1, <1>9 DEF Cancel, Coordinator, CoordStart, CoordDrained, CoordClose
<1>10. CASE UNCHANGED vars
  BY <1>1, <1>10 DEF vars
<1> QED BY <1>2, <1>3, <1>4, <1>5, <1>6, <1>7, <1>8, <1>9, <1>10
        DEF Next, Poll, Dispatch, Worker

\* An entry that was delivered stays pending until a worker has begun with it,
\* whatever the shutdown takes out of pollLoop, the channel and dispatch.
THEOREM NothingLeftBehind == Spec => []NothingDropped
<1>1. Init => NothingDropped /\ Begun
  BY DEF Init, NothingDropped, Begun
<1> QED BY <1>1, PoolTypeCorrect, DropInductive, PTL DEF Spec

-------------------------------------------------------------------------------
(* ImplementsPool *)

\* Those that still hold their slot are the spawned ones and some of the counted.
Holding == {g \in Goroutines : gor[g].st \in {"working", "finished"}}

\* The slots are taken by the goroutines that have not begun and by those that
\* have and still hold theirs.
LEMMA SlotsSplit ==
  /\ IsFiniteSet(Spawned) /\ Cardinality(Spawned) \in Nat
  /\ IsFiniteSet(Holding) /\ Cardinality(Holding) \in Nat
  /\ Cardinality(Slots) = Cardinality(Spawned) + Cardinality(Holding)
<1>1. IsFiniteSet(Spawned) /\ IsFiniteSet(Holding)
  BY PoolAssumption, FS_Subset DEF Spawned, Holding
<1>2. Cardinality(Spawned) \in Nat /\ Cardinality(Holding) \in Nat
  BY <1>1, FS_CardinalityType
<1>3. Slots = Spawned \cup Holding /\ Spawned \cap Holding = {}
  BY DEF Slots, Spawned, Holding
<1>4. Cardinality(Spawned \cup Holding) = Cardinality(Spawned) + Cardinality(Holding)
  BY <1>1, <1>2, <1>3, FS_Union, FS_EmptySet
<1> QED BY <1>1, <1>2, <1>3, <1>4

\* dispatch is the contract's Launch.
LEMMA LaunchRefines ==
  ASSUME PoolInv, PoolInv', NEW t \in Tasks, NEW g \in Goroutines, DispatchLaunch(t, g)
  PROVE  Pool!Launch
<1>1. Spawned' = Spawned \cup {g} /\ g \notin Spawned
  BY DEF PoolInv, TypeOK, DispatchLaunch, Spawned
<1>2. Cardinality(Spawned') = Cardinality(Spawned) + 1
  BY <1>1, SlotsSplit, FS_AddElement
<1>3. PoolPhase = "loop" /\ PoolPhase' = "loop"
  BY DEF PoolPhase, DispatchLaunch, AfterDispatch
<1> QED BY <1>2, <1>3 DEF Pool!Launch, DispatchLaunch

\* The first statement of a goroutine is its Begin.
LEMMA BeginRefines ==
  ASSUME PoolInv, NEW g \in Goroutines, Begin(g)
  PROVE  Pool!Begin
<1>1. Spawned' = Spawned \ {g} /\ g \in Spawned
  BY DEF PoolInv, TypeOK, Begin, Spawned
<1>2. Cardinality(Spawned') = Cardinality(Spawned) - 1 /\ Cardinality(Spawned) # 0
  BY <1>1, SlotsSplit, FS_RemoveElement, FS_EmptySet
<1>3. PoolPhase' = PoolPhase
  BY DEF PoolPhase, Begin
<1> QED BY <1>2, <1>3, SlotsSplit DEF Pool!Begin, Begin

\* The deferred function's first statement is Release: g itself has begun and
\* holds its slot.
LEMMA ReleaseRefines ==
  ASSUME PoolInv, NEW g \in Goroutines, Release(g)
  PROVE  Pool!Release
<1>1. Spawned' = Spawned /\ g \in Holding
  BY DEF PoolInv, TypeOK, Release, Spawned, Holding
<1>2. Cardinality(Holding) # 0
  BY <1>1, SlotsSplit, FS_EmptySet
<1>3. sem > Cardinality(Spawned)
  BY <1>2, SlotsSplit DEF PoolInv, Counters
<1>4. PoolPhase' = PoolPhase
  BY DEF PoolPhase, Release
<1> QED BY <1>1, <1>3, <1>4 DEF Pool!Release, Release

\* Its second statement is Leave: g is counted and holds no slot.
LEMMA LeaveRefines ==
  ASSUME PoolInv, NEW g \in Goroutines, Leave(g)
  PROVE  Pool!Leave
<1>1. Spawned' = Spawned /\ g \in Counted /\ g \notin Holding /\ Holding \subseteq Counted
  BY DEF PoolInv, TypeOK, Leave, Spawned, Holding, Counted
<1>2. Cardinality(Holding) <= Cardinality(Counted) /\ Cardinality(Holding) # Cardinality(Counted)
  BY <1>1, FiniteCounts, FS_Subset
<1>3. active > sem - Cardinality(Spawned)
  BY <1>2, SlotsSplit, FiniteCounts DEF PoolInv, Counters
<1>4. PoolPhase' = PoolPhase
  BY DEF PoolPhase, Leave
<1> QED BY <1>1, <1>3, <1>4 DEF Pool!Leave, Leave

\* Run stops launching, and returns.
LEMMA RunRefines ==
  ASSUME PoolInv, RunStop \/ RunReturn
  PROVE  Pool!Advance
<1>1. UNCHANGED <<sem, active, gor>> /\ Spawned' = Spawned
  BY DEF RunStop, RunReturn, Spawned
<1>2. \/ PoolPhase = "loop" /\ PoolPhase' = "drain"
      \/ PoolPhase = "drain" /\ PoolPhase' = "done"
  BY DEF PoolInv, TypeOK, PoolPhase, RunStop, RunReturn
<1> QED BY <1>1, <1>2 DEF Pool!Advance

\* Everything else is invisible.
LEMMA PoolStutters ==
  ASSUME UNCHANGED <<sem, active>>, Spawned' = Spawned, PoolPhase' = PoolPhase
  PROVE  UNCHANGED Pool!vars
BY DEF Pool!vars

\* Every step of the pod is a step of the contract or is invisible to it.
LEMMA PoolStep == PoolInv /\ PoolInv' /\ [Next]_vars => [Pool!Next]_(Pool!vars)
<1> SUFFICES ASSUME PoolInv, PoolInv', [Next]_vars PROVE [Pool!Next]_(Pool!vars)
  OBVIOUS
<1>1. CASE Poll \/ Cancel \/ Coordinator \/ UNCHANGED vars
  <2>1. UNCHANGED <<sem, active, gor, run>>
    BY <1>1 DEF Poll, PollCall, PollNothing, PollExit, PollRead, PollSend, Cancel, Coordinator,
                CoordStart, CoordDrained, CoordClose, vars
  <2> QED BY <2>1, PoolStutters DEF Spawned, PoolPhase
<1>2. CASE RunReceive \/ (\E entries \in SUBSET pel : RunClaim(entries))
  <2>1. UNCHANGED <<sem, active, gor>> /\ run.pc = "select" /\ run'.pc = "dispatch"
    BY <1>2 DEF RunReceive, RunClaim
  <2>2. Spawned' = Spawned /\ PoolPhase' = PoolPhase
    BY <2>1 DEF Spawned, PoolPhase
  <2> QED BY <2>1, <2>2, PoolStutters
<1>3. CASE \E t \in run.todo : DispatchNack(t)
  <2>1. /\ UNCHANGED <<sem, active, gor>>
        /\ run.pc = "dispatch" /\ run'.pc \in {"select", "dispatch"}
    BY <1>3 DEF DispatchNack, AfterDispatch
  <2>2. Spawned' = Spawned /\ PoolPhase' = PoolPhase
    BY <2>1 DEF Spawned, PoolPhase
  <2> QED BY <2>1, <2>2, PoolStutters
<1>4. CASE \E t \in run.todo, g \in Goroutines : DispatchLaunch(t, g)
  <2>1. run.todo \subseteq Tasks
    BY DEF PoolInv, TypeOK
  <2> QED BY <1>4, <2>1, LaunchRefines DEF Pool!Next
<1>5. CASE RunStop \/ RunReturn
  BY <1>5, RunRefines DEF Pool!Next
<1>6. ASSUME NEW g \in Goroutines, Work(g) PROVE [Pool!Next]_(Pool!vars)
  <2>1. UNCHANGED <<sem, active, run>> /\ Spawned' = Spawned
    BY <1>6 DEF PoolInv, TypeOK, Work, Spawned
  <2> QED BY <2>1, PoolStutters DEF PoolPhase
<1>7. ASSUME NEW g \in Goroutines, Begin(g) \/ Release(g) \/ Leave(g)
      PROVE  [Pool!Next]_(Pool!vars)
  BY <1>7, BeginRefines, ReleaseRefines, LeaveRefines DEF Pool!Next
<1> QED
  BY <1>1, <1>2, <1>3, <1>4, <1>5, <1>6, <1>7 DEF Next, Dispatch, Worker

\* The pod implements the supervisor of PoolContract, for every pool size and
\* every number of goroutines: the order of release and count in processTask, and
\* a Run that never goes back to dispatching, are what its steps come down to.
THEOREM PodImplementsPool == Spec => ImplementsPool
<1>1. Init => Pool!Init
  <2> SUFFICES ASSUME Init PROVE Pool!Init
    OBVIOUS
  <2>1. Spawned = {} /\ PoolPhase = "loop"
    BY DEF Init, Spawned, PoolPhase
  <2> QED BY <2>1, FS_EmptySet DEF Init, Pool!Init
<1> QED BY <1>1, PoolInit, PoolInductive, PoolStep, PTL DEF Spec, ImplementsPool, Pool!Spec

===============================================================================
