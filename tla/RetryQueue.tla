------------------------------ MODULE RetryQueue ------------------------------
(***************************************************************************)
(* The delay queues: the sorted set of retries with the FlushReady calls   *)
(* that the delayed schedulers of all pods make on it, the quarantine of   *)
(* members that cannot be parsed, and the sorted set EnqueueDelayed        *)
(* writes.  DeliveryPipeline has a simpler FlushReady, without scores,     *)
(* batch limit or corrupt members.                                         *)
(*                                                                         *)
(* One action is one Redis command.  The commands of a pipeline run in     *)
(* order, with those of other pods between them.  A refused one does not   *)
(* stop those behind it; when the connection is lost the rest does not     *)
(* run, and the client library may run all of them again.                  *)
(*                                                                         *)
(* A definition X_variant is X with a fault; no action uses it.  It serves *)
(* to see that a property fails when the code has that fault.              *)
(***************************************************************************)
EXTENDS Integers, FiniteSets

CONSTANTS
  Items,      \* members of the sorted sets, each added once
  Attempt,    \* EmailTask.Attempt of an item, already incremented
  BaseDelay, MaxDelay, Jitter, \* RetryPolicy: in ticks, and in percent
  Second,     \* ticks in a second
  Corrupt,    \* items that are not the JSON of a task
  Pods,       \* processes that run a delayed scheduler
  FlushLimit, \* members read by one FlushReady
  MaxNow,     \* bound: the clock stops here
  MaxBreaks,  \* bound: connections lost, pods crashed and ZREMs refused
  MaxRefusals \* bound: RPUSHes and XADDs refused

ASSUME QueueAssumption ==
  /\ Attempt \in [Items -> Nat]
  /\ BaseDelay \in Nat /\ MaxDelay \in Nat /\ Jitter \in 0 .. 100
  /\ Second \in Nat \ {0}
  /\ Corrupt \subseteq Items
  /\ IsFiniteSet(Items) /\ IsFiniteSet(Pods)
  /\ FlushLimit \in Nat \ {0}
  /\ MaxNow \in Nat
  /\ MaxBreaks \in Nat /\ MaxRefusals \in Nat

VARIABLES
  now,      \* the clock
  due,      \* per item, the time it was scheduled for
  added,    \* items ScheduleRetry or EnqueueDelayed was called with
  retry,    \* queue:email:retry:delayed
  delayed,  \* queue:email:delayed
  flush,    \* per pod: the state of its FlushReady
  copies,   \* per item, entries XADDed to the priority streams
  poison,   \* per item, entries pushed to queue:retry:poison
  dropped,  \* items a ZREM removed whose push its pipeline had seen refused (history)
  breaks,   \* connections lost so far
  refusals  \* pushes refused so far

vars == <<now, due, added, retry, delayed, flush, copies, poison, dropped, breaks, refusals>>

-------------------------------------------------------------------------------
(* Types *)

\* good and bad: the parsed and the unparsable members of the batch; todo: those
\* whose XADD or RPUSH has not run; failed: those whose command has an error.
FlushStates ==
  [pc : {"idle", "rpush", "zremBad", "xadd", "zrem"},
   good : SUBSET Items, bad : SUBSET Items, todo : SUBSET Items, failed : SUBSET Items]

IdleFlush == [pc |-> "idle", good |-> {}, bad |-> {}, todo |-> {}, failed |-> {}]

-------------------------------------------------------------------------------
(* Writers *)

\* The back-off: BaseDelay doubled with every attempt, at most MaxDelay; up to
\* Jitter percent of that are added, and the sum is capped again.
ComputeDelay(attempt) ==
  LET grown == BaseDelay * 2^attempt
      base == IF grown > MaxDelay THEN MaxDelay ELSE grown
  IN {d \in 0 .. MaxDelay : base <= d /\ 100 * (d - base) <= Jitter * base}

\* ZADD NX.  An unparsable member comes from elsewhere, by the same command.  (An
\* item due after MaxNow is not scheduled.)
ScheduleRetry(i) ==
  /\ i \notin added
  /\ now + MaxDelay <= MaxNow
  /\ added' = added \cup {i}
  /\ retry' = retry \cup {i}
  /\ \E d \in ComputeDelay(Attempt[i]) : due' = [due EXCEPT ![i] = now + d]
  /\ UNCHANGED <<now, delayed, flush, copies, poison, dropped, breaks, refusals>>

EnqueueDelayed(i) ==
  /\ i \notin added \cup Corrupt
  /\ added' = added \cup {i}
  /\ delayed' = delayed \cup {i}
  /\ UNCHANGED <<now, due, retry, flush, copies, poison, dropped, breaks, refusals>>

-------------------------------------------------------------------------------
(* FlushReady *)

\* time.Time.Unix: whole seconds.
Unix(t) == t \div Second

Due_nextSecond == {i \in retry : Unix(due[i]) <= Unix(now) + 1}

Due == {i \in retry : Unix(due[i]) <= Unix(now)}

\* LIMIT 0 FlushLimit of the due members in the order of their scores.
FirstDue(read) ==
  /\ read \subseteq Due
  /\ IF Cardinality(Due) <= FlushLimit THEN read = Due ELSE Cardinality(read) = FlushLimit
  /\ \A i \in read, j \in Due \ read : Unix(due[i]) <= Unix(due[j])

\* What follows the quarantine of bad.
ThenFlush(good) ==
  IF good = {} THEN IdleFlush
  ELSE [pc |-> "xadd", good |-> good, bad |-> {}, todo |-> good, failed |-> {}]

FlushRead_unchecked(p) ==
  /\ flush[p].pc = "idle" /\ Due # {}
  /\ \E read \in SUBSET Due :
       FirstDue(read) /\ flush' = [flush EXCEPT ![p] = ThenFlush(read)]
  /\ UNCHANGED <<now, due, added, retry, delayed, copies, poison, dropped, breaks, refusals>>

FlushRead_skipCorrupt(p) ==
  /\ flush[p].pc = "idle" /\ Due # {}
  /\ \E read \in SUBSET Due :
       FirstDue(read) /\ flush' = [flush EXCEPT ![p] = ThenFlush(read \ Corrupt)]
  /\ UNCHANGED <<now, due, added, retry, delayed, copies, poison, dropped, breaks, refusals>>

\* ZRANGEBYSCORE; the members read are parsed, and the corrupt ones dealt with
\* first.
FlushRead(p) ==
  /\ flush[p].pc = "idle" /\ Due # {}
  /\ \E read \in SUBSET Due :
       /\ FirstDue(read)
       /\ flush' = [flush EXCEPT ![p] =
            IF read \cap Corrupt = {} THEN ThenFlush(read)
            ELSE [pc |-> "rpush", good |-> read \ Corrupt, bad |-> read \cap Corrupt,
                  todo |-> read \cap Corrupt, failed |-> {}]]
  /\ UNCHANGED <<now, due, added, retry, delayed, copies, poison, dropped, breaks, refusals>>

\* The FlushReady f when Redis has run, or refused, the push of i; behind the last push
\* comes next.
Ran(f, i, ok, next) ==
  [f EXCEPT !.todo = @ \ {i}, !.failed = IF ok THEN @ ELSE @ \cup {i},
            !.pc = IF f.todo = {i} THEN next ELSE @]

\* The answer of Redis to a push.
Answer(ok) ==
  /\ ok \/ refusals < MaxRefusals
  /\ refusals' = IF ok THEN refusals ELSE refusals + 1

\* One RPUSH to the poison list, which Redis runs or refuses.
QuarantinePush(p, i) ==
  /\ flush[p].pc = "rpush" /\ i \in flush[p].todo
  /\ \E ok \in BOOLEAN :
       /\ Answer(ok)
       /\ poison' = IF ok THEN [poison EXCEPT ![i] = @ + 1] ELSE poison
       /\ flush' = [flush EXCEPT ![p] = Ran(@, i, ok, "zremBad")]
  /\ UNCHANGED <<now, due, added, retry, delayed, copies, dropped, breaks>>

\* ZREM of members, whatever became of the commands before it.
Zrem(p, members) ==
  /\ retry' = retry \ members
  /\ dropped' = dropped \cup (flush[p].failed \cap retry)

QuarantineRemove(p) ==
  /\ flush[p].pc = "zremBad"
  /\ Zrem(p, flush[p].bad)
  /\ flush' = [flush EXCEPT ![p] = ThenFlush(flush[p].good)]
  /\ UNCHANGED <<now, due, added, delayed, copies, poison, breaks, refusals>>

\* One XADD, which Redis runs or refuses.
FlushXadd(p, i) ==
  /\ flush[p].pc = "xadd" /\ i \in flush[p].todo
  /\ \E ok \in BOOLEAN :
       /\ Answer(ok)
       /\ copies' = IF ok THEN [copies EXCEPT ![i] = @ + 1] ELSE copies
       /\ flush' = [flush EXCEPT ![p] = Ran(@, i, ok, "zrem")]
  /\ UNCHANGED <<now, due, added, retry, delayed, poison, dropped, breaks>>

FlushZrem_first(p) ==
  /\ flush[p].pc \in {"xadd", "zrem"}
  /\ Zrem(p, flush[p].good)
  /\ flush' = [flush EXCEPT ![p].pc = IF @ = "zrem" THEN "idle" ELSE @]
  /\ UNCHANGED <<now, due, added, delayed, copies, poison, breaks, refusals>>

FlushZrem_forgotten(p) ==
  /\ flush[p].pc = "zrem"
  /\ flush' = [flush EXCEPT ![p] = IdleFlush]
  /\ UNCHANGED <<now, due, added, retry, delayed, copies, poison, dropped, breaks, refusals>>

FlushZrem(p) ==
  /\ flush[p].pc = "zrem"
  /\ Zrem(p, flush[p].good)
  /\ flush' = [flush EXCEPT ![p] = IdleFlush]
  /\ UNCHANGED <<now, due, added, delayed, copies, poison, breaks, refusals>>

\* The pipeline that f is in, from its first command.
Repeat(f) ==
  IF f.pc \in {"rpush", "zremBad"}
  THEN [f EXCEPT !.pc = "rpush", !.todo = f.bad, !.failed = {}]
  ELSE [f EXCEPT !.pc = "xadd", !.todo = f.good, !.failed = {}]

\* A quarantine that fails is logged and the flush goes on; a flush that fails is
\* over.
GiveUp(f) == IF f.pc \in {"rpush", "zremBad"} THEN ThenFlush(f.good) ELSE IdleFlush

\* The connection is lost, maybe after the last command, ZREM, has run, or the ZREM
\* is refused.  The client library repeats the whole pipeline, up to its
\* limit (client.go sets none of its own).
Break(p) ==
  /\ flush[p].pc # "idle" /\ breaks < MaxBreaks
  /\ breaks' = breaks + 1
  /\ \/ UNCHANGED <<retry, dropped>>
     \/ flush[p].pc = "zremBad" /\ Zrem(p, flush[p].bad)
     \/ flush[p].pc = "zrem" /\ Zrem(p, flush[p].good)
  /\ \E f \in {Repeat(flush[p]), GiveUp(flush[p])} : flush' = [flush EXCEPT ![p] = f]
  /\ UNCHANGED <<now, due, added, delayed, copies, poison, refusals>>

\* The pod dies, or its context is done and every later command is refused.
Stop(p) ==
  /\ flush[p].pc # "idle" /\ breaks < MaxBreaks
  /\ breaks' = breaks + 1
  /\ flush' = [flush EXCEPT ![p] = IdleFlush]
  /\ UNCHANGED <<now, due, added, retry, delayed, copies, poison, dropped, refusals>>

Tick ==
  /\ now < MaxNow
  /\ now' = now + 1
  /\ UNCHANGED <<due, added, retry, delayed, flush, copies, poison, dropped, breaks, refusals>>

-------------------------------------------------------------------------------
(* Specification *)

Init ==
  /\ now = 0 /\ due = [i \in Items |-> 0]
  /\ added = {} /\ retry = {} /\ delayed = {}
  /\ flush = [p \in Pods |-> IdleFlush]
  /\ copies = [i \in Items |-> 0]
  /\ poison = [i \in Items |-> 0]
  /\ dropped = {}
  /\ breaks = 0 /\ refusals = 0

FlushReady(p) ==
  \/ FlushRead(p)
  \/ \E i \in Items : QuarantinePush(p, i) \/ FlushXadd(p, i)
  \/ QuarantineRemove(p) \/ FlushZrem(p)

Next ==
  \/ \E i \in Items : ScheduleRetry(i) \/ EnqueueDelayed(i)
  \/ \E p \in Pods : FlushReady(p) \/ Break(p) \/ Stop(p)
  \/ Tick

Spec == Init /\ [][Next]_vars

\* Every scheduler keeps ticking, and the clock does.
FairSpec == Spec /\ WF_vars(Tick) /\ \A p \in Pods : WF_vars(FlushReady(p))

-------------------------------------------------------------------------------
(* Properties *)

\* The type invariant.  Its content: only parsed members reach a stream, only
\* unparsable ones the poison list.
TypeOK ==
  /\ now \in 0 .. MaxNow
  /\ due \in [Items -> Nat]
  /\ added \subseteq Items /\ retry \subseteq added /\ delayed \subseteq added
  /\ flush \in [Pods -> FlushStates]
  /\ copies \in [Items -> Nat]
  /\ poison \in [Items -> Nat]
  /\ dropped \subseteq added
  /\ \A i \in Items : (copies[i] > 0 => i \notin Corrupt) /\ (poison[i] > 0 => i \in Corrupt)
  /\ breaks \in 0 .. MaxBreaks /\ refusals \in 0 .. MaxRefusals

\* An item that was scheduled is in a sorted set, or it left it for a priority
\* stream or, when it cannot be parsed, for the poison list.  The one way to get
\* lost is a ZREM that runs although Redis refused the push of that very pipeline,
\* which does not look at its answers before: neither a connection lost at any
\* point, with or without a repetition, nor a crash, nor another pod that flushes
\* the same members loses one, not even one whose push was refused.
Accounted ==
  \A i \in added \ dropped :
    i \in retry \cup delayed \/ (IF i \in Corrupt THEN poison[i] > 0 ELSE copies[i] > 0)

\* Flushing the same member from several pods, and again after a pipeline broke,
\* multiplies it, but only so far: one copy for each pod, and one for each break.
\* A pod that got to its ZREM never sees the member again.
DuplicatesBounded ==
  \A i \in Items : copies[i] + poison[i] <= Cardinality(Pods) + breaks

\* No item is put back less than its delay after it was scheduled, save for the
\* fraction of a second that Unix cuts off the score and off the clock.
NeverEarly ==
  \A i \in Items : copies[i] + poison[i] > 0 => due[i] < now + Second

\* Corrupt members do not block the queue: although they may fill the batch of
\* every FlushReady, each due member leaves the set in the end.
RetryDrains ==
  \A i \in Items : i \in retry ~> i \notin retry

===============================================================================
