---------------------------- MODULE ConsumerGroup ----------------------------
(***************************************************************************)
(* RedisConsumer against Redis, for all pods of the deployment: the four   *)
(* priority streams and the consumer group on each, how Consume creates    *)
(* the groups and pollLoop recreates them after NOGROUP, XREADGROUP and    *)
(* ClaimStale over several streams, entries that cannot be parsed, and     *)
(* restarts of Redis and of pods.  It composes with Producer, whose        *)
(* commands run between those of the consumers.                            *)
(*                                                                         *)
(* What a worker does with a task is the subject of DeliveryPipeline; here *)
(* Handle is all of it.  It needs the Lua scripts, which a pod loads when  *)
(* it starts and Redis forgets when it restarts.                           *)
(*                                                                         *)
(* A definition X_variant is X with a fault; no action uses it.  It serves *)
(* to see that a property fails when the code has that fault.              *)
(***************************************************************************)
EXTENDS Producer, Integers

CONSTANTS
  Streams,     \* how many priority streams there are; 1 is the most urgent
  StreamOf,    \* Priority.QueueName: the stream of a task
  Garbage,     \* messages of other writers that taskFromMessage cannot parse
  Pods,        \* worker processes
  ReadCount,   \* COUNT of XREADGROUP, for each stream
  ClaimCount,  \* claimBatchSize
  FaultCost    \* bound: cost of a failure of a pod or of Redis; a producer's costs 1

ASSUME GroupAssumption ==
  /\ Streams \in Nat \ {0}
  /\ StreamOf \in [Tasks \cup Garbage -> 1 .. Streams]
  /\ Garbage \cap Tasks = {}
  /\ ReadCount \in Nat \ {0} /\ ClaimCount \in Nat \ {0}
  /\ FaultCost \in Nat \ {0}

VARIABLES
  base,      \* entries up to this ID were lost by Redis
  position,  \* per stream: last-delivered-id of the group, or NoGroup
  pel,       \* IDs delivered and not acknowledged
  idle,      \* IDs in the PEL idle for at least ClaimIdleThreshold
  scripts,   \* Redis has the Lua scripts
  poll,      \* per pod: its start and its pollLoop
  claim,     \* per pod: its ClaimStale
  hand,      \* per pod: IDs of the tasks in its memory
  done,      \* IDs handled to the end (history)
  gap        \* IDs added to a stream that had no group then (history)

groupVars == <<base, position, pel, idle>>
podVars == <<poll, claim, hand>>
vars == <<producerVars, budget, groupVars, scripts, podVars, done, gap>>

-------------------------------------------------------------------------------
(* Types and helpers *)

NoGroup == -1
Entries == 1 .. Len(log)
Stored == {m \in Entries : m > base}
Stream(m) == StreamOf[log[m]]
In(s) == {m \in Stored : Stream(m) = s}
HasGroup(s) == position[s] # NoGroup
Parsable(m) == log[m] \notin Garbage

PollStates == [pc : {"down", "start", "read", "recreate"}, k : 1 .. Streams]
\* k: the stream XAUTOCLAIM is called on next; got: the tasks claimed so far.
NoClaim == [k |-> 1, got |-> {}]

\* The n smallest of a set of IDs.
Oldest(n, ids) == {m \in ids : Cardinality({o \in ids : o < m}) < n}

\* "$": the ID of the last entry of the stream.
LastId(s) == IF In(s) = {} THEN base ELSE CHOOSE m \in In(s) : \A o \in In(s) : o <= m

Unread(s) == {m \in In(s) : HasGroup(s) /\ m > position[s]}

Running(p) == poll[p].pc \in {"read", "recreate"}

Fault == Spend(FaultCost)

-------------------------------------------------------------------------------
(* Producers *)

\* An entry added to stream s; the group, if there is one, will get it.
Note(s) == gap' = IF HasGroup(s) THEN gap ELSE gap \cup {Len(log) + 1}

Produce ==
  /\ \/ (\E t \in Tasks : Enqueue(t)) /\ UNCHANGED gap
     \/ (\E ts \in Batches : EnqueueBatch(ts)) /\ UNCHANGED gap
     \/ XAdd /\ Note(StreamOf[call.tasks[call.next]])
     \/ /\ XAddRefused \/ ConnectionLost \/ NoConnection \/ CtxDone \/ Return
        /\ UNCHANGED gap
  /\ UNCHANGED <<groupVars, scripts, podVars, done>>

\* Some other program writes a message without a payload that parses.
WriteGarbage(g) ==
  /\ g \notin {log[m] : m \in Entries} /\ Len(log) < MaxEntries
  /\ log' = Append(log, g)
  /\ Note(StreamOf[g])
  /\ UNCHANGED <<call, calls, budget, groupVars, scripts, podVars, done>>

-------------------------------------------------------------------------------
(* Start of a pod: LoadScripts and Consume *)

\* LoadScripts; Consume then ensures the groups one by one.
Boot(p) ==
  /\ poll[p].pc = "down"
  /\ scripts' = TRUE
  /\ poll' = [poll EXCEPT ![p] = [pc |-> "start", k |-> 1]]
  /\ UNCHANGED <<producerVars, budget, groupVars, claim, hand, done, gap>>

ensureConsumerGroup_reset(s) == position' = [position EXCEPT ![s] = LastId(s)]

\* XGROUP CREATE MKSTREAM at "$"; BUSYGROUP is not an error.
ensureConsumerGroup(s) ==
  position' = [position EXCEPT ![s] = IF HasGroup(s) THEN @ ELSE LastId(s)]

NextStream(p) ==
  poll' = [poll EXCEPT ![p] = IF @.k = Streams THEN [pc |-> "read", k |-> 1]
                                               ELSE [pc |-> @.pc, k |-> @.k + 1]]

\* The pod's memory is gone.
Down(p) ==
  /\ poll' = [poll EXCEPT ![p] = [pc |-> "down", k |-> 1]]
  /\ claim' = [claim EXCEPT ![p] = NoClaim]
  /\ hand' = [hand EXCEPT ![p] = {}]

\* The first error of Consume ends the process.
Consume(p) ==
  /\ poll[p].pc = "start"
  /\ \/ /\ ensureConsumerGroup(poll[p].k)
        /\ NextStream(p)
        /\ UNCHANGED <<budget, claim, hand>>
     \/ Fault /\ Down(p) /\ UNCHANGED position
  /\ UNCHANGED <<producerVars, base, pel, idle, scripts, done, gap>>

-------------------------------------------------------------------------------
(* pollLoop *)

\* What one XREADGROUP delivers: up to ReadCount new entries of each stream.
Delivered == UNION {Oldest(ReadCount, Unread(s)) : s \in 1 .. Streams}

\* Where each group is after it.
PositionsRead ==
  [s \in 1 .. Streams |->
     LET read == {m \in Delivered : Stream(m) = s}
     IN IF read = {} THEN position[s] ELSE CHOOSE m \in read : \A o \in read : o <= m]

ReadGroup_forwardAll(p) ==
  /\ poll[p].pc = "read" /\ \A s \in 1 .. Streams : HasGroup(s)
  /\ Delivered # {}
  /\ position' = PositionsRead
  /\ pel' = pel \cup Delivered
  /\ hand' = [hand EXCEPT ![p] = @ \cup Delivered]
  /\ UNCHANGED <<producerVars, budget, base, idle, scripts, poll, claim, done, gap>>

\* Entries that do not parse are skipped, and stay in the PEL.  A reply that is
\* lost leaves all of them there.
ReadGroup(p) ==
  /\ poll[p].pc = "read" /\ \A s \in 1 .. Streams : HasGroup(s)
  /\ Delivered # {}
  /\ position' = PositionsRead
  /\ pel' = pel \cup Delivered
  /\ \/ /\ hand' = [hand EXCEPT ![p] = @ \cup {m \in Delivered : Parsable(m)}]
        /\ UNCHANGED budget
     \/ Fault /\ UNCHANGED hand
  /\ UNCHANGED <<producerVars, base, idle, scripts, poll, claim, done, gap>>

NoGroupError_ignored(p) ==
  /\ poll[p].pc = "read" /\ \E s \in 1 .. Streams : ~HasGroup(s)
  /\ UNCHANGED vars

\* One stream without its group fails the whole XREADGROUP.
NoGroupError(p) ==
  /\ poll[p].pc = "read" /\ \E s \in 1 .. Streams : ~HasGroup(s)
  /\ poll' = [poll EXCEPT ![p] = [pc |-> "recreate", k |-> 1]]
  /\ UNCHANGED <<producerVars, budget, groupVars, scripts, claim, hand, done, gap>>

\* The groups are ensured one by one; errors are ignored.
Recreate(p) ==
  /\ poll[p].pc = "recreate"
  /\ \/ ensureConsumerGroup(poll[p].k) /\ UNCHANGED budget
     \/ Fault /\ UNCHANGED position
  /\ NextStream(p)
  /\ UNCHANGED <<producerVars, base, pel, idle, scripts, claim, hand, done, gap>>

-------------------------------------------------------------------------------
(* ClaimStale *)

\* The ticker fires: nothing happens before an entry is idle.
Scanning(p) == Running(p) /\ (claim[p].k > 1 \/ idle # {})

Claimable(s) == Oldest(ClaimCount, {m \in idle : Stream(m) = s})

ClaimStep_abortOnGarbage(p) ==
  LET k == claim[p].k
      got == claim[p].got \cup Claimable(k)
  IN /\ Scanning(p) /\ HasGroup(k)
     /\ idle' = idle \ Claimable(k)
     /\ IF k < Streams /\ \A m \in got : Parsable(m)
        THEN claim' = [claim EXCEPT ![p] = [k |-> k + 1, got |-> got]]
             /\ UNCHANGED hand
        ELSE /\ claim' = [claim EXCEPT ![p] = NoClaim]
             /\ hand' = [hand EXCEPT ![p] =
                  IF \A m \in got : Parsable(m) THEN @ \cup got ELSE @]
     /\ UNCHANGED <<producerVars, budget, base, position, pel, scripts, poll, done, gap>>

\* XAUTOCLAIM from 0-0 on stream k: the oldest idle entries, whoever holds them.
\* After the last stream what was claimed is dispatched.
ClaimStep(p) ==
  LET k == claim[p].k
      got == claim[p].got \cup {m \in Claimable(k) : Parsable(m)}
  IN /\ Scanning(p) /\ HasGroup(k)
     /\ idle' = idle \ Claimable(k)
     /\ IF k < Streams
        THEN claim' = [claim EXCEPT ![p] = [k |-> k + 1, got |-> got]]
             /\ UNCHANGED hand
        ELSE /\ claim' = [claim EXCEPT ![p] = NoClaim]
             /\ hand' = [hand EXCEPT ![p] = @ \cup got]
     /\ UNCHANGED <<producerVars, budget, base, position, pel, scripts, poll, done, gap>>

\* An error, NOGROUP or another, ends ClaimStale: what it claimed on the streams
\* before is dropped, its idle time being reset.
ClaimError(p) ==
  /\ Scanning(p)
  /\ IF HasGroup(claim[p].k) THEN Fault ELSE UNCHANGED budget
  /\ claim' = [claim EXCEPT ![p] = NoClaim]
  /\ UNCHANGED <<producerVars, groupVars, scripts, poll, hand, done, gap>>

AgeEntry(m) ==
  /\ m \in pel \ idle
  /\ idle' = idle \cup {m}
  /\ UNCHANGED <<producerVars, budget, base, position, pel, scripts, podVars, done, gap>>

-------------------------------------------------------------------------------
(* processTask *)

Release(p, m) == hand' = [hand EXCEPT ![p] = @ \ {m}]

\* With its scripts the worker handles the task and acknowledges the entry, and
\* a duplicate is recognised without them.  XACK, or anything before, may fail.
Handle(p, m) ==
  /\ m \in hand[p]
  /\ scripts \/ m \in done
  /\ Release(p, m)
  /\ \/ done' = done \cup {m} /\ pel' = pel \ {m} /\ idle' = idle \ {m} /\ UNCHANGED budget
     \/ Fault /\ done' \in {done, done \cup {m}} /\ UNCHANGED <<pel, idle>>
  /\ UNCHANGED <<producerVars, base, position, scripts, poll, claim, gap>>

\* Without them (NOSCRIPT) SetProcessing does not acquire the attempt, and
\* TryReclaimStale does not reclaim it: the task is nacked.
NackNoScript(p, m) ==
  /\ m \in hand[p]
  /\ ~scripts /\ m \notin done
  /\ Release(p, m)
  /\ UNCHANGED <<producerVars, budget, groupVars, scripts, poll, claim, done, gap>>

-------------------------------------------------------------------------------
(* Failures *)

Crash(p) ==
  /\ poll[p].pc # "down"
  /\ Fault
  /\ Down(p)
  /\ UNCHANGED <<producerVars, groupVars, scripts, done, gap>>

\* Redis restarts: from its files, or empty.  The scripts are gone either way.
RedisRestart ==
  /\ Fault
  /\ scripts' = FALSE
  /\ \/ UNCHANGED groupVars
     \/ /\ base' = Len(log)
        /\ position' = [s \in 1 .. Streams |-> NoGroup]
        /\ pel' = {} /\ idle' = {}
  /\ UNCHANGED <<producerVars, podVars, done, gap>>

-------------------------------------------------------------------------------
(* Specification *)

Init ==
  /\ ProducerInit
  /\ base = 0
  /\ position = [s \in 1 .. Streams |-> NoGroup]
  /\ pel = {} /\ idle = {}
  /\ scripts = FALSE
  /\ poll = [p \in Pods |-> [pc |-> "down", k |-> 1]]
  /\ claim = [p \in Pods |-> NoClaim]
  /\ hand = [p \in Pods |-> {}]
  /\ done = {} /\ gap = {}

Start(p) == Boot(p) \/ Consume(p)
PollLoop(p) == ReadGroup(p) \/ NoGroupError(p) \/ Recreate(p)
ClaimStale(p) == ClaimStep(p) \/ ClaimError(p)
Process(p, m) == Handle(p, m) \/ NackNoScript(p, m)

Next ==
  \/ Produce
  \/ \E g \in Garbage : WriteGarbage(g)
  \/ \E p \in Pods :
       \/ Start(p) \/ PollLoop(p) \/ ClaimStale(p) \/ Crash(p)
       \/ \E m \in hand[p] : Process(p, m)
  \/ \E m \in pel : AgeEntry(m)
  \/ RedisRestart

Spec == Init /\ [][Next]_vars

\* Kubernetes restarts a pod that died; pollLoop and the claim ticker never
\* stop; workers run, and time passes for the entries of the PEL.
Fairness ==
  /\ \A p \in Pods : WF_vars(Start(p)) /\ WF_vars(PollLoop(p)) /\ WF_vars(ClaimStale(p))
  /\ \A p \in Pods : WF_vars(\E m \in hand[p] : Process(p, m))
  /\ \A m \in 1 .. MaxEntries : WF_vars(AgeEntry(m))

FairSpec == Spec /\ Fairness

-------------------------------------------------------------------------------
(* Properties *)

\* The type invariant.  Its content: the PEL holds only what Redis still has and
\* what was delivered; no task that cannot be parsed gets into a pod's memory.
TypeOK ==
  /\ log \in Seq(Tasks \cup Garbage)
  /\ base \in 0 .. Len(log)
  /\ position \in [1 .. Streams -> Nat \cup {NoGroup}]
  /\ idle \subseteq pel /\ pel \subseteq Stored
  /\ \A m \in pel : HasGroup(Stream(m)) /\ m <= position[Stream(m)]
  /\ scripts \in BOOLEAN
  /\ poll \in [Pods -> PollStates]
  /\ \A p \in Pods : hand[p] \cup claim[p].got \subseteq {m \in Entries : Parsable(m)}
  /\ done \subseteq Entries /\ gap \subseteq Entries
  /\ budget \in 0 .. MaxFaults

\* An entry the group has passed without it being handled or pending is one that
\* was written while the stream had no group: several pods recreate the groups
\* stream by stream while producers write, and a group that already exists is
\* never moved (ensureConsumerGroup, BUSYGROUP).
SkippedOnlyInGap ==
  \A m \in Stored :
    HasGroup(Stream(m)) /\ m <= position[Stream(m)] => m \in pel \cup done \cup gap

\* Groups that are lost, or were never made, are all created in the end: until
\* then every XREADGROUP fails, whichever stream lacks its group (pollLoop).
GroupsComeBack ==
  (\E s \in 1 .. Streams : ~HasGroup(s)) ~> (\A s \in 1 .. Streams : HasGroup(s))

Deliverable(m) ==
  /\ m \in Stored /\ Parsable(m)
  /\ m \in Unread(Stream(m)) \cup pel

Handled(m) == m \in done \/ m <= base

\* While the scripts are loaded every entry the group has yet to deliver or to
\* redeliver is handled in the end, if Redis does not lose it: entries that
\* cannot be parsed do not keep ClaimStale from the others, and neither does a
\* stream whose group is missing.
HandledInTheEnd ==
  <>[]scripts => \A m \in 1 .. MaxEntries : Deliverable(m) ~> Handled(m)

===============================================================================
