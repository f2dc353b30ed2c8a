------------------------- MODULE ConsumerGroup_proofs -------------------------
(***************************************************************************)
(* Proofs about ConsumerGroup and Producer for every number of streams,    *)
(* pods, batches and failures: the type invariant, what a call of the      *)
(* producer reports, and that a group passes over an entry only if it was  *)
(* written while the stream had no group.                                  *)
(***************************************************************************)
EXTENDS ConsumerGroup, FiniteSetTheorems, WellFoundedInduction, TLAPS

-------------------------------------------------------------------------------
(* Largest elements *)

\* A set of naturals that is not empty has a least element.
LEMMA LeastNat ==
  ASSUME NEW T \in SUBSET Nat, T # {}
  PROVE  \E m \in T : \A o \in T : m <= o
<1>1. PICK m \in T : \A o \in T : ~ (<<o, m>> \in OpToRel(<, Nat))
  BY NatLessThanWellFounded, WFMin
<1>2. \A o \in T : ~ (o < m)
  BY <1>1 DEF OpToRel
<1> QED BY <1>2

\* A set of IDs that is not empty has a largest element.
LEMMA LargestId ==
  ASSUME NEW n \in Nat, NEW S \in SUBSET (1 .. n), S # {}
  PROVE  \E m \in S : \A o \in S : o <= m
<1> DEFINE T == {k \in Nat : n - k \in S}
<1>1. \A s \in S : n - s \in T
  <2>1. \A s \in S : n - (n - s) = s /\ n - s \in Nat
    OBVIOUS
  <2> QED BY <2>1
<1>2. PICK k \in T : \A o \in T : k <= o
  BY <1>1, LeastNat
<1>3. ASSUME NEW o \in S PROVE o <= n - k
  <2>1. k <= n - o
    BY <1>1, <1>2
  <2>2. k \in Nat /\ o \in Nat
    OBVIOUS
  <2> QED BY <2>1, <2>2
<1>4. n - k \in S
  OBVIOUS
<1> QED BY <1>3, <1>4

-------------------------------------------------------------------------------
(* The producer *)

Calls ==
  [pc : {"idle", "exec", "return"}, op : {"none", "Enqueue", "EnqueueBatch"},
   tasks : Seq(Tasks), next : Nat, failed : SUBSET Nat, tries : Nat, conn : {"never", "had"},
   wrote : SUBSET Nat, report : {"none", "nil", "exec", "invalid", "ctx"}]

\* Every command of the pipeline before next has written its entry, now or in an
\* earlier attempt, or has an error.  When an attempt that had a connection is
\* over, that is true of all commands, as their errors stay until they run again.
PipelineInv(c) ==
  /\ c.next \in 1 .. Len(c.tasks)
  /\ 1 .. c.next - 1 \subseteq c.wrote \cup c.failed
  /\ c.conn = "had" /\ c.next = 1 => Indexes(c.tasks) \subseteq c.wrote \cup c.failed
  /\ c.conn = "never" => c.wrote = {} /\ (c.op = "EnqueueBatch" => c.failed = {})

CallInv ==
  /\ call \in Calls
  /\ call.wrote \subseteq Indexes(call.tasks)
  /\ call.pc = "exec" => /\ call.op # "none"
                         /\ call.op = "Enqueue" => Len(call.tasks) = 1
                         /\ PipelineInv(call)
  /\ ReportIsTruthful

\* The next command of a pipeline, or its end.
LEMMA AdvanceTruthful ==
  ASSUME CallInv, call.pc = "exec", NEW c \in Calls,
         c.pc = "exec", c.op = call.op, c.tasks = call.tasks, c.next = call.next, c.conn = "had",
         c.wrote \subseteq Indexes(c.tasks),
         1 .. c.next \subseteq c.wrote \cup c.failed,
         call' = Advance(c)
  PROVE  CallInv'
<1>1. c.next \in 1 .. Len(c.tasks) /\ Len(c.tasks) \in Nat
  BY DEF CallInv, Calls, PipelineInv
<1>a. PICK n \in Nat : n = c.next + 1
  BY <1>1
<1>2. CASE c.next = Len(c.tasks)
  <2>1. call' = [c EXCEPT !.next = n, !.pc = "return",
                          !.report = IF c.failed = {} THEN "nil" ELSE "exec"]
    BY <1>2, <1>a DEF Advance, Report, Calls
  <2>2. /\ call' \in Calls /\ call'.pc = "return" /\ call'.tasks = c.tasks
        /\ call'.wrote = c.wrote /\ call'.failed = c.failed
        /\ call'.report = IF c.failed = {} THEN "nil" ELSE "exec"
    BY <2>1 DEF Calls
  <2> QED BY <1>1, <1>2, <2>2 DEF CallInv, ReportIsTruthful, Indexes
<1>3. CASE c.next # Len(c.tasks)
  <2>1. call' = [c EXCEPT !.next = n]
    BY <1>3, <1>a DEF Advance, Calls
  <2>2. /\ call' \in Calls /\ call'.pc = "exec" /\ call'.tasks = c.tasks /\ call'.op = c.op
        /\ call'.wrote = c.wrote /\ call'.failed = c.failed /\ call'.next = n /\ call'.conn = "had"
    BY <2>1 DEF Calls
  <2>3. PipelineInv(call')
    BY <1>1, <1>a, <1>3, <2>2 DEF PipelineInv
  <2> QED BY <2>2, <2>3 DEF CallInv, ReportIsTruthful
<1> QED BY <1>2, <1>3

\* A new attempt is well typed.
LEMMA AttemptType ==
  ASSUME NEW c \in Calls, NEW k \in Nat
  PROVE  [c EXCEPT !.next = 1, !.tries = k] \in Calls
BY DEF Calls

\* The end of an attempt whose connection was lost, or that got none: another one,
\* or the end of the call.
LEMMA RetryTruthful ==
  ASSUME CallInv, call.pc = "exec", NEW c \in Calls,
         c.pc = "exec", c.op = call.op, c.tasks = call.tasks, c.wrote = call.wrote,
         c.conn = "had" => Indexes(c.tasks) \subseteq c.wrote \cup c.failed,
         c.conn = "never" => c.wrote = {} /\ (c.op = "EnqueueBatch" => c.failed = {}),
         c.op = "Enqueue" => Indexes(c.tasks) \subseteq c.wrote \cup c.failed,
         call' = Retry(c)
  PROVE  CallInv'
<1>1. /\ Len(c.tasks) \in Nat /\ 1 \in 1 .. Len(c.tasks) /\ c.wrote \subseteq Indexes(c.tasks)
      /\ c.op \in {"Enqueue", "EnqueueBatch"} /\ c.conn \in {"never", "had"} /\ c.tries \in Nat
  BY DEF CallInv, Calls, PipelineInv
<1>2. CASE c.tries < MaxRetries
  <2>1. PICK k \in Nat : k = c.tries + 1
    BY <1>1
  <2>2. call' = [c EXCEPT !.next = 1, !.tries = k]
    BY <1>2, <2>1 DEF Retry
  <2>3. /\ call' \in Calls /\ call'.pc = "exec" /\ call'.tasks = c.tasks /\ call'.op = c.op
        /\ call'.wrote = c.wrote /\ call'.failed = c.failed /\ call'.next = 1
        /\ call'.conn = c.conn
    <3>1. /\ call'.pc = "exec" /\ call'.tasks = c.tasks /\ call'.op = c.op
          /\ call'.wrote = c.wrote /\ call'.failed = c.failed /\ call'.next = 1
          /\ call'.conn = c.conn
      BY <2>2 DEF Calls
    <3>2. call' \in Calls
      BY <2>2, AttemptType
    <3> QED BY <3>1, <3>2
  <2>4. PipelineInv(call')
    BY <1>1, <2>3 DEF PipelineInv
  <2> QED BY <1>1, <2>3, <2>4 DEF CallInv, ReportIsTruthful
<1>3. CASE ~ (c.tries < MaxRetries)
  <2>1. call' = [c EXCEPT !.pc = "return",
                          !.report = IF c.failed = {} THEN "nil" ELSE "exec"]
    BY <1>3 DEF Retry, Report
  <2>2. /\ call' \in Calls /\ call'.pc = "return" /\ call'.tasks = c.tasks /\ call'.op = c.op
        /\ call'.wrote = c.wrote /\ call'.failed = c.failed /\ call'.conn = c.conn
        /\ call'.report = IF c.failed = {} THEN "nil" ELSE "exec"
    BY <2>1 DEF Calls
  <2>3. CASE c.failed = {}
    <3>1. \/ c.wrote = Indexes(c.tasks)
          \/ c.op = "EnqueueBatch" /\ c.conn = "never" /\ c.wrote = {}
      <4>1. CASE c.conn = "had" \/ c.op = "Enqueue"
        BY <1>1, <2>3, <4>1
      <4>2. CASE c.conn = "never" /\ c.op = "EnqueueBatch"
        BY <4>2
      <4> QED BY <1>1, <4>1, <4>2
    <3>2. call'.report = "nil"
      BY <2>2, <2>3
    <3> QED BY <1>1, <2>2, <3>1, <3>2 DEF CallInv, ReportIsTruthful
  <2>4. CASE c.failed # {}
    <3>1. Indexes(c.tasks) \subseteq c.wrote \cup c.failed
      BY <1>1, <2>4
    <3> QED BY <1>1, <2>2, <2>4, <3>1 DEF CallInv, ReportIsTruthful
  <2> QED BY <2>3, <2>4
<1> QED BY <1>2, <1>3

\* A call begins: nothing is written, and invalid tasks end it.
LEMMA BeginTruthful ==
  ASSUME NEW op \in {"Enqueue", "EnqueueBatch"}, NEW ts \in Seq(Tasks),
         op = "Enqueue" => Len(ts) = 1, Begin(op, ts)
  PROVE  CallInv'
<1>1. Len(ts) \in Nat /\ Rejected(ts) \subseteq Nat
  BY DEF Rejected, Indexes
<1>2. CASE ts = << >>
  <2>1. call' = [pc |-> "return", op |-> op, tasks |-> ts, next |-> 1, failed |-> {},
                 tries |-> 0, conn |-> "never", wrote |-> {}, report |-> "nil"]
    BY <1>2 DEF Begin, Report, NoCall
  <2>2. call' \in Calls
    BY <2>1 DEF Calls
  <2> QED BY <1>1, <1>2, <2>1, <2>2 DEF CallInv, ReportIsTruthful, Indexes
<1>3. CASE ts # << >> /\ Rejected(ts) # {}
  <2>1. call' = [pc |-> "return", op |-> op, tasks |-> ts, next |-> 1, failed |-> Rejected(ts),
                 tries |-> 0, conn |-> "never", wrote |-> {}, report |-> "invalid"]
    BY <1>3 DEF Begin, NoCall
  <2>2. call' \in Calls
    BY <1>1, <2>1 DEF Calls
  <2> QED BY <1>1, <2>1, <2>2 DEF CallInv, ReportIsTruthful, Indexes
<1>4. CASE ts # << >> /\ Rejected(ts) = {}
  <2>1. call' = [pc |-> "exec", op |-> op, tasks |-> ts, next |-> 1, failed |-> {},
                 tries |-> 0, conn |-> "never", wrote |-> {}, report |-> "none"]
    BY <1>4 DEF Begin, NoCall
  <2>2. call' \in Calls
    BY <2>1 DEF Calls
  <2>3. PipelineInv(call')
    BY <1>1, <1>4, <2>1 DEF PipelineInv
  <2> QED BY <1>1, <2>1, <2>2, <2>3 DEF CallInv, ReportIsTruthful, Indexes
<1> QED BY <1>2, <1>3, <1>4

\* Every step of a call, of the pipeline and of its caller keeps the report true.
LEMMA ProducerTruthful ==
  ASSUME CallInv,
         \/ \E t \in Tasks : Enqueue(t)
         \/ \E ts \in Batches : EnqueueBatch(ts)
         \/ XAdd \/ XAddRefused \/ ConnectionLost \/ NoConnection \/ CtxDone \/ Return
  PROVE  CallInv'
<1>0. /\ call \in Calls /\ call.tasks \in Seq(Tasks) /\ Len(call.tasks) \in Nat
      /\ call.next \in Nat /\ call.failed \subseteq Nat /\ call.wrote \subseteq Nat
      /\ NoCall \in Calls /\ call.tries \in Nat
  BY DEF CallInv, Calls, NoCall
<1>a. ASSUME NEW t \in Tasks, Enqueue(t) PROVE CallInv'
  <2>1. <<t>> \in Seq(Tasks) /\ Len(<<t>>) = 1
    OBVIOUS
  <2> QED BY <1>a, <2>1, BeginTruthful DEF Enqueue
<1>1. ASSUME NEW ts \in Batches, EnqueueBatch(ts) PROVE CallInv'
  <2>1. ts \in Seq(Tasks)
    BY ProducerAssumption
  <2> QED BY <1>1, <2>1, BeginTruthful DEF EnqueueBatch
<1>2. CASE XAdd
  <2> DEFINE c == [call EXCEPT !.conn = "had", !.wrote = @ \cup {call.next},
                               !.failed = @ \ {call.next}]
  <2>1. /\ c \in Calls /\ c.pc = call.pc /\ c.op = call.op /\ c.tasks = call.tasks
        /\ c.next = call.next /\ c.conn = "had"
        /\ c.wrote = call.wrote \cup {call.next} /\ c.failed = call.failed \ {call.next}
    BY <1>0 DEF Calls
  <2>2. call.pc = "exec" /\ call' = Advance(c)
    BY <1>2 DEF XAdd
  <2>3. /\ c.wrote \subseteq Indexes(c.tasks)
        /\ 1 .. c.next \subseteq c.wrote \cup c.failed
    BY <1>0, <2>1, <2>2 DEF CallInv, PipelineInv, Indexes
  <2> HIDE DEF c
  <2> QED BY <2>1, <2>2, <2>3, AdvanceTruthful
<1>3. CASE XAddRefused
  <2> DEFINE c == [call EXCEPT !.conn = "had", !.failed = @ \cup {call.next}]
  <2>1. /\ c \in Calls /\ c.pc = call.pc /\ c.op = call.op /\ c.tasks = call.tasks
        /\ c.next = call.next /\ c.conn = "had"
        /\ c.failed = call.failed \cup {call.next} /\ c.wrote = call.wrote
    BY <1>0 DEF Calls
  <2>2. call.pc = "exec" /\ call' = Advance(c)
    BY <1>3 DEF XAddRefused
  <2>3. /\ c.wrote \subseteq Indexes(c.tasks)
        /\ 1 .. c.next \subseteq c.wrote \cup c.failed
    BY <1>0, <2>1, <2>2 DEF CallInv, PipelineInv, Indexes
  <2> HIDE DEF c
  <2> QED BY <2>1, <2>2, <2>3, AdvanceTruthful
<1>4. CASE ConnectionLost
  <2>1. PICK n \in 0 .. call.next - 1 :
          call' = Retry([call EXCEPT !.conn = "had",
                           !.failed = (@ \cap 1 .. n) \cup (n + 1 .. Len(call.tasks))])
    BY <1>4 DEF ConnectionLost
  <2> DEFINE f == (call.failed \cap 1 .. n) \cup (n + 1 .. Len(call.tasks))
             c == [call EXCEPT !.conn = "had", !.failed = f]
  <2>2. call.pc = "exec" /\ call' = Retry(c)
    BY <1>4, <2>1 DEF ConnectionLost
  <2>3. f \subseteq Nat
    BY <1>0
  <2>4. /\ c \in Calls /\ c.pc = call.pc /\ c.op = call.op /\ c.tasks = call.tasks
        /\ c.conn = "had" /\ c.failed = f /\ c.wrote = call.wrote
    BY <1>0, <2>3 DEF Calls
  <2>5. 1 .. n \subseteq call.wrote \cup call.failed
    BY <1>0, <2>2 DEF CallInv, PipelineInv
  <2>6. Indexes(call.tasks) \subseteq call.wrote \cup f
    BY <1>0, <2>5 DEF Indexes
  <2> HIDE DEF c, f
  <2> QED BY <2>2, <2>4, <2>6, RetryTruthful
<1>b. CASE NoConnection
  <2> DEFINE c == IF call.op = "Enqueue" THEN [call EXCEPT !.failed = {1}] ELSE call
  <2>1. call.pc = "exec" /\ call.next = 1 /\ call' = Retry(c)
    BY <1>b DEF NoConnection
  <2>2. /\ c \in Calls /\ c.pc = call.pc /\ c.op = call.op /\ c.tasks = call.tasks
        /\ c.conn = call.conn /\ c.wrote = call.wrote
        /\ call.op = "Enqueue" => c.failed = {1}
        /\ call.op # "Enqueue" => c.failed = call.failed
    BY <1>0 DEF Calls
  <2>3. PipelineInv(call) /\ (call.op = "Enqueue" => Len(call.tasks) = 1)
    BY <2>1 DEF CallInv
  <2>a. call.op = "Enqueue" => Indexes(call.tasks) \subseteq {1}
    <3>1. \A n : n = 1 => 1 .. n \subseteq {1}
      OBVIOUS
    <3> QED BY <2>3, <3>1 DEF Indexes
  <2>4. /\ c.conn = "had" => Indexes(c.tasks) \subseteq c.wrote \cup c.failed
        /\ c.conn = "never" => c.wrote = {} /\ (c.op = "EnqueueBatch" => c.failed = {})
        /\ c.op = "Enqueue" => Indexes(c.tasks) \subseteq c.wrote \cup c.failed
    <3>1. CASE call.op = "Enqueue"
      BY <2>2, <2>3, <2>a, <3>1 DEF PipelineInv
    <3>2. CASE call.op # "Enqueue"
      BY <2>1, <2>2, <2>3, <3>2 DEF PipelineInv
    <3> QED BY <3>1, <3>2
  <2> HIDE DEF c
  <2> QED BY <2>1, <2>2, <2>4, RetryTruthful
<1>5. CASE CtxDone
  <2>1. call' = [call EXCEPT !.pc = "return", !.report = "ctx"]
    BY <1>5 DEF CtxDone
  <2>2. /\ call' \in Calls /\ call'.pc = "return" /\ call'.report = "ctx"
        /\ call'.wrote = call.wrote /\ call'.tasks = call.tasks
    BY <1>0, <2>1 DEF Calls
  <2> QED BY <2>2 DEF CallInv, ReportIsTruthful
<1>6. CASE Return
  BY <1>0, <1>6 DEF Return, NoCall, CallInv, ReportIsTruthful, Indexes
<1> QED BY <1>a, <1>1, <1>2, <1>3, <1>4, <1>b, <1>5, <1>6

-------------------------------------------------------------------------------
(* The streams and their groups *)

LogInv ==
  /\ log \in Seq(Tasks \cup Garbage)
  /\ base \in 0 .. Len(log)
  /\ budget \in 0 .. MaxFaults
  /\ done \subseteq Entries /\ gap \subseteq Entries

\* No group is ahead of its stream, and the PEL is what a group delivered.
GroupInv ==
  /\ position \in [1 .. Streams -> Nat \cup {NoGroup}]
  /\ \A s \in 1 .. Streams : position[s] <= Len(log)
  /\ idle \subseteq pel /\ pel \subseteq Stored
  /\ \A m \in pel : HasGroup(Stream(m)) /\ m <= position[Stream(m)]

\* What makes SkippedOnlyInGap inductive: whoever creates the missing group of a
\* stream skips only entries that were written without one.
SkipInv ==
  /\ SkippedOnlyInGap
  /\ \A m \in Stored : ~HasGroup(Stream(m)) => m \in gap

Claims == [k : 1 .. Streams, got : SUBSET Nat]

PodInv ==
  /\ scripts \in BOOLEAN
  /\ poll \in [Pods -> PollStates]
  /\ claim \in [Pods -> Claims]
  /\ hand \in [Pods -> SUBSET Nat]
  /\ \A p \in Pods : \A m \in hand[p] \cup claim[p].got : m \in Entries /\ Parsable(m)

StreamInv == LogInv /\ GroupInv /\ SkipInv /\ PodInv

\* The stream of an entry is one of the streams.
LEMMA StreamType ==
  ASSUME LogInv, NEW m \in Entries
  PROVE  Stream(m) \in 1 .. Streams /\ m \in Nat /\ m <= Len(log) /\ Len(log) \in Nat
<1>1. Len(log) \in Nat /\ log[m] \in Tasks \cup Garbage
  BY DEF LogInv, Entries
<1> QED BY <1>1, GroupAssumption DEF Stream, Entries

\* Init establishes the invariant.
LEMMA StreamInit == Init => StreamInv
<1> SUFFICES ASSUME Init PROVE StreamInv
  OBVIOUS
<1> USE GroupAssumption, ProducerAssumption DEF Init, ProducerInit, NoGroup
<1>1. Entries = {} /\ Stored = {} /\ Len(log) = 0
  BY DEF Entries, Stored
<1>2. LogInv
  BY <1>1 DEF LogInv
<1>3. GroupInv
  BY <1>1 DEF GroupInv
<1>4. SkipInv
  BY <1>1 DEF SkipInv, SkippedOnlyInGap
<1>5. PodInv
  <2>1. 1 \in 1 .. Streams
    OBVIOUS
  <2>2. poll \in [Pods -> PollStates]
    BY <2>1 DEF PollStates
  <2>3. claim \in [Pods -> Claims] /\ \A p \in Pods : claim[p].got = {}
    BY <2>1 DEF Claims, NoClaim
  <2> QED BY <2>2, <2>3 DEF PodInv
<1> QED BY <1>2, <1>3, <1>4, <1>5 DEF StreamInv

\* A producer, or another writer, adds an entry: above every position, and in the
\* gap if its stream has no group (XAdd, WriteGarbage).
LEMMA AppendEntry ==
  ASSUME StreamInv, NEW e \in Tasks \cup Garbage,
         log' = Append(log, e), Note(StreamOf[e]), budget' = budget,
         UNCHANGED <<groupVars, scripts, podVars, done>>
  PROVE  StreamInv'
<1> USE DEF groupVars, podVars
<1>0. /\ LogInv /\ GroupInv /\ SkipInv /\ PodInv
      /\ base' = base /\ position' = position /\ pel' = pel /\ idle' = idle
      /\ scripts' = scripts /\ poll' = poll /\ claim' = claim /\ hand' = hand /\ done' = done
  BY DEF StreamInv
<1>1. /\ Len(log) \in Nat /\ Len(log') = Len(log) + 1 /\ log' \in Seq(Tasks \cup Garbage)
      /\ log'[Len(log) + 1] = e /\ \A m \in 1 .. Len(log) : log'[m] = log[m]
  BY <1>0 DEF LogInv
<1>n. PICK new \in Nat : new = Len(log) + 1
  BY <1>1
<1>2. Entries' = Entries \cup {new} /\ Entries = 1 .. Len(log) /\ new \notin Entries
  BY <1>1, <1>n DEF Entries
<1>3. base \in Nat /\ base <= Len(log)
  BY <1>0, <1>1 DEF LogInv
<1>4. Stored' = Stored \cup {new} /\ Stored \subseteq Entries
  BY <1>0, <1>1, <1>2, <1>3, <1>n DEF Stored
<1>5. /\ \A m \in Entries : Stream(m)' = Stream(m) /\ (Parsable(m)' <=> Parsable(m))
      /\ Stream(new)' = StreamOf[e] /\ StreamOf[e] \in 1 .. Streams
  BY <1>1, <1>2, <1>n, GroupAssumption DEF Stream, Parsable
<1>6. \A s : HasGroup(s)' <=> HasGroup(s)
  BY <1>0 DEF HasGroup, NoGroup
<1>7. gap \subseteq gap' /\ gap' \subseteq gap \cup {new} /\ (~HasGroup(StreamOf[e]) => new \in gap')
  BY <1>n DEF Note
<1>8. LogInv'
  <2>1. base \in 0 .. Len(log')
    BY <1>1, <1>3
  <2>2. done \subseteq Entries' /\ gap' \subseteq Entries'
    BY <1>0, <1>2, <1>7 DEF LogInv
  <2>3. budget' \in 0 .. MaxFaults
    BY <1>0 DEF LogInv
  <2> QED BY <1>0, <1>1, <2>1, <2>2, <2>3 DEF LogInv
<1>9. GroupInv'
  <2>1. \A s \in 1 .. Streams : position[s] <= Len(log')
    BY <1>0, <1>1 DEF GroupInv, NoGroup
  <2>2. \A m \in pel : HasGroup(Stream(m))' /\ m <= position[Stream(m)']
    BY <1>0, <1>4, <1>5, <1>6 DEF GroupInv
  <2> QED BY <1>0, <1>4, <2>1, <2>2 DEF GroupInv
<1>10. SkipInv'
  <2>1. ASSUME NEW m \in Stored'
        PROVE  /\ HasGroup(Stream(m)') /\ m <= position[Stream(m)'] => m \in pel \cup done \cup gap'
               /\ ~HasGroup(Stream(m)') => m \in gap'
    <3>1. CASE m = new
      <4>1. HasGroup(StreamOf[e]) => ~ (new <= position[StreamOf[e]])
        BY <1>0, <1>1, <1>5, <1>n DEF GroupInv, HasGroup, NoGroup
      <4> QED BY <3>1, <4>1, <1>5, <1>7
    <3>2. CASE m \in Stored
      BY <3>2, <1>0, <1>4, <1>5, <1>7 DEF SkipInv, SkippedOnlyInGap
    <3> QED BY <1>4, <2>1, <3>1, <3>2
  <2> QED BY <1>0, <1>6, <2>1 DEF SkipInv, SkippedOnlyInGap, HasGroup
<1>11. PodInv'
  <2>1. \A p \in Pods : \A m \in hand[p] \cup claim[p].got : m \in Entries' /\ Parsable(m)'
    BY <1>0, <1>2, <1>5 DEF PodInv
  <2> QED BY <1>0, <2>1 DEF PodInv
<1> QED BY <1>8, <1>9, <1>10, <1>11 DEF StreamInv

\* A failure uses up the budget; nothing else of the log changes.
LEMMA LogKept ==
  ASSUME LogInv, UNCHANGED <<log, base, gap>>, done' \subseteq Entries,
         Fault \/ Spend(1) \/ UNCHANGED budget
  PROVE  LogInv'
<1>1. budget' \in 0 .. MaxFaults
  BY ProducerAssumption, GroupAssumption DEF LogInv, Fault, Spend
<1> QED BY <1>1 DEF LogInv, Entries

\* "$" is at the end of the stream.
LEMMA LastIdBound ==
  ASSUME LogInv, NEW s \in 1 .. Streams
  PROVE  /\ LastId(s) \in Nat /\ LastId(s) <= Len(log)
         /\ \A m \in In(s) : m <= LastId(s)
<1>1. Len(log) \in Nat /\ In(s) \in SUBSET (1 .. Len(log)) /\ base \in 0 .. Len(log)
  BY DEF LogInv, In, Stored, Entries
<1>2. CASE In(s) = {}
  BY <1>1, <1>2 DEF LastId
<1>3. CASE In(s) # {}
  <2>1. \E m \in In(s) : \A o \in In(s) : o <= m
    BY <1>1, <1>3, LargestId
  <2>2. LastId(s) \in In(s) /\ \A o \in In(s) : o <= LastId(s)
    BY <1>3, <2>1 DEF LastId
  <2> QED BY <1>1, <2>2
<1> QED BY <1>2, <1>3

\* A pod creates the group of a stream, or finds it there (Consume, pollLoop).
LEMMA GroupEnsured ==
  ASSUME StreamInv, NEW k \in 1 .. Streams, ensureConsumerGroup(k),
         UNCHANGED <<log, base, pel, idle, done, gap>>
  PROVE  GroupInv' /\ SkipInv'
<1>0. LogInv /\ GroupInv /\ SkipInv
  BY DEF StreamInv
<1>1. /\ Stored' = Stored /\ \A m \in Stored : m \in Entries /\ Stream(m)' = Stream(m)
      /\ \A m \in Stored : Stream(m) \in 1 .. Streams /\ m \in Nat
  BY <1>0, StreamType DEF Stored, Stream, Entries
<1>2. CASE HasGroup(k)
  <2>1. position' = position
    BY <1>0, <1>2 DEF ensureConsumerGroup, GroupInv
  <2>2. \A m \in Stored : HasGroup(Stream(m))' <=> HasGroup(Stream(m))
    BY <1>1, <2>1 DEF HasGroup, NoGroup
  <2>3. GroupInv'
    BY <1>0, <1>1, <2>1, <2>2 DEF GroupInv
  <2>4. SkipInv'
    BY <1>0, <1>1, <2>1, <2>2 DEF SkipInv, SkippedOnlyInGap
  <2> QED BY <2>3, <2>4
<1>3. CASE ~HasGroup(k)
  <2> DEFINE l == LastId(k)
  <2>1. l \in Nat /\ l <= Len(log)
    BY <1>0, LastIdBound
  <2> HIDE DEF l
  <2>2. /\ position' \in [1 .. Streams -> Nat \cup {NoGroup}] /\ position'[k] = l
        /\ \A s \in 1 .. Streams : s # k => position'[s] = position[s]
    <3>1. position' = [position EXCEPT ![k] = l]
      BY <1>3 DEF ensureConsumerGroup, l
    <3> QED BY <1>0, <2>1, <3>1 DEF GroupInv
  <2>3. \A m \in pel : Stream(m) # k /\ m \in Stored
    BY <1>0, <1>3 DEF GroupInv
  <2>4. GroupInv'
    <3>1. \A s \in 1 .. Streams : position'[s] <= Len(log')
      BY <1>0, <2>1, <2>2 DEF GroupInv
    <3>2. \A m \in pel : HasGroup(Stream(m))' /\ m <= position'[Stream(m)']
      BY <1>0, <1>1, <2>2, <2>3 DEF GroupInv, HasGroup
    <3> QED BY <1>0, <1>1, <2>2, <3>1, <3>2 DEF GroupInv
  <2>5. ASSUME NEW m \in Stored
        PROVE  /\ HasGroup(Stream(m))' /\ m <= position'[Stream(m)] => m \in pel \cup done \cup gap
               /\ ~HasGroup(Stream(m))' => m \in gap
    <3>1. CASE Stream(m) = k
      BY <1>0, <1>3, <3>1 DEF SkipInv
    <3>2. CASE Stream(m) # k
      <4>1. position'[Stream(m)] = position[Stream(m)] /\ (HasGroup(Stream(m))' <=> HasGroup(Stream(m)))
        BY <1>1, <2>2, <3>2 DEF HasGroup, NoGroup
      <4> QED BY <1>0, <4>1 DEF SkipInv, SkippedOnlyInGap
    <3> QED BY <3>1, <3>2
  <2>6. SkipInv'
    BY <1>1, <2>5 DEF SkipInv, SkippedOnlyInGap
  <2> QED BY <2>4, <2>6
<1> QED BY <1>2, <1>3

\* The groups and the PEL are as they were, or entries that are handled left it.
LEMMA GroupsKept ==
  ASSUME StreamInv, UNCHANGED <<log, base, position, gap>>,
         idle' \subseteq pel', pel' \subseteq pel, done \subseteq done', pel \subseteq pel' \cup done'
  PROVE  GroupInv' /\ SkipInv'
<1>0. LogInv /\ GroupInv /\ SkipInv
  BY DEF StreamInv
<1>1. /\ Stored' = Stored /\ \A m \in Stored : Stream(m)' = Stream(m)
      /\ \A m \in Stored : HasGroup(Stream(m))' <=> HasGroup(Stream(m))
  BY DEF Stored, Stream, Entries, HasGroup
<1>2. GroupInv'
  BY <1>0, <1>1 DEF GroupInv
<1>3. SkipInv'
  BY <1>0, <1>1 DEF SkipInv, SkippedOnlyInGap
<1> QED BY <1>2, <1>3

\* Pods and their memory: each action keeps what is in memory parsable.
LEMMA PodsKept ==
  ASSUME PodInv, UNCHANGED log, scripts' \in BOOLEAN, poll' \in [Pods -> PollStates],
         claim' \in [Pods -> Claims], hand' \in [Pods -> SUBSET Nat],
         \A p \in Pods : \A m \in hand'[p] \cup claim'[p].got : m \in Entries /\ Parsable(m)
  PROVE  PodInv'
BY DEF PodInv, Entries, Parsable

\* What is older than one of the n oldest is one of them.
LEMMA OldestClosed ==
  ASSUME NEW N \in Nat, NEW ids \in SUBSET (1 .. N), NEW n \in Nat,
         NEW m \in ids, NEW x \in Oldest(n, ids), m <= x
  PROVE  m \in Oldest(n, ids)
<1> DEFINE A == {o \in ids : o < m}
           B == {o \in ids : o < x}
<1>1. IsFiniteSet(1 .. N)
  BY FS_Interval
<1>2. B \subseteq 1 .. N /\ A \subseteq B
  <2>1. x \in ids
    BY DEF Oldest
  <2>2. \A o \in ids : o < m => o < x
    BY <2>1
  <2> QED BY <2>2
<1>3. IsFiniteSet(B)
  BY <1>1, <1>2, FS_Subset
<1>4. IsFiniteSet(A) /\ Cardinality(A) <= Cardinality(B)
  BY <1>2, <1>3, FS_Subset
<1>5. Cardinality(A) \in Nat /\ Cardinality(B) \in Nat
  BY <1>3, <1>4, FS_CardinalityType
<1>6. Cardinality(B) < n
  BY DEF Oldest
<1>7. Cardinality(A) < n
  BY <1>4, <1>5, <1>6
<1> QED BY <1>7 DEF Oldest

\* One XREADGROUP delivers everything between a group's old and new position.
LEMMA Reading ==
  ASSUME StreamInv, position' = PositionsRead, pel' = pel \cup Delivered,
         UNCHANGED <<log, base, idle, done, gap>>
  PROVE  GroupInv' /\ SkipInv' /\ Delivered \subseteq Stored
<1> DEFINE old(s) == Oldest(ReadCount, Unread(s))
<1>0. LogInv /\ GroupInv /\ SkipInv /\ Len(log) \in Nat
  BY DEF StreamInv, LogInv
<1>1. /\ Stored' = Stored /\ \A m \in Stored : m \in Entries /\ Stream(m)' = Stream(m)
      /\ \A m \in Stored : Stream(m) \in 1 .. Streams /\ m \in Nat /\ m <= Len(log)
  BY <1>0, StreamType DEF Stored, Stream, Entries
<1>2. \A s \in 1 .. Streams : /\ old(s) \subseteq Unread(s)
                              /\ Unread(s) \subseteq Stored
                              /\ \A m \in Unread(s) : /\ Stream(m) = s /\ HasGroup(s)
                                                      /\ m > position[s]
  BY DEF Oldest, Unread, In
<1>3. Delivered \subseteq Stored
  BY <1>2 DEF Delivered
<1>4. ASSUME NEW s \in 1 .. Streams
      PROVE  /\ position'[s] \in Nat \cup {NoGroup} /\ position'[s] <= Len(log)
             /\ HasGroup(s)' <=> HasGroup(s)
             /\ \A m \in old(s) : m <= position'[s]
             /\ HasGroup(s) => position[s] <= position'[s]
             /\ \A m \in Unread(s) : m <= position'[s] => m \in Delivered
  <2> DEFINE read == {m \in Delivered : Stream(m) = s}
  <2>1. read = old(s)
    BY <1>2 DEF Delivered
  <2>2. position'[s] = IF read = {} THEN position[s]
                       ELSE CHOOSE m \in read : \A o \in read : o <= m
    BY DEF PositionsRead
  <2> HIDE DEF read
  <2>3. position[s] \in Nat \cup {NoGroup} /\ position[s] <= Len(log)
    BY <1>0 DEF GroupInv
  <2>4. old(s) \in SUBSET (1 .. Len(log)) /\ Unread(s) \in SUBSET (1 .. Len(log))
    BY <1>1, <1>2 DEF Entries
  <2>5. CASE read = {}
    <3>1. position'[s] = position[s]
      BY <2>2, <2>5
    <3>2. \A m \in Unread(s) : ~ (m <= position'[s])
      BY <1>2, <2>3, <2>4, <3>1 DEF HasGroup, NoGroup
    <3> QED BY <2>1, <2>3, <2>5, <3>1, <3>2 DEF HasGroup, NoGroup
  <2>6. CASE read # {}
    <3>1. \E m \in read : \A o \in read : o <= m
      BY <1>0, <2>1, <2>4, <2>6, LargestId
    <3>2. position'[s] \in read /\ \A o \in read : o <= position'[s]
      BY <2>2, <2>6, <3>1
    <3>3. PICK x \in old(s) : x = position'[s]
      BY <2>1, <3>2
    <3>4. x \in Nat /\ x <= Len(log) /\ x > position[s] /\ HasGroup(s)
      BY <1>2, <2>4, <3>3
    <3>5. ASSUME NEW m \in Unread(s), m <= x PROVE m \in Delivered
      <4>1. m \in old(s)
        BY <1>0, <2>4, <3>3, <3>5, OldestClosed, GroupAssumption
      <4> QED BY <4>1 DEF Delivered
    <3>6. HasGroup(s)'
      BY <3>3, <3>4 DEF HasGroup, NoGroup
    <3> QED BY <2>1, <2>3, <3>2, <3>3, <3>4, <3>5, <3>6 DEF HasGroup, NoGroup
  <2> QED BY <2>5, <2>6
<1>5. position' \in [1 .. Streams -> Nat \cup {NoGroup}]
  BY <1>4 DEF PositionsRead
<1>6. ASSUME NEW m \in pel' PROVE m \in Stored /\ HasGroup(Stream(m))' /\ m <= position'[Stream(m)]
  <2>1. CASE m \in pel
    <3>1. m \in Stored /\ HasGroup(Stream(m)) /\ m <= position[Stream(m)] /\ m \in Nat
      BY <1>0, <1>1, <2>1 DEF GroupInv
    <3>2. position[Stream(m)] \in Nat /\ position'[Stream(m)] \in Nat
      BY <1>0, <1>1, <1>4, <3>1 DEF GroupInv, HasGroup
    <3> QED BY <1>1, <1>4, <3>1, <3>2 DEF HasGroup
  <2>2. CASE m \in Delivered
    <3>1. PICK s \in 1 .. Streams : m \in old(s)
      BY <2>2 DEF Delivered
    <3>2. Stream(m) = s /\ HasGroup(s) /\ m \in Stored
      BY <1>2, <3>1
    <3> QED BY <1>1, <1>4, <3>1, <3>2 DEF HasGroup
  <2> QED BY <1>6, <2>1, <2>2
<1>7. GroupInv'
  BY <1>0, <1>1, <1>4, <1>5, <1>6 DEF GroupInv, HasGroup
<1>8. ASSUME NEW m \in Stored
      PROVE  /\ HasGroup(Stream(m)) /\ m <= position'[Stream(m)] => m \in pel' \cup done \cup gap
             /\ ~HasGroup(Stream(m)) => m \in gap
  <2>1. CASE HasGroup(Stream(m)) /\ m > position[Stream(m)]
    <3>1. m \in Unread(Stream(m))
      BY <2>1 DEF Unread, In
    <3> QED BY <1>1, <1>4, <2>1, <3>1
  <2>2. CASE HasGroup(Stream(m)) /\ ~ (m > position[Stream(m)])
    <3>1. m <= position[Stream(m)]
      BY <1>0, <1>1, <2>2 DEF GroupInv, HasGroup
    <3> QED BY <1>0, <2>2, <3>1 DEF SkipInv, SkippedOnlyInGap
  <2>3. CASE ~HasGroup(Stream(m))
    BY <1>0, <2>3 DEF SkipInv
  <2> QED BY <2>1, <2>2, <2>3
<1>9. SkipInv'
  BY <1>1, <1>4, <1>8 DEF SkipInv, SkippedOnlyInGap, HasGroup
<1> QED BY <1>3, <1>7, <1>9

\* The producers' steps, and those of other writers.
LEMMA WritersPreserve ==
  ASSUME StreamInv, CallInv, Produce \/ \E g \in Garbage : WriteGarbage(g)
  PROVE  StreamInv'
<1>1. CASE XAdd /\ Note(StreamOf[call.tasks[call.next]]) /\ UNCHANGED <<groupVars, scripts, podVars, done>>
  <2>1. call.tasks \in Seq(Tasks) /\ call.next \in 1 .. Len(call.tasks)
    BY <1>1 DEF XAdd, CallInv, Calls, PipelineInv
  <2>2. call.tasks[call.next] \in Tasks \cup Garbage
    BY <2>1
  <2> QED BY <1>1, <2>2, AppendEntry DEF XAdd
<1>2. ASSUME NEW g \in Garbage, WriteGarbage(g) PROVE StreamInv'
  BY <1>2, AppendEntry DEF WriteGarbage
<1>3. CASE /\ \/ (\E t \in Tasks : Enqueue(t)) \/ (\E ts \in Batches : EnqueueBatch(ts))
              \/ XAddRefused \/ ConnectionLost \/ NoConnection \/ CtxDone \/ Return
           /\ UNCHANGED <<gap, groupVars, scripts, podVars, done>>
  <2>1. UNCHANGED <<log, gap, base, position, pel, idle, scripts, poll, claim, hand, done>>
        /\ (Spend(1) \/ UNCHANGED budget)
    BY <1>3 DEF Enqueue, EnqueueBatch, Begin, XAddRefused, ConnectionLost, NoConnection, CtxDone,
                Return, groupVars, podVars
  <2>2. LogInv'
    BY <2>1, LogKept DEF StreamInv, LogInv
  <2>3. GroupInv' /\ SkipInv'
    BY <2>1, GroupsKept DEF StreamInv, GroupInv
  <2>4. PodInv'
    BY <2>1, PodsKept DEF StreamInv, PodInv
  <2> QED BY <2>2, <2>3, <2>4 DEF StreamInv
<1> QED BY <1>1, <1>2, <1>3 DEF Produce

\* The loss of a pod's memory is well typed.
LEMMA DownType ==
  ASSUME PodInv, NEW p \in Pods, Down(p), UNCHANGED <<log, scripts>>
  PROVE  PodInv'
<1>1. 1 \in 1 .. Streams
  BY GroupAssumption
<1>2. poll' \in [Pods -> PollStates]
  BY <1>1 DEF PodInv, Down, PollStates
<1>3. /\ claim' \in [Pods -> Claims]
      /\ \A q \in Pods : claim'[q].got \subseteq claim[q].got
  BY <1>1 DEF PodInv, Down, Claims, NoClaim
<1>4. /\ hand' \in [Pods -> SUBSET Nat]
      /\ \A q \in Pods : hand'[q] \subseteq hand[q]
  BY DEF PodInv, Down
<1> QED BY <1>2, <1>3, <1>4, PodsKept DEF PodInv

\* The next stream, or the first read, is well typed.
LEMMA NextStreamType ==
  ASSUME PodInv, NEW p \in Pods, NextStream(p), UNCHANGED <<log, scripts, claim, hand>>
  PROVE  PodInv'
<1>1. poll[p] \in PollStates /\ 1 \in 1 .. Streams
  BY GroupAssumption DEF PodInv
<1>2. CASE poll[p].k = Streams
  <2>1. poll' = [poll EXCEPT ![p] = [pc |-> "read", k |-> 1]]
    BY <1>2 DEF NextStream
  <2>2. poll' \in [Pods -> PollStates]
    BY <1>1, <2>1 DEF PodInv, PollStates
  <2> QED BY <2>2, PodsKept DEF PodInv
<1>3. CASE poll[p].k # Streams
  <2>1. PICK n \in 1 .. Streams : n = poll[p].k + 1
    BY <1>1, <1>3, GroupAssumption DEF PollStates
  <2>2. poll' = [poll EXCEPT ![p] = [pc |-> poll[p].pc, k |-> n]]
    BY <1>3, <2>1 DEF NextStream
  <2>3. [pc |-> poll[p].pc, k |-> n] \in PollStates
    BY <1>1 DEF PollStates
  <2>4. poll' \in [Pods -> PollStates]
    BY <2>2, <2>3 DEF PodInv
  <2> QED BY <2>4, PodsKept DEF PodInv
<1> QED BY <1>2, <1>3

\* The steps of a pod's start, its pollLoop and its ClaimStale.
LEMMA PodPreserves ==
  ASSUME StreamInv, NEW p \in Pods, Start(p) \/ PollLoop(p) \/ ClaimStale(p) \/ Crash(p)
  PROVE  StreamInv'
<1> USE DEF producerVars, groupVars, podVars
<1>0. /\ LogInv /\ GroupInv /\ SkipInv /\ PodInv /\ poll[p] \in PollStates
      /\ claim[p] \in Claims /\ hand[p] \in SUBSET Nat /\ 1 \in 1 .. Streams
  <2>1. LogInv /\ GroupInv /\ SkipInv /\ PodInv
    BY DEF StreamInv
  <2>2. 1 \in 1 .. Streams
    BY GroupAssumption
  <2> QED BY <2>1, <2>2 DEF PodInv
<1>k. poll[p].k \in 1 .. Streams /\ claim[p].k \in 1 .. Streams
  BY <1>0 DEF PollStates, Claims
<1>1. CASE Boot(p)
  <2>1. poll' \in [Pods -> PollStates]
    BY <1>0, <1>1 DEF Boot, PodInv, PollStates
  <2>2. PodInv'
    BY <1>0, <1>1, <2>1, PodsKept DEF Boot, PodInv
  <2> QED BY <1>0, <1>1, <2>2, LogKept, GroupsKept DEF Boot, StreamInv, LogInv, GroupInv
<1>2. CASE Consume(p)
  <2>1. CASE ensureConsumerGroup(poll[p].k) /\ NextStream(p) /\ UNCHANGED <<budget, claim, hand>>
    <3>1. GroupInv' /\ SkipInv'
      BY <1>k, <1>2, <2>1, GroupEnsured DEF Consume
    <3>2. PodInv'
      BY <1>0, <1>2, <2>1, NextStreamType DEF Consume
    <3>3. LogInv'
      BY <1>0, <1>2, <2>1, LogKept DEF Consume, LogInv
    <3> QED BY <3>1, <3>2, <3>3 DEF StreamInv
  <2>2. CASE Fault /\ Down(p) /\ UNCHANGED position
    <3>1. GroupInv' /\ SkipInv'
      BY <1>0, <1>2, <2>2, GroupsKept DEF Consume, GroupInv
    <3>2. PodInv'
      BY <1>0, <1>2, <2>2, DownType DEF Consume
    <3>3. LogInv'
      BY <1>0, <1>2, <2>2, LogKept DEF Consume, LogInv
    <3> QED BY <3>1, <3>2, <3>3 DEF StreamInv
  <2> QED BY <1>2, <2>1, <2>2 DEF Consume
<1>3. CASE ReadGroup(p)
  <2>1. GroupInv' /\ SkipInv' /\ Delivered \subseteq Stored
    BY <1>3, Reading DEF ReadGroup
  <2>2. LogInv'
    BY <1>0, <1>3, LogKept DEF ReadGroup, LogInv
  <2>3. /\ hand' \in [Pods -> SUBSET Nat]
        /\ \A q \in Pods : \A m \in hand'[q] : m \in Entries /\ Parsable(m)
    <3>1. Delivered \subseteq Entries
      BY <2>1 DEF Stored
    <3>2. Entries \subseteq Nat
      BY DEF Entries
    <3> QED BY <1>0, <1>3, <3>1, <3>2 DEF ReadGroup, PodInv
  <2>4. PodInv'
    BY <1>0, <1>3, <2>3, PodsKept DEF ReadGroup, PodInv
  <2> QED BY <2>1, <2>2, <2>4 DEF StreamInv
<1>4. CASE NoGroupError(p)
  <2>1. poll' \in [Pods -> PollStates]
    BY <1>0, <1>4 DEF NoGroupError, PodInv, PollStates
  <2>2. PodInv'
    BY <1>0, <1>4, <2>1, PodsKept DEF NoGroupError, PodInv
  <2> QED BY <1>0, <1>4, <2>2, LogKept, GroupsKept DEF NoGroupError, StreamInv, LogInv, GroupInv
<1>5. CASE Recreate(p)
  <2>1. PodInv'
    BY <1>0, <1>5, NextStreamType DEF Recreate
  <2>2. LogInv'
    BY <1>0, <1>5, LogKept DEF Recreate, LogInv
  <2>3. CASE ensureConsumerGroup(poll[p].k)
    BY <1>k, <1>5, <2>1, <2>2, <2>3, GroupEnsured DEF Recreate, StreamInv
  <2>4. CASE UNCHANGED position
    BY <1>0, <1>5, <2>1, <2>2, <2>4, GroupsKept DEF Recreate, StreamInv, GroupInv
  <2> QED BY <1>5, <2>3, <2>4 DEF Recreate
<1>6. CASE ClaimStep(p)
  <2> DEFINE new == {m \in Claimable(claim[p].k) : Parsable(m)}
             got == claim[p].got \cup new
  <2>1. /\ UNCHANGED <<log, base, position, pel, done, gap, budget, scripts, poll>>
        /\ idle' \subseteq idle
    BY <1>6 DEF ClaimStep
  <2>2. LogInv' /\ GroupInv' /\ SkipInv'
    BY <1>0, <2>1, LogKept, GroupsKept DEF LogInv, GroupInv
  <2>3. new \subseteq Entries /\ Entries \subseteq Nat
    <3>1. Entries \subseteq Nat
      BY DEF Entries
    <3>2. Claimable(claim[p].k) \subseteq idle
      BY DEF Claimable, Oldest
    <3> QED BY <1>0, <3>1, <3>2 DEF GroupInv, Stored
  <2>4. got \subseteq Nat /\ \A m \in got : m \in Entries /\ Parsable(m)
    BY <1>0, <2>3 DEF PodInv, Claims
  <2>5. CASE /\ claim[p].k < Streams
             /\ claim' = [claim EXCEPT ![p] = [k |-> claim[p].k + 1, got |-> got]]
             /\ UNCHANGED hand
    <3>1. claim[p].k + 1 \in 1 .. Streams
      BY <1>k, <2>5, GroupAssumption
    <3>2. [k |-> claim[p].k + 1, got |-> got] \in Claims
      BY <2>4, <3>1 DEF Claims
    <3>3. /\ claim' \in [Pods -> Claims] /\ claim'[p].got = got
          /\ \A q \in Pods : q # p => claim'[q] = claim[q]
      BY <1>0, <2>5, <3>2 DEF PodInv
    <3>4. PodInv'
      BY <1>0, <2>1, <2>4, <2>5, <3>3, PodsKept DEF PodInv
    <3> QED BY <2>2, <3>4 DEF StreamInv
  <2>6. CASE /\ claim' = [claim EXCEPT ![p] = NoClaim]
             /\ hand' = [hand EXCEPT ![p] = @ \cup got]
    <3>1. /\ claim' \in [Pods -> Claims] /\ claim'[p].got = {}
          /\ \A q \in Pods : q # p => claim'[q] = claim[q]
      BY <1>0, <2>6 DEF PodInv, Claims, NoClaim
    <3>2. /\ hand' \in [Pods -> SUBSET Nat] /\ hand'[p] = hand[p] \cup got
          /\ \A q \in Pods : q # p => hand'[q] = hand[q]
      BY <1>0, <2>4, <2>6 DEF PodInv
    <3>3. PodInv'
      BY <1>0, <2>1, <2>4, <3>1, <3>2, PodsKept DEF PodInv
    <3> QED BY <2>2, <3>3 DEF StreamInv
  <2> QED BY <1>6, <2>5, <2>6 DEF ClaimStep
<1>7. CASE ClaimError(p)
  <2>1. /\ claim' \in [Pods -> Claims]
        /\ \A q \in Pods : claim'[q].got \subseteq claim[q].got
    BY <1>0, <1>7 DEF ClaimError, PodInv, Claims, NoClaim
  <2>2. PodInv'
    BY <1>0, <1>7, <2>1, PodsKept DEF ClaimError, PodInv
  <2> QED BY <1>0, <1>7, <2>2, LogKept, GroupsKept DEF ClaimError, StreamInv, LogInv, GroupInv
<1>8. CASE Crash(p)
  <2>1. PodInv'
    BY <1>0, <1>8, DownType DEF Crash
  <2> QED BY <1>0, <1>8, <2>1, LogKept, GroupsKept DEF Crash, StreamInv, LogInv, GroupInv
<1> QED BY <1>1, <1>2, <1>3, <1>4, <1>5, <1>6, <1>7, <1>8 DEF Start, PollLoop, ClaimStale

\* A worker handles or nacks a task: only handled entries leave the PEL.
LEMMA WorkerPreserves ==
  ASSUME StreamInv, NEW p \in Pods, NEW m \in hand[p], Process(p, m)
  PROVE  StreamInv'
<1> USE DEF producerVars, groupVars
<1>0. LogInv /\ GroupInv /\ SkipInv /\ PodInv /\ m \in Entries
  BY DEF StreamInv, PodInv
<1>1. /\ UNCHANGED <<log, base, position, scripts, poll, claim, gap>> /\ Release(p, m)
      /\ (Fault \/ UNCHANGED budget) /\ done \subseteq done' /\ done' \subseteq done \cup {m}
      /\ idle' \subseteq pel' /\ pel' \subseteq pel /\ pel \subseteq pel' \cup done'
  BY <1>0 DEF Process, Handle, NackNoScript, GroupInv
<1>2. LogInv'
  BY <1>0, <1>1, LogKept DEF LogInv
<1>3. GroupInv' /\ SkipInv'
  BY <1>1, GroupsKept
<1>4. hand' \in [Pods -> SUBSET Nat] /\ \A q \in Pods : hand'[q] \subseteq hand[q]
  BY <1>0, <1>1 DEF Release, PodInv
<1>5. PodInv'
  BY <1>0, <1>1, <1>4, PodsKept DEF PodInv
<1> QED BY <1>2, <1>3, <1>5 DEF StreamInv

\* Redis restarts: what it lost is no longer Stored, or nothing moves.
LEMMA RestartPreserves ==
  ASSUME StreamInv, RedisRestart
  PROVE  StreamInv'
<1> USE DEF producerVars, groupVars, podVars
<1>0. LogInv /\ GroupInv /\ SkipInv /\ PodInv /\ Len(log) \in Nat
  BY DEF StreamInv, LogInv
<1>1. PodInv'
  BY <1>0, PodsKept DEF RedisRestart, PodInv
<1>2. CASE UNCHANGED groupVars
  BY <1>0, <1>1, <1>2, LogKept, GroupsKept DEF RedisRestart, StreamInv, LogInv, GroupInv
<1>3. CASE /\ base' = Len(log) /\ position' = [s \in 1 .. Streams |-> NoGroup]
           /\ pel' = {} /\ idle' = {}
  <2>1. Stored' = {}
    BY <1>0, <1>3 DEF RedisRestart, Stored, Entries
  <2>2. LogInv'
    BY <1>0, <1>3, ProducerAssumption, GroupAssumption
    DEF RedisRestart, LogInv, Fault, Spend, Entries
  <2>3. GroupInv'
    BY <1>0, <1>3 DEF RedisRestart, GroupInv, NoGroup
  <2>4. SkipInv'
    BY <2>1 DEF SkipInv, SkippedOnlyInGap
  <2> QED BY <1>1, <2>2, <2>3, <2>4 DEF StreamInv
<1> QED BY <1>2, <1>3 DEF RedisRestart

\* Time passes for an entry of the PEL.
LEMMA AgePreserves ==
  ASSUME StreamInv, NEW m \in pel, AgeEntry(m)
  PROVE  StreamInv'
<1> USE DEF producerVars, podVars
<1>0. LogInv /\ GroupInv /\ SkipInv /\ PodInv
  BY DEF StreamInv
<1>1. PodInv'
  BY <1>0, PodsKept DEF AgeEntry, PodInv
<1> QED BY <1>0, <1>1, LogKept, GroupsKept DEF AgeEntry, StreamInv, LogInv, GroupInv

\* Only the producer's own steps change its call.
LEMMA CallKept ==
  ASSUME CallInv, call' = call
  PROVE  CallInv'
BY DEF CallInv, ReportIsTruthful

-------------------------------------------------------------------------------
(* Theorems *)

\* CallInv and StreamInv are invariants of the specification.
LEMMA GroupInvariant == Spec => [](CallInv /\ StreamInv)
<1>1. Init => CallInv /\ StreamInv
  <2>1. Init => CallInv
    BY DEF Init, ProducerInit, CallInv, Calls, NoCall, ReportIsTruthful, Indexes
  <2> QED BY <2>1, StreamInit
<1>2. CallInv /\ StreamInv /\ [Next]_vars => CallInv' /\ StreamInv'
  <2> SUFFICES ASSUME CallInv, StreamInv, [Next]_vars PROVE CallInv' /\ StreamInv'
    OBVIOUS
  <2>1. CASE Produce
    BY <2>1, ProducerTruthful, WritersPreserve DEF Produce
  <2>2. CASE \E g \in Garbage : WriteGarbage(g)
    <3>1. call' = call
      BY <2>2 DEF WriteGarbage
    <3> QED BY <2>2, <3>1, CallKept, WritersPreserve
  <2>3. ASSUME NEW p \in Pods, Start(p) \/ PollLoop(p) \/ ClaimStale(p) \/ Crash(p)
        PROVE  CallInv' /\ StreamInv'
    <3>1. call' = call
      BY <2>3 DEF Start, Boot, Consume, PollLoop, ReadGroup, NoGroupError, Recreate,
                  ClaimStale, ClaimStep, ClaimError, Crash, producerVars
    <3> QED BY <2>3, <3>1, CallKept, PodPreserves
  <2>4. ASSUME NEW p \in Pods, NEW m \in hand[p], Process(p, m)
        PROVE  CallInv' /\ StreamInv'
    <3>1. call' = call
      BY <2>4 DEF Process, Handle, NackNoScript, producerVars
    <3> QED BY <2>4, <3>1, CallKept, WorkerPreserves
  <2>5. ASSUME NEW m \in pel, AgeEntry(m) PROVE CallInv' /\ StreamInv'
    <3>1. call' = call
      BY <2>5 DEF AgeEntry, producerVars
    <3> QED BY <2>5, <3>1, CallKept, AgePreserves
  <2>6. CASE RedisRestart
    <3>1. call' = call
      BY <2>6 DEF RedisRestart, producerVars
    <3> QED BY <2>6, <3>1, CallKept, RestartPreserves
  <2>7. CASE UNCHANGED vars
    <3>1. UNCHANGED <<log, call, budget, base, position, pel, idle, scripts, poll, claim, hand,
                      done, gap>>
      BY <2>7 DEF vars, producerVars, groupVars, podVars
    <3>2. LogInv /\ GroupInv /\ SkipInv /\ PodInv
      BY DEF StreamInv
    <3>3. LogInv' /\ GroupInv' /\ SkipInv' /\ PodInv'
      BY <3>1, <3>2, LogKept, GroupsKept, PodsKept DEF LogInv, GroupInv, PodInv
    <3> QED BY <3>1, <3>3, CallKept DEF StreamInv
  <2> QED BY <2>1, <2>2, <2>3, <2>4, <2>5, <2>6, <2>7 DEF Next
<1> QED BY <1>1, <1>2, PTL DEF Spec

\* The PEL holds only what Redis has and a group delivered, and nothing that
\* cannot be parsed gets into a pod's memory, for any number of streams and pods.
THEOREM GroupTypeCorrect == Spec => []TypeOK
<1>1. StreamInv => TypeOK
  BY DEF StreamInv, LogInv, GroupInv, PodInv, TypeOK
<1> QED BY <1>1, GroupInvariant, PTL

\* Whatever pods create and recreate groups, in whatever order, while producers
\* write and Redis restarts: a group passes over an entry that is neither pending
\* nor handled only if the entry was written while its stream had no group.
THEOREM NothingSkipped == Spec => []SkippedOnlyInGap
<1>1. StreamInv => SkippedOnlyInGap
  BY DEF StreamInv, SkipInv
<1> QED BY <1>1, GroupInvariant, PTL

\* For batches of any length, any number of refused commands, lost connections and
\* repeated pipelines: what Enqueue and EnqueueBatch return is true, and a nil that
\* is not comes from an EnqueueBatch that never got a connection and wrote nothing.
THEOREM TruthfulReports == Spec => []ReportIsTruthful
<1>1. CallInv => ReportIsTruthful
  BY DEF CallInv
<1> QED BY <1>1, GroupInvariant, PTL

===============================================================================
