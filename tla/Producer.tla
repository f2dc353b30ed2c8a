------------------------------- MODULE Producer -------------------------------
(***************************************************************************)
(* RedisProducer: Enqueue and EnqueueBatch.  A call validates its tasks,   *)
(* then has Redis run one XADD for each of them; the client library runs   *)
(* the whole pipeline again when the connection is lost, up to MaxRetries  *)
(* times (client.go leaves its default in force).                          *)
(*                                                                         *)
(* One action is one command, or one thing that goes wrong.                *)
(*                                                                         *)
(* A definition X_variant is X with a fault; no action uses it.  It serves *)
(* to see that a property fails when the code has that fault.              *)
(***************************************************************************)
EXTENDS Naturals, Sequences, FiniteSets

CONSTANTS
  Tasks,       \* what may be enqueued
  Invalid,     \* tasks that EmailTask.Validate rejects
  Batches,     \* the arguments of EnqueueBatch: sequences of tasks
  MaxRetries,  \* times the client library repeats a pipeline
  MaxCalls,    \* bound: how many calls are made
  MaxEntries,  \* bound: how many entries are ever added to the streams
  MaxFaults    \* bound: what all failures of a behaviour may cost; see Spend

ASSUME ProducerAssumption ==
  /\ Invalid \subseteq Tasks
  /\ Batches \subseteq Seq(Tasks)
  /\ MaxRetries \in Nat /\ MaxCalls \in Nat /\ MaxEntries \in Nat /\ MaxFaults \in Nat

VARIABLES
  log,     \* every task ever XADDed, oldest first; an entry's ID is its position
  call,    \* the call in progress
  calls,   \* how many calls were made
  budget   \* what is left of MaxFaults

producerVars == <<log, call, calls>>

-------------------------------------------------------------------------------
(* Types *)

Indexes(ts) == 1 .. Len(ts)

\* op: the method called; next: the command to run; failed: the commands that have
\* an error; tries: how often the pipeline was repeated; conn: whether an attempt
\* had a connection, and wrote: the tasks whose entry is in a stream (both history);
\* report: nil, the errors of Validate, those of the commands, or ctx.Err().
NoCall == [pc |-> "idle", op |-> "none", tasks |-> << >>, next |-> 1, failed |-> {},
           tries |-> 0, conn |-> "never", wrote |-> {}, report |-> "none"]

-------------------------------------------------------------------------------
(* Actions *)

\* A failure happens that counts for cost.
Spend(cost) ==
  /\ budget >= cost
  /\ budget' = budget - cost

Validate(t) == t \notin Invalid

Rejected(ts) == {i \in Indexes(ts) : ~Validate(ts[i])}

Report_noErrors(c) == [c EXCEPT !.pc = "return", !.report = "nil"]

\* What a pipeline that is over makes the call return: the errors of its commands.
\* The error of Exec itself is not looked at.
Report(c) ==
  [c EXCEPT !.pc = "return", !.report = IF c.failed = {} THEN "nil" ELSE "exec"]

\* All tasks are validated before the first command; every invalid one is
\* listed.  An empty batch is done at once.
Begin(op, ts) ==
  /\ call = NoCall /\ calls < MaxCalls
  /\ calls' = calls + 1
  /\ call' = LET new == [NoCall EXCEPT !.op = op, !.tasks = ts]
             IN IF ts = << >> THEN Report(new)
                ELSE IF Rejected(ts) # {}
                  THEN [new EXCEPT !.pc = "return", !.failed = Rejected(ts), !.report = "invalid"]
                  ELSE [new EXCEPT !.pc = "exec"]
  /\ UNCHANGED <<log, budget>>

Enqueue(t) == Begin("Enqueue", <<t>>)

EnqueueBatch(ts) == Begin("EnqueueBatch", ts)

Advance(c) ==
  IF c.next = Len(c.tasks) THEN Report([c EXCEPT !.next = @ + 1]) ELSE [c EXCEPT !.next = @ + 1]

\* The client has a connection, and the next XADD of the pipeline runs, its error
\* of an earlier attempt being overwritten ...
XAdd ==
  /\ call.pc = "exec" /\ Len(log) < MaxEntries
  /\ log' = Append(log, call.tasks[call.next])
  /\ call' = Advance([call EXCEPT !.conn = "had", !.wrote = @ \cup {call.next},
                                  !.failed = @ \ {call.next}])
  /\ UNCHANGED <<calls, budget>>

\* ... or Redis refuses it.
XAddRefused ==
  /\ call.pc = "exec"
  /\ Spend(1)
  /\ call' = Advance([call EXCEPT !.conn = "had", !.failed = @ \cup {call.next}])
  /\ UNCHANGED <<log, calls>>

\* The client library repeats the pipeline from its first command, or the call is
\* over.  The commands keep their errors until they run again.
Retry(c) ==
  IF c.tries < MaxRetries THEN [c EXCEPT !.next = 1, !.tries = @ + 1] ELSE Report(c)

\* The connection is lost after the replies of the first n commands were read:
\* the commands after them have an error, run or not.
ConnectionLost ==
  /\ call.pc = "exec"
  /\ Spend(1)
  /\ \E n \in 0 .. call.next - 1 :
       call' = Retry([call EXCEPT !.conn = "had",
                        !.failed = (@ \cap 1 .. n) \cup (n + 1 .. Len(call.tasks))])
  /\ UNCHANGED <<log, calls>>

\* An attempt gets no connection.  The error is one of Exec, and of no command of
\* the pipeline; Enqueue, which has no pipeline, gets it from its command.
NoConnection ==
  /\ call.pc = "exec" /\ call.next = 1
  /\ Spend(1)
  /\ call' = Retry(IF call.op = "Enqueue" THEN [call EXCEPT !.failed = {1}] ELSE call)
  /\ UNCHANGED <<log, calls>>

\* The caller's context is done: the call returns its error, and nothing else.
CtxDone ==
  /\ call.pc = "exec"
  /\ Spend(1)
  /\ call' = [call EXCEPT !.pc = "return", !.report = "ctx"]
  /\ UNCHANGED <<log, calls>>

Return ==
  /\ call.pc = "return"
  /\ call' = NoCall
  /\ UNCHANGED <<log, calls, budget>>

ProducerInit ==
  /\ log = << >>
  /\ call = NoCall /\ calls = 0
  /\ budget = MaxFaults

-------------------------------------------------------------------------------
(* Properties *)

\* What a call returns, whatever commands are refused, replies lost and pipelines
\* repeated: an error of the pipeline lists every task that has no entry, and one of
\* Validate means that no task has one.  nil means that every task has an entry,
\* save when no attempt of EnqueueBatch got a connection, as it then drops the error
\* of Exec, and there are none.  So nil never hides a partial write.
ReportIsTruthful ==
  call.pc = "return" =>
    /\ call.report = "nil" =>
         \/ call.wrote = Indexes(call.tasks)
         \/ call.op = "EnqueueBatch" /\ call.conn = "never" /\ call.wrote = {}
    /\ call.report = "exec" => Indexes(call.tasks) \ call.failed \subseteq call.wrote
    /\ call.report = "invalid" => call.wrote = {}

===============================================================================
