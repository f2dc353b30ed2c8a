--------------------------- MODULE RetryQueue_proofs ---------------------------
(***************************************************************************)
(* Proofs about the delay queues for every number of items, pods and       *)
(* failures, every batch limit and every back-off: no item is lost but by  *)
(* a ZREM behind a refused push, none is put back early, and the copies    *)
(* are bounded.                                                            *)
(***************************************************************************)
EXTENDS RetryQueue, FiniteSetTheorems, TLAPS


\* A pod removes what it has pushed: the members of its batch that are not in
\* todo any more have a copy, or a poison entry, already, or were refused.
BatchInv ==
  \A p \in Pods :
    /\ flush[p].good \cap Corrupt = {} /\ flush[p].bad \subseteq Corrupt
    /\ flush[p].pc = "rpush" => flush[p].todo \subseteq flush[p].bad
    /\ flush[p].pc = "xadd" => flush[p].todo \subseteq flush[p].good
    /\ flush[p].pc = "rpush" => \A i \in flush[p].bad \ flush[p].todo :
         i \in flush[p].failed \/ poison[i] > 0
    /\ flush[p].pc = "zremBad" => \A i \in flush[p].bad :
         i \in flush[p].failed \/ poison[i] > 0
    /\ flush[p].pc = "xadd" => \A i \in flush[p].good \ flush[p].todo :
         i \in flush[p].failed \/ copies[i] > 0
    /\ flush[p].pc = "zrem" => \A i \in flush[p].good :
         i \in flush[p].failed \/ copies[i] > 0

\* The inductive invariant: what a pod is about to remove is what Accounted has
\* to know, and that the batch is sorted into good and bad is what TypeOK has to.
QueueInv == TypeOK /\ Accounted /\ BatchInv

\* ThenFlush is a flush state with nothing pushed yet.
LEMMA ThenFlushType ==
  ASSUME NEW good \in SUBSET Items
  PROVE  /\ ThenFlush(good) \in FlushStates
         /\ ThenFlush(good).pc \in {"idle", "xadd"}
         /\ ThenFlush(good).good = good
         /\ ThenFlush(good).bad = {}
         /\ ThenFlush(good).todo = good
<1>1. CASE good = {}
  BY <1>1 DEF ThenFlush, IdleFlush, FlushStates
<1>2. CASE good # {}
  BY <1>2 DEF ThenFlush, FlushStates
<1> QED BY <1>1, <1>2

\* A push that Redis ran or refused: the item is not to do any more, and failed if
\* it was refused.
LEMMA RanType ==
  ASSUME NEW f \in FlushStates, NEW i, NEW ok \in BOOLEAN, NEW next \in {"zremBad", "zrem"},
         i \in f.todo
  PROVE  /\ Ran(f, i, ok, next) \in FlushStates
         /\ Ran(f, i, ok, next).good = f.good /\ Ran(f, i, ok, next).bad = f.bad
         /\ Ran(f, i, ok, next).todo = f.todo \ {i}
         /\ f.failed \subseteq Ran(f, i, ok, next).failed
         /\ ok \/ i \in Ran(f, i, ok, next).failed
         /\ Ran(f, i, ok, next).pc = IF f.todo = {i} THEN next ELSE f.pc
<1>1. CASE ok
  BY <1>1 DEF Ran, FlushStates
<1>2. CASE ~ok
  BY <1>2 DEF Ran, FlushStates
<1> QED BY <1>1, <1>2

\* Putting an item into a sorted set.
LEMMA AddPreserves ==
  ASSUME QueueInv, NEW i \in Items, ScheduleRetry(i) \/ EnqueueDelayed(i)
  PROVE  QueueInv'
<1>1. TypeOK'
  <2>1. due' \in [Items -> Nat]
    <3>1. CASE ScheduleRetry(i)
      <4>1. PICK d \in ComputeDelay(Attempt[i]) : due' = [due EXCEPT ![i] = now + d]
        BY <3>1 DEF ScheduleRetry
      <4>2. d \in Nat /\ now \in Nat
        BY QueueAssumption, <4>1 DEF ComputeDelay, QueueInv, TypeOK
      <4> QED BY <4>1, <4>2 DEF QueueInv, TypeOK
    <3>2. CASE EnqueueDelayed(i)
      BY <3>2 DEF EnqueueDelayed, QueueInv, TypeOK
    <3> QED BY <3>1, <3>2
  <2> QED BY <2>1 DEF QueueInv, TypeOK, ScheduleRetry, EnqueueDelayed
<1>2. Accounted'
  BY DEF QueueInv, TypeOK, Accounted, ScheduleRetry, EnqueueDelayed
<1>3. BatchInv'
  BY DEF QueueInv, BatchInv, ScheduleRetry, EnqueueDelayed
<1> QED BY <1>1, <1>2, <1>3 DEF QueueInv

\* Reading a batch.
LEMMA ReadPreserves ==
  ASSUME QueueInv, NEW p \in Pods, FlushRead(p)
  PROVE  QueueInv'
<1> USE DEF QueueInv
<1>1. PICK read \in SUBSET Due :
        flush' = [flush EXCEPT ![p] =
            IF read \cap Corrupt = {} THEN ThenFlush(read)
            ELSE [pc |-> "rpush", good |-> read \ Corrupt, bad |-> read \cap Corrupt,
                  todo |-> read \cap Corrupt, failed |-> {}]]
  BY DEF FlushRead
<1>2. read \in SUBSET Items
  BY <1>1 DEF Due, TypeOK
<1>3. \A q \in Pods : q # p => flush'[q] = flush[q]
  BY <1>1 DEF TypeOK
<1>4. UNCHANGED <<now, due, added, retry, delayed, copies, poison, dropped, breaks, refusals>>
  BY DEF FlushRead
<1>5. CASE read \cap Corrupt = {}
  <2>1. flush'[p] = ThenFlush(read)
    BY <1>1, <1>5 DEF TypeOK
  <2>2. TypeOK'
    BY <1>1, <1>2, <1>4, <1>5, ThenFlushType DEF TypeOK
  <2>3. BatchInv'
    BY <1>2, <1>3, <1>4, <1>5, <2>1, ThenFlushType DEF BatchInv
  <2> QED BY <1>4, <2>2, <2>3 DEF Accounted
<1>6. CASE read \cap Corrupt # {}
  <2> DEFINE new == [pc |-> "rpush", good |-> read \ Corrupt, bad |-> read \cap Corrupt,
                     todo |-> read \cap Corrupt, failed |-> {}]
  <2>1. flush'[p] = new /\ new \in FlushStates
    BY <1>1, <1>2, <1>6 DEF TypeOK, FlushStates
  <2>2. TypeOK'
    BY <1>1, <1>4, <1>6, <2>1 DEF TypeOK
  <2>3. BatchInv'
    BY <1>3, <1>4, <2>1 DEF BatchInv
  <2> QED BY <1>4, <2>2, <2>3 DEF Accounted
<1> QED BY <1>5, <1>6

\* One RPUSH or one XADD of a pipeline.
LEMMA PushPreserves ==
  ASSUME QueueInv, NEW p \in Pods, NEW i \in Items, QuarantinePush(p, i) \/ FlushXadd(p, i)
  PROVE  QueueInv'
<1> USE DEF QueueInv
<1>1. UNCHANGED <<now, due, added, retry, delayed, dropped, breaks>>
  BY DEF QuarantinePush, FlushXadd
<1>2. \A q \in Pods : q # p => flush'[q] = flush[q]
  BY DEF QuarantinePush, FlushXadd, TypeOK
<1>3. \A j \in Items : /\ copies[j] \in Nat /\ copies'[j] \in Nat
                       /\ poison[j] \in Nat /\ poison'[j] \in Nat
                       /\ copies'[j] >= copies[j] /\ poison'[j] >= poison[j]
  BY DEF QuarantinePush, FlushXadd, TypeOK
<1>4. /\ flush'[p] \in FlushStates
      /\ flush'[p].good = flush[p].good /\ flush'[p].bad = flush[p].bad
      /\ flush'[p].todo = flush[p].todo \ {i}
      /\ flush[p].failed \subseteq flush'[p].failed
  <2>1. CASE QuarantinePush(p, i)
    <3>1. PICK ok \in BOOLEAN : flush' = [flush EXCEPT ![p] = Ran(flush[p], i, ok, "zremBad")]
      BY <2>1 DEF QuarantinePush
    <3> QED BY <2>1, <3>1, RanType DEF QuarantinePush, TypeOK
  <2>2. CASE FlushXadd(p, i)
    <3>1. PICK ok \in BOOLEAN : flush' = [flush EXCEPT ![p] = Ran(flush[p], i, ok, "zrem")]
      BY <2>2 DEF FlushXadd
    <3> QED BY <2>2, <3>1, RanType DEF FlushXadd, TypeOK
  <2> QED BY <2>1, <2>2
<1>5. TypeOK'
  <2>1. flush' \in [Pods -> FlushStates]
    <3>1. flush' = [flush EXCEPT ![p] = flush'[p]]
      BY <1>2 DEF QuarantinePush, FlushXadd, TypeOK
    <3> QED BY <1>4, <3>1 DEF TypeOK
  <2>2. copies' \in [Items -> Nat] /\ poison' \in [Items -> Nat]
    BY DEF QuarantinePush, FlushXadd, TypeOK
  <2>3. ASSUME NEW j \in Items
        PROVE  (copies'[j] > 0 => j \notin Corrupt) /\ (poison'[j] > 0 => j \in Corrupt)
    <3>1. CASE QuarantinePush(p, i)
      <4>1. i \in Corrupt
        BY <3>1 DEF QuarantinePush, BatchInv
      <4>2. copies'[j] = copies[j] /\ (j # i => poison'[j] = poison[j])
        BY <3>1 DEF QuarantinePush, TypeOK
      <4> QED BY <4>1, <4>2, <1>3 DEF TypeOK
    <3>2. CASE FlushXadd(p, i)
      <4>1. i \notin Corrupt
        BY <3>2 DEF FlushXadd, BatchInv
      <4>2. poison'[j] = poison[j] /\ (j # i => copies'[j] = copies[j])
        BY <3>2 DEF FlushXadd, TypeOK
      <4> QED BY <4>1, <4>2, <1>3 DEF TypeOK
    <3> QED BY <3>1, <3>2
  <2>4. refusals' \in 0 .. MaxRefusals
    BY QueueAssumption DEF QuarantinePush, FlushXadd, Answer, TypeOK
  <2> QED BY <1>1, <2>1, <2>2, <2>3, <2>4 DEF TypeOK
<1>6. Accounted'
  BY <1>1, <1>3 DEF Accounted, TypeOK
<1>7. BatchInv'
  <2> SUFFICES ASSUME NEW q \in Pods
      PROVE  /\ flush'[q].good \cap Corrupt = {} /\ flush'[q].bad \subseteq Corrupt
             /\ flush'[q].pc = "rpush" => flush'[q].todo \subseteq flush'[q].bad
             /\ flush'[q].pc = "xadd" => flush'[q].todo \subseteq flush'[q].good
             /\ flush'[q].pc = "rpush" => \A j \in flush'[q].bad \ flush'[q].todo :
                  j \in flush'[q].failed \/ poison'[j] > 0
             /\ flush'[q].pc = "zremBad" => \A j \in flush'[q].bad :
                  j \in flush'[q].failed \/ poison'[j] > 0
             /\ flush'[q].pc = "xadd" => \A j \in flush'[q].good \ flush'[q].todo :
                  j \in flush'[q].failed \/ copies'[j] > 0
             /\ flush'[q].pc = "zrem" => \A j \in flush'[q].good :
                  j \in flush'[q].failed \/ copies'[j] > 0
    BY DEF BatchInv
  <2>0. flush[q].good \subseteq Items /\ flush[q].bad \subseteq Items
    BY DEF TypeOK, FlushStates
  <2>1. CASE q # p
    BY <1>2, <1>3, <2>0, <2>1 DEF BatchInv
  <2>2. CASE q = p /\ QuarantinePush(p, i)
    <3>1. PICK ok \in BOOLEAN :
            /\ poison' = IF ok THEN [poison EXCEPT ![i] = @ + 1] ELSE poison
            /\ flush' = [flush EXCEPT ![p] = Ran(flush[p], i, ok, "zremBad")]
      BY <2>2 DEF QuarantinePush
    <3>2. /\ flush[p].pc = "rpush"
          /\ flush'[p].pc = IF flush[p].todo = {i} THEN "zremBad" ELSE "rpush"
          /\ i \in flush'[p].failed \/ poison'[i] > 0
      BY <2>2, <3>1, RanType DEF QuarantinePush, TypeOK
    <3> QED BY <1>3, <1>4, <2>0, <2>2, <3>2 DEF BatchInv
  <2>3. CASE q = p /\ FlushXadd(p, i)
    <3>1. PICK ok \in BOOLEAN :
            /\ copies' = IF ok THEN [copies EXCEPT ![i] = @ + 1] ELSE copies
            /\ flush' = [flush EXCEPT ![p] = Ran(flush[p], i, ok, "zrem")]
      BY <2>3 DEF FlushXadd
    <3>2. /\ flush[p].pc = "xadd"
          /\ flush'[p].pc = IF flush[p].todo = {i} THEN "zrem" ELSE "xadd"
          /\ i \in flush'[p].failed \/ copies'[i] > 0
      BY <2>3, <3>1, RanType DEF FlushXadd, TypeOK
    <3> QED BY <1>3, <1>4, <2>0, <2>3, <3>2 DEF BatchInv
  <2> QED BY <2>1, <2>2, <2>3
<1> QED BY <1>5, <1>6, <1>7

\* A ZREM: what it removes was pushed before, or its push was refused.
LEMMA RemovePreserves ==
  ASSUME QueueInv, NEW p \in Pods, QuarantineRemove(p) \/ FlushZrem(p)
  PROVE  QueueInv'
<1> USE DEF QueueInv
<1>1. UNCHANGED <<now, due, added, delayed, copies, poison, breaks, refusals>>
  BY DEF QuarantineRemove, FlushZrem
<1>2. flush[p].good \in SUBSET Items
  BY DEF TypeOK, FlushStates
<1>3. \/ flush' = [flush EXCEPT ![p] = ThenFlush(flush[p].good)]
      \/ flush' = [flush EXCEPT ![p] = IdleFlush]
  BY DEF QuarantineRemove, FlushZrem
<1>4. flush' \in [Pods -> FlushStates]
  BY <1>2, <1>3, ThenFlushType DEF TypeOK, FlushStates, IdleFlush
<1>5. TypeOK'
  BY <1>1, <1>4 DEF TypeOK, QuarantineRemove, FlushZrem, Zrem
<1>6. Accounted'
  <2>1. CASE QuarantineRemove(p)
    BY <1>1, <2>1 DEF Accounted, BatchInv, QuarantineRemove, Zrem, TypeOK
  <2>2. CASE FlushZrem(p)
    BY <1>1, <2>2 DEF Accounted, BatchInv, FlushZrem, Zrem, TypeOK
  <2> QED BY <2>1, <2>2
<1>7. BatchInv'
  <2>1. \A q \in Pods : q # p => flush'[q] = flush[q]
    BY <1>3 DEF TypeOK
  <2>2. flush'[p] = ThenFlush(flush[p].good) \/ flush'[p] = IdleFlush
    BY <1>3 DEF TypeOK
  <2>3. CASE flush'[p] = IdleFlush
    BY <1>1, <2>1, <2>3 DEF BatchInv, IdleFlush
  <2>4. CASE flush'[p] = ThenFlush(flush[p].good)
    BY <1>1, <1>2, <2>1, <2>4, ThenFlushType DEF BatchInv
  <2> QED BY <2>2, <2>3, <2>4
<1> QED BY <1>5, <1>6, <1>7

\* Repeating a pipeline starts with nothing pushed; a pod that gives up pushes
\* what it has left, or nothing.
LEMMA RecoverType ==
  ASSUME NEW f \in FlushStates, f.pc # "idle",
         NEW g \in {Repeat(f), GiveUp(f), IdleFlush}
  PROVE  /\ g \in FlushStates
         /\ g.good \subseteq f.good /\ g.bad \subseteq f.bad
         /\ g.pc \in {"idle", "rpush", "xadd"}
         /\ g.pc = "rpush" => g.todo = g.bad
         /\ g.pc = "xadd" => g.todo = g.good
<1>0. f.good \in SUBSET Items /\ f.bad \in SUBSET Items
  BY DEF FlushStates
<1>1. CASE g = Repeat(f)
  BY <1>1 DEF Repeat, FlushStates
<1>2. CASE g = GiveUp(f)
  BY <1>0, <1>2, ThenFlushType DEF GiveUp, IdleFlush, FlushStates
<1>3. CASE g = IdleFlush
  BY <1>3 DEF IdleFlush, FlushStates
<1> QED BY <1>1, <1>2, <1>3

\* A lost connection or a dead pod removes nothing that was not pushed or refused.
LEMMA BreakPreserves ==
  ASSUME QueueInv, NEW p \in Pods, Break(p) \/ Stop(p)
  PROVE  QueueInv'
<1> USE DEF QueueInv
<1>1. UNCHANGED <<now, due, added, delayed, copies, poison, refusals>>
  BY DEF Break, Stop
<1>2. flush[p] \in FlushStates /\ flush[p].pc # "idle"
  BY DEF Break, Stop, TypeOK
<1>3. PICK g \in {Repeat(flush[p]), GiveUp(flush[p]), IdleFlush} :
        flush' = [flush EXCEPT ![p] = g]
  BY DEF Break, Stop
<1>4. /\ g \in FlushStates
      /\ g.good \subseteq flush[p].good /\ g.bad \subseteq flush[p].bad
      /\ g.pc \in {"idle", "rpush", "xadd"}
      /\ g.pc = "rpush" => g.todo = g.bad
      /\ g.pc = "xadd" => g.todo = g.good
  BY <1>2, RecoverType
<1>5. \/ retry' = retry /\ dropped' = dropped
      \/ flush[p].pc = "zremBad" /\ Zrem(p, flush[p].bad)
      \/ flush[p].pc = "zrem" /\ Zrem(p, flush[p].good)
  BY DEF Break, Stop
<1>6. TypeOK'
  <2>1. breaks' \in 0 .. MaxBreaks
    BY QueueAssumption DEF Break, Stop, TypeOK
  <2>2. flush' \in [Pods -> FlushStates]
    BY <1>3, <1>4 DEF TypeOK
  <2> QED BY <1>1, <1>5, <2>1, <2>2 DEF TypeOK, Zrem
<1>7. Accounted'
  BY <1>1, <1>5 DEF Accounted, BatchInv, Zrem, TypeOK
<1>8. BatchInv'
  <2>1. \A q \in Pods : q # p => flush'[q] = flush[q]
    BY <1>3 DEF TypeOK
  <2>2. flush'[p] = g
    BY <1>3 DEF TypeOK
  <2> QED BY <1>1, <1>4, <2>1, <2>2 DEF BatchInv
<1> QED BY <1>6, <1>7, <1>8

\* The invariant is inductive.
LEMMA QueueInductive == QueueInv /\ [Next]_vars => QueueInv'
<1> SUFFICES ASSUME QueueInv, [Next]_vars PROVE QueueInv'
  OBVIOUS
<1>1. CASE Tick
  BY <1>1, QueueAssumption DEF Tick, QueueInv, TypeOK, Accounted, BatchInv
<1>2. CASE UNCHANGED vars
  BY <1>2 DEF vars, QueueInv, TypeOK, Accounted, BatchInv
<1> QED
  BY <1>1, <1>2, AddPreserves, ReadPreserves, PushPreserves, RemovePreserves,
     BreakPreserves DEF Next, FlushReady

\* Whatever is scheduled stays in a sorted set until it is in a stream or in the
\* poison list, for any number of pods flushing at once and of broken pipelines,
\* but for the items whose push was refused ahead of the ZREM of its pipeline.
THEOREM NothingLost == Spec => []Accounted
<1>1. Init => QueueInv
  BY QueueAssumption DEF Init, QueueInv, TypeOK, Accounted, BatchInv, IdleFlush, FlushStates
<1>2. QueueInv => Accounted
  BY DEF QueueInv
<1> QED BY <1>1, <1>2, QueueInductive, PTL DEF Spec

\* The type invariant of the queue.
THEOREM QueueTypeCorrect == Spec => []TypeOK
<1>1. Init => QueueInv
  BY QueueAssumption DEF Init, QueueInv, TypeOK, Accounted, BatchInv, IdleFlush, FlushStates
<1>2. QueueInv => TypeOK
  BY DEF QueueInv
<1> QED BY <1>1, <1>2, QueueInductive, PTL DEF Spec

-------------------------------------------------------------------------------
(* NeverEarly *)

\* What whole seconds say of the times they are taken from.
LEMMA UnixOrder ==
  ASSUME NEW a \in Nat, NEW b \in Nat, Unix(a) <= Unix(b)
  PROVE  a < b + Second
<1>1. Second \in Nat /\ Second > 0
  BY QueueAssumption
<1>2. /\ a \div Second \in Int /\ b \div Second \in Int
      /\ a = Second * (a \div Second) + (a % Second) /\ a % Second \in 0 .. Second - 1
      /\ b = Second * (b \div Second) + (b % Second) /\ b % Second \in 0 .. Second - 1
  BY <1>1
<1>3. Second * (a \div Second) <= Second * (b \div Second)
  BY <1>1, <1>2 DEF Unix
<1> QED BY <1>1, <1>2, <1>3

\* Nothing in a batch or past it is early, and none of it can be scheduled anew.
TimeInv ==
  /\ \A i \in Items : copies[i] + poison[i] > 0 => i \in added /\ due[i] < now + Second
  /\ \A p \in Pods : \A i \in flush[p].good \cup flush[p].bad :
       i \in added /\ due[i] < now + Second

\* Every step keeps it: an item gets its due time before it is in a batch, and
\* the clock only runs on.
LEMMA TimeInductive == QueueInv /\ TimeInv /\ [Next]_vars => TimeInv'
<1> SUFFICES ASSUME QueueInv, TimeInv, [Next]_vars PROVE TimeInv'
  OBVIOUS
<1>0. /\ TypeOK /\ BatchInv /\ now \in Nat /\ Second \in Nat
      /\ \A i \in Items : due[i] \in Nat /\ copies[i] \in Nat /\ poison[i] \in Nat
      /\ \A p \in Pods : /\ flush[p] \in FlushStates
                         /\ flush[p].good \subseteq Items /\ flush[p].bad \subseteq Items
  BY QueueAssumption DEF QueueInv, TypeOK, FlushStates
<1>1. ASSUME NEW i \in Items, ScheduleRetry(i) \/ EnqueueDelayed(i) PROVE TimeInv'
  <2>1. /\ UNCHANGED <<now, flush, copies, poison>> /\ added' = added \cup {i} /\ i \notin added
        /\ \A j \in Items : j # i => due'[j] = due[j]
    BY <1>1, <1>0 DEF ScheduleRetry, EnqueueDelayed, TypeOK
  <2> QED BY <1>0, <2>1 DEF TimeInv
<1>2. ASSUME NEW p \in Pods, FlushRead(p) PROVE TimeInv'
  <2>1. PICK read \in SUBSET Due :
          flush' = [flush EXCEPT ![p] =
              IF read \cap Corrupt = {} THEN ThenFlush(read)
              ELSE [pc |-> "rpush", good |-> read \ Corrupt, bad |-> read \cap Corrupt,
                    todo |-> read \cap Corrupt, failed |-> {}]]
    BY <1>2 DEF FlushRead
  <2>2. UNCHANGED <<now, due, added, retry, delayed, copies, poison>>
    BY <1>2 DEF FlushRead
  <2>3. read \in SUBSET Items
    BY <1>0, <2>1 DEF Due, TypeOK
  <2>4. \A i \in read : i \in added /\ due[i] < now + Second
    BY <1>0, <2>1, UnixOrder DEF Due, TypeOK
  <2>5. flush'[p].good \subseteq read /\ flush'[p].bad \subseteq read
    BY <1>0, <2>1, <2>3, ThenFlushType DEF TypeOK
  <2>6. \A q \in Pods : q # p => flush'[q] = flush[q]
    BY <2>1, <1>0 DEF TypeOK
  <2> QED BY <2>2, <2>4, <2>5, <2>6 DEF TimeInv
<1>3. ASSUME NEW p \in Pods, NEW i \in Items, QuarantinePush(p, i) \/ FlushXadd(p, i)
      PROVE  TimeInv'
  <2>1. UNCHANGED <<now, due, added>>
    BY <1>3 DEF QuarantinePush, FlushXadd
  <2>2. \A j \in Items : j # i => copies'[j] = copies[j] /\ poison'[j] = poison[j]
    BY <1>0, <1>3 DEF QuarantinePush, FlushXadd, TypeOK
  <2>3. i \in flush[p].good \cup flush[p].bad
    BY <1>0, <1>3 DEF QuarantinePush, FlushXadd, BatchInv
  <2>4. \A q \in Pods : flush'[q].good = flush[q].good /\ flush'[q].bad = flush[q].bad
    <3>1. CASE QuarantinePush(p, i)
      BY <1>0, <3>1, RanType DEF QuarantinePush, TypeOK
    <3>2. CASE FlushXadd(p, i)
      BY <1>0, <3>2, RanType DEF FlushXadd, TypeOK
    <3> QED BY <1>3, <3>1, <3>2
  <2> QED BY <2>1, <2>2, <2>3, <2>4 DEF TimeInv
<1>4. ASSUME NEW p \in Pods, QuarantineRemove(p) \/ FlushZrem(p) \/ Break(p) \/ Stop(p)
      PROVE  TimeInv'
  <2>1. UNCHANGED <<now, due, added, copies, poison>>
    BY <1>4 DEF QuarantineRemove, FlushZrem, Break, Stop
  <2>2. PICK g \in {Repeat(flush[p]), GiveUp(flush[p]), IdleFlush} :
          flush' = [flush EXCEPT ![p] = g]
    BY <1>4 DEF QuarantineRemove, FlushZrem, Break, Stop, GiveUp
  <2>3. flush'[p].good \subseteq flush[p].good /\ flush'[p].bad \subseteq flush[p].bad
    <3>1. flush[p].pc # "idle" /\ flush[p] \in FlushStates
      BY <1>0, <1>4 DEF QuarantineRemove, FlushZrem, Break, Stop
    <3>2. flush'[p] = g
      BY <1>0, <2>2 DEF TypeOK
    <3>3. g.good \subseteq flush[p].good /\ g.bad \subseteq flush[p].bad
      BY <3>1, RecoverType
    <3> QED BY <3>2, <3>3
  <2>4. \A q \in Pods : q # p => flush'[q] = flush[q]
    BY <1>0, <2>2 DEF TypeOK
  <2> QED BY <2>1, <2>3, <2>4 DEF TimeInv
<1>5. CASE Tick
  BY <1>0, <1>5 DEF Tick, TimeInv
<1>6. CASE UNCHANGED vars
  BY <1>6 DEF vars, TimeInv
<1> QED BY <1>1, <1>2, <1>3, <1>4, <1>5, <1>6 DEF Next, FlushReady

\* No item leaves the sorted set a second or more before it is due, whatever the
\* back-off, the clock and the number of pods.
THEOREM NoEarlyRetry == Spec => []NeverEarly
<1>1. Init => QueueInv /\ TimeInv
  BY QueueAssumption
  DEF Init, QueueInv, TypeOK, Accounted, BatchInv, IdleFlush, FlushStates, TimeInv
<1>2. QueueInv /\ TimeInv => NeverEarly
  BY DEF TimeInv, NeverEarly
<1> QED BY <1>1, <1>2, QueueInductive, TimeInductive, PTL DEF Spec

-------------------------------------------------------------------------------
(* DuplicatesBounded *)

\* The pods whose push of i was run or refused and that have not yet removed it, and
\* those that will push it.
HasPushed(f, i) ==
  \/ f.pc = "rpush" /\ i \in f.bad \ f.todo
  \/ f.pc = "zremBad" /\ i \in f.bad
  \/ f.pc = "xadd" /\ i \in f.good \ f.todo
  \/ f.pc = "zrem" /\ i \in f.good

WillPush(f, i) ==
  \/ f.pc = "rpush" /\ i \in f.todo \cup f.good
  \/ f.pc = "zremBad" /\ i \in f.good
  \/ f.pc = "xadd" /\ i \in f.todo

Pushed(i) == {p \in Pods : HasPushed(flush[p], i)}

Waiting(i) == {p \in Pods : WillPush(flush[p], i)}

\* While i is in the set, every copy of it belongs to a pod that is about to
\* remove it, or to a break; the pods that will push it may add one each.
CopyInv ==
  \A i \in Items :
    /\ i \in retry => copies[i] + poison[i] <= Cardinality(Pushed(i)) + breaks
    /\ copies[i] + poison[i] + Cardinality(Waiting(i)) <= Cardinality(Pods) + breaks

\* Sets of pods are finite.
LEMMA PodSets ==
  ASSUME NEW S \in SUBSET Pods
  PROVE  /\ IsFiniteSet(S) /\ Cardinality(S) \in Nat
         /\ Cardinality(S) <= Cardinality(Pods) /\ Cardinality(Pods) \in Nat
BY QueueAssumption, FS_Subset, FS_CardinalityType

\* No pod has pushed an item that it will still push.
LEMMA PushedOrWaiting ==
  ASSUME NEW F, NEW i, \A p \in Pods : F[p].good \cap F[p].bad = {}
  PROVE  Cardinality({p \in Pods : HasPushed(F[p], i)})
           + Cardinality({p \in Pods : WillPush(F[p], i)}) <= Cardinality(Pods)
<1> DEFINE P == {p \in Pods : HasPushed(F[p], i)}
           W == {p \in Pods : WillPush(F[p], i)}
<1>1. P \in SUBSET Pods /\ W \in SUBSET Pods /\ P \cup W \in SUBSET Pods
  OBVIOUS
<1>2. P \cap W = {}
  BY DEF HasPushed, WillPush
<1> HIDE DEF P, W
<1>3. Cardinality(P \cup W) = Cardinality(P) + Cardinality(W) - Cardinality(P \cap W)
  BY <1>1, PodSets, FS_Union
<1>4. Cardinality(P \cup W) <= Cardinality(Pods)
  BY <1>1, PodSets
<1>5. Cardinality(P) + Cardinality(W) <= Cardinality(Pods)
  BY <1>1, <1>2, <1>3, <1>4, PodSets, FS_EmptySet
<1> QED BY <1>5 DEF P, W

\* A step that changes the state of one pod changes the two sets by that pod at
\* most.
LEMMA OnePod ==
  ASSUME TypeOK, TypeOK', NEW p \in Pods, NEW i \in Items,
         \A q \in Pods : q # p => flush'[q] = flush[q]
  PROVE  /\ Pushed(i)' = IF HasPushed(flush'[p], i) THEN Pushed(i) \cup {p} ELSE Pushed(i) \ {p}
         /\ Waiting(i)' = IF WillPush(flush'[p], i) THEN Waiting(i) \cup {p} ELSE Waiting(i) \ {p}
         /\ p \in Pushed(i) <=> HasPushed(flush[p], i)
         /\ p \in Waiting(i) <=> WillPush(flush[p], i)
         /\ Cardinality(Pushed(i)) \in Nat /\ Cardinality(Waiting(i)) \in Nat
         /\ Cardinality(Pods) \in Nat
         /\ Cardinality(Pushed(i)') =
              Cardinality(Pushed(i)) + (IF HasPushed(flush'[p], i) THEN 1 ELSE 0)
                                     - (IF HasPushed(flush[p], i) THEN 1 ELSE 0)
         /\ Cardinality(Waiting(i)') =
              Cardinality(Waiting(i)) + (IF WillPush(flush'[p], i) THEN 1 ELSE 0)
                                      - (IF WillPush(flush[p], i) THEN 1 ELSE 0)
<1>1. /\ Pushed(i)' = IF HasPushed(flush'[p], i) THEN Pushed(i) \cup {p} ELSE Pushed(i) \ {p}
      /\ p \in Pushed(i) <=> HasPushed(flush[p], i)
  BY DEF Pushed
<1>2. /\ Waiting(i)' = IF WillPush(flush'[p], i) THEN Waiting(i) \cup {p} ELSE Waiting(i) \ {p}
      /\ p \in Waiting(i) <=> WillPush(flush[p], i)
  BY DEF Waiting
<1>3. Pushed(i) \in SUBSET Pods /\ Waiting(i) \in SUBSET Pods
  BY DEF Pushed, Waiting
<1>4. /\ IsFiniteSet(Pushed(i)) /\ Cardinality(Pushed(i)) \in Nat
      /\ IsFiniteSet(Waiting(i)) /\ Cardinality(Waiting(i)) \in Nat
      /\ Cardinality(Pods) \in Nat
  BY <1>3, PodSets
<1>5. Cardinality(Pushed(i)') =
        Cardinality(Pushed(i)) + (IF HasPushed(flush'[p], i) THEN 1 ELSE 0)
                               - (IF HasPushed(flush[p], i) THEN 1 ELSE 0)
  <2>1. /\ Cardinality(Pushed(i) \cup {p}) =
             IF p \in Pushed(i) THEN Cardinality(Pushed(i)) ELSE Cardinality(Pushed(i)) + 1
        /\ Cardinality(Pushed(i) \ {p}) =
             IF p \in Pushed(i) THEN Cardinality(Pushed(i)) - 1 ELSE Cardinality(Pushed(i))
    BY <1>4, FS_AddElement, FS_RemoveElement
  <2>2. CASE HasPushed(flush'[p], i)
    BY <1>1, <1>4, <2>1, <2>2
  <2>3. CASE ~ HasPushed(flush'[p], i)
    BY <1>1, <1>4, <2>1, <2>3
  <2> QED BY <2>2, <2>3
<1>6. Cardinality(Waiting(i)') =
        Cardinality(Waiting(i)) + (IF WillPush(flush'[p], i) THEN 1 ELSE 0)
                                - (IF WillPush(flush[p], i) THEN 1 ELSE 0)
  <2>1. /\ Cardinality(Waiting(i) \cup {p}) =
             IF p \in Waiting(i) THEN Cardinality(Waiting(i)) ELSE Cardinality(Waiting(i)) + 1
        /\ Cardinality(Waiting(i) \ {p}) =
             IF p \in Waiting(i) THEN Cardinality(Waiting(i)) - 1 ELSE Cardinality(Waiting(i))
    BY <1>4, FS_AddElement, FS_RemoveElement
  <2>2. CASE WillPush(flush'[p], i)
    BY <1>2, <1>4, <2>1, <2>2
  <2>3. CASE ~ WillPush(flush'[p], i)
    BY <1>2, <1>4, <2>1, <2>3
  <2> QED BY <2>2, <2>3
<1> QED BY <1>1, <1>2, <1>4, <1>5, <1>6

\* Every step keeps it.
LEMMA CopyInductive == QueueInv /\ TimeInv /\ CopyInv /\ [Next]_vars => CopyInv'
<1> SUFFICES ASSUME QueueInv, TimeInv, CopyInv, [Next]_vars PROVE CopyInv'
  OBVIOUS
<1>0. /\ TypeOK /\ BatchInv /\ TypeOK' /\ BatchInv'
      /\ breaks \in Nat
      /\ \A i \in Items : /\ copies[i] \in Nat /\ poison[i] \in Nat
                          /\ copies'[i] \in Nat /\ poison'[i] \in Nat
      /\ \A p \in Pods : flush[p] \in FlushStates
  BY QueueAssumption, QueueInductive DEF QueueInv, TypeOK
<1>1. ASSUME UNCHANGED <<flush, copies, poison, breaks>>,
             NEW i \in Items, retry' \subseteq retry \cup {i},
             i \notin retry => copies[i] + poison[i] = 0
      PROVE  CopyInv'
  <2>1. \A j \in Items : Pushed(j)' = Pushed(j) /\ Waiting(j)' = Waiting(j)
    BY <1>1 DEF Pushed, Waiting
  <2>2. Cardinality(Pushed(i)) \in Nat
    BY PodSets DEF Pushed
  <2> QED BY <1>0, <1>1, <2>1, <2>2 DEF CopyInv
<1>2. ASSUME NEW i \in Items, ScheduleRetry(i) \/ EnqueueDelayed(i) PROVE CopyInv'
  <2>1. copies[i] + poison[i] = 0
    BY <1>0, <1>2 DEF TimeInv, ScheduleRetry, EnqueueDelayed
  <2> QED BY <1>1, <1>2, <2>1 DEF ScheduleRetry, EnqueueDelayed
<1>3. ASSUME NEW p \in Pods, FlushRead(p) PROVE CopyInv'
  <2>1. PICK read \in SUBSET Due :
          flush' = [flush EXCEPT ![p] =
              IF read \cap Corrupt = {} THEN ThenFlush(read)
              ELSE [pc |-> "rpush", good |-> read \ Corrupt, bad |-> read \cap Corrupt,
                    todo |-> read \cap Corrupt, failed |-> {}]]
    BY <1>3 DEF FlushRead
  <2>2. UNCHANGED <<retry, copies, poison, breaks>> /\ flush[p].pc = "idle"
    BY <1>3 DEF FlushRead
  <2>3. read \in SUBSET Items /\ read \subseteq retry
    BY <1>0, <2>1 DEF Due, TypeOK
  <2>4. \A i \in Items : ~ HasPushed(flush'[p], i) /\ (WillPush(flush'[p], i) => i \in read)
    BY <1>0, <2>1, <2>3, ThenFlushType DEF HasPushed, WillPush, TypeOK
  <2>5. \A i \in Items : ~ HasPushed(flush[p], i) /\ ~ WillPush(flush[p], i)
    BY <2>2 DEF HasPushed, WillPush
  <2>6. \A q \in Pods : q # p => flush'[q] = flush[q]
    BY <2>1, <1>0 DEF TypeOK
  <2>7. ASSUME NEW i \in Items
        PROVE  /\ i \in retry' => copies'[i] + poison'[i] <= Cardinality(Pushed(i)') + breaks'
               /\ copies'[i] + poison'[i] + Cardinality(Waiting(i)')
                    <= Cardinality(Pods) + breaks'
    <3>1. /\ Cardinality(Pushed(i)) \in Nat /\ Cardinality(Waiting(i)) \in Nat
          /\ Cardinality(Pods) \in Nat
          /\ Cardinality(Pushed(i)') = Cardinality(Pushed(i))
          /\ Cardinality(Waiting(i)') =
               Cardinality(Waiting(i)) + IF WillPush(flush'[p], i) THEN 1 ELSE 0
      BY <1>0, <2>4, <2>5, <2>6, OnePod
    <3>2. Cardinality(Pushed(i)') + Cardinality(Waiting(i)') <= Cardinality(Pods)
      <4>1. \A q \in Pods : flush'[q].good \cap flush'[q].bad = {}
        BY <1>0 DEF BatchInv
      <4> QED BY <4>1, PushedOrWaiting DEF Pushed, Waiting
    <3>3. CASE i \in retry
      BY <1>0, <2>2, <3>1, <3>2, <3>3 DEF CopyInv
    <3>4. CASE i \notin retry
      BY <1>0, <2>2, <2>3, <2>4, <3>1, <3>4 DEF CopyInv
    <3> QED BY <3>3, <3>4
  <2> QED BY <2>7 DEF CopyInv
<1>4. ASSUME NEW p \in Pods, NEW i \in Items, QuarantinePush(p, i) \/ FlushXadd(p, i)
      PROVE  CopyInv'
  <2>1. UNCHANGED <<retry, breaks>>
    BY <1>4 DEF QuarantinePush, FlushXadd
  <2>2. \A q \in Pods : q # p => flush'[q] = flush[q]
    BY <1>0, <1>4 DEF QuarantinePush, FlushXadd, TypeOK
  <2>3. /\ \A j \in Items : j # i => copies'[j] = copies[j] /\ poison'[j] = poison[j]
        /\ copies'[i] + poison'[i] <= copies[i] + poison[i] + 1
    BY <1>0, <1>4 DEF QuarantinePush, FlushXadd, TypeOK
  <2>4. /\ flush'[p].good = flush[p].good /\ flush'[p].bad = flush[p].bad
        /\ flush'[p].todo = flush[p].todo \ {i} /\ i \in flush[p].todo
        /\ \/ /\ flush[p].pc = "rpush"
              /\ flush'[p].pc = IF flush[p].todo = {i} THEN "zremBad" ELSE "rpush"
           \/ /\ flush[p].pc = "xadd"
              /\ flush'[p].pc = IF flush[p].todo = {i} THEN "zrem" ELSE "xadd"
    <3>1. CASE QuarantinePush(p, i)
      BY <1>0, <3>1, RanType DEF QuarantinePush, TypeOK
    <3>2. CASE FlushXadd(p, i)
      BY <1>0, <3>2, RanType DEF FlushXadd, TypeOK
    <3> QED BY <1>4, <3>1, <3>2
  <2>5. /\ flush[p].good \cap flush[p].bad = {}
        /\ flush[p].pc = "rpush" => flush[p].todo \subseteq flush[p].bad
        /\ flush[p].pc = "xadd" => flush[p].todo \subseteq flush[p].good
    BY <1>0 DEF BatchInv
  <2>6. /\ HasPushed(flush'[p], i) /\ ~ HasPushed(flush[p], i)
        /\ ~ WillPush(flush'[p], i) /\ WillPush(flush[p], i)
    BY <2>4, <2>5 DEF HasPushed, WillPush
  <2>7. \A j \in Items : j # i => /\ HasPushed(flush'[p], j) <=> HasPushed(flush[p], j)
                                  /\ WillPush(flush'[p], j) <=> WillPush(flush[p], j)
    BY <2>4, <2>5 DEF HasPushed, WillPush
  <2>8. ASSUME NEW j \in Items
        PROVE  /\ j \in retry' => copies'[j] + poison'[j] <= Cardinality(Pushed(j)') + breaks'
               /\ copies'[j] + poison'[j] + Cardinality(Waiting(j)')
                    <= Cardinality(Pods) + breaks'
    <3>1. /\ Cardinality(Pushed(j)) \in Nat /\ Cardinality(Waiting(j)) \in Nat
          /\ Cardinality(Pods) \in Nat
          /\ Cardinality(Pushed(j)') = Cardinality(Pushed(j)) + IF j = i THEN 1 ELSE 0
          /\ Cardinality(Waiting(j)') = Cardinality(Waiting(j)) - IF j = i THEN 1 ELSE 0
      BY <1>0, <2>2, <2>6, <2>7, OnePod
    <3> QED BY <1>0, <2>1, <2>3, <3>1 DEF CopyInv
  <2> QED BY <2>8 DEF CopyInv
<1>5. ASSUME NEW p \in Pods, QuarantineRemove(p) \/ FlushZrem(p) PROVE CopyInv'
  <2>1. UNCHANGED <<copies, poison, breaks>> /\ retry' \subseteq retry
    BY <1>5 DEF QuarantineRemove, FlushZrem, Zrem
  <2>2. \A q \in Pods : q # p => flush'[q] = flush[q]
    BY <1>0, <1>5 DEF QuarantineRemove, FlushZrem, TypeOK
  <2>3. flush[p].good \in SUBSET Items
    BY <1>0 DEF FlushStates
  <2>4. ASSUME NEW i \in Items
        PROVE  /\ ~ HasPushed(flush'[p], i)
               /\ HasPushed(flush[p], i) => i \notin retry'
               /\ WillPush(flush'[p], i) => WillPush(flush[p], i)
    <3>1. CASE QuarantineRemove(p)
      <4>1. flush'[p] = ThenFlush(flush[p].good)
        BY <1>0, <3>1 DEF QuarantineRemove, TypeOK
      <4> QED BY <2>3, <3>1, <4>1, ThenFlushType DEF QuarantineRemove, Zrem, HasPushed, WillPush
    <3>2. CASE FlushZrem(p)
      <4>1. flush'[p].pc = "idle"
        BY <1>0, <3>2 DEF FlushZrem, TypeOK, IdleFlush
      <4> QED BY <3>2, <4>1 DEF FlushZrem, Zrem, HasPushed, WillPush
    <3> QED BY <1>5, <3>1, <3>2
  <2>5. ASSUME NEW i \in Items
        PROVE  /\ i \in retry' => copies'[i] + poison'[i] <= Cardinality(Pushed(i)') + breaks'
               /\ copies'[i] + poison'[i] + Cardinality(Waiting(i)')
                    <= Cardinality(Pods) + breaks'
    <3>1. /\ Cardinality(Pushed(i)) \in Nat /\ Cardinality(Waiting(i)) \in Nat
          /\ Cardinality(Pods) \in Nat
          /\ i \in retry' => Cardinality(Pushed(i)') = Cardinality(Pushed(i))
          /\ Cardinality(Waiting(i)') \in {Cardinality(Waiting(i)), Cardinality(Waiting(i)) - 1}
      BY <1>0, <2>2, <2>4, OnePod
    <3> QED BY <1>0, <2>1, <3>1 DEF CopyInv
  <2> QED BY <2>5 DEF CopyInv
<1>6. ASSUME NEW p \in Pods, Break(p) \/ Stop(p) PROVE CopyInv'
  <2>1. UNCHANGED <<copies, poison>> /\ retry' \subseteq retry /\ breaks' = breaks + 1
    BY <1>6 DEF Break, Stop, Zrem
  <2>2. \A q \in Pods : q # p => flush'[q] = flush[q]
    BY <1>0, <1>6 DEF Break, Stop, TypeOK
  <2>3. ASSUME NEW i \in Items
        PROVE  /\ i \in retry' => copies'[i] + poison'[i] <= Cardinality(Pushed(i)') + breaks'
               /\ copies'[i] + poison'[i] + Cardinality(Waiting(i)')
                    <= Cardinality(Pods) + breaks'
    <3>1. /\ Cardinality(Pushed(i)) \in Nat /\ Cardinality(Waiting(i)) \in Nat
          /\ Cardinality(Pods) \in Nat
          /\ Cardinality(Pushed(i)') \in Cardinality(Pushed(i)) - 1 .. Cardinality(Pushed(i)) + 1
          /\ Cardinality(Waiting(i)') \in Cardinality(Waiting(i)) - 1 .. Cardinality(Waiting(i)) + 1
      BY <1>0, <2>2, OnePod
    <3> QED BY <1>0, <2>1, <3>1 DEF CopyInv
  <2> QED BY <2>3 DEF CopyInv
<1>7. CASE Tick \/ UNCHANGED vars
  <2>1. \A i \in Items : Pushed(i)' = Pushed(i) /\ Waiting(i)' = Waiting(i)
    BY <1>7 DEF Tick, vars, Pushed, Waiting
  <2> QED BY <1>7, <2>1 DEF Tick, vars, CopyInv
<1> QED BY <1>2, <1>3, <1>4, <1>5, <1>6, <1>7 DEF Next, FlushReady

\* Any number of pods that flush the same members, and any number of broken
\* pipelines, make at most one copy for each pod and one for each break.
THEOREM CopiesBounded == Spec => []DuplicatesBounded
<1>1. Init => QueueInv /\ TimeInv
  BY QueueAssumption
  DEF Init, QueueInv, TypeOK, Accounted, BatchInv, IdleFlush, FlushStates, TimeInv
<1>2. Init => CopyInv
  <2> SUFFICES ASSUME Init, NEW i \in Items
      PROVE  copies[i] + poison[i] + Cardinality(Waiting(i)) <= Cardinality(Pods) + breaks
    BY DEF CopyInv, Init
  <2>1. Waiting(i) \in SUBSET Pods
    BY DEF Waiting
  <2> QED BY <2>1, PodSets DEF Init
<1>3. QueueInv /\ CopyInv => DuplicatesBounded
  <2> SUFFICES ASSUME QueueInv, CopyInv, NEW i \in Items
      PROVE  copies[i] + poison[i] <= Cardinality(Pods) + breaks
    BY DEF DuplicatesBounded
  <2>1. Cardinality(Waiting(i)) \in Nat /\ Cardinality(Pods) \in Nat
    BY PodSets DEF Waiting
  <2>2. copies[i] \in Nat /\ poison[i] \in Nat /\ breaks \in Nat
    BY QueueAssumption DEF QueueInv, TypeOK
  <2> QED BY <2>1, <2>2 DEF CopyInv
<1> QED BY <1>1, <1>2, <1>3, QueueInductive, TimeInductive, CopyInductive, PTL DEF Spec

===============================================================================
