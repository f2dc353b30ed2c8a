----------------------------- MODULE PoolContract -----------------------------
(***************************************************************************)
(* What a supervisor promises the process it runs in: workers are launched *)
(* only while its loop runs and only into a free slot, so that at most     *)
(* size of them hold one.  A worker counts itself in only when it is       *)
(* scheduled, which may be after the supervisor has returned, and gives    *)
(* its slot back before it counts itself out; so the counter the drain     *)
(* waits for may be below or above the number of slots that are taken.     *)
(***************************************************************************)
EXTENDS Integers

VARIABLES
  size,     \* places of the semaphore
  phase,    \* of the supervisor: off, loop, drain, done
  slots,    \* places taken
  spawned,  \* workers launched and not counted yet
  active    \* workers counted

vars == <<size, phase, slots, spawned, active>>

Init ==
  /\ phase \in {"off", "loop"}
  /\ slots = 0 /\ spawned = 0 /\ active = 0

\* The supervisor starts, stops launching, and returns; or it cannot start.
Advance ==
  /\ <<phase, phase'>> \in
       {<<"off", "loop">>, <<"off", "done">>, <<"loop", "drain">>, <<"drain", "done">>}
  /\ UNCHANGED <<size, slots, spawned, active>>

Launch ==
  /\ phase = "loop" /\ slots < size
  /\ slots' = slots + 1 /\ spawned' = spawned + 1
  /\ UNCHANGED <<size, phase, active>>

Begin ==
  /\ spawned > 0
  /\ spawned' = spawned - 1 /\ active' = active + 1
  /\ UNCHANGED <<size, phase, slots>>

\* Only a worker that has begun gives a slot back ...
Release ==
  /\ slots > spawned
  /\ slots' = slots - 1
  /\ UNCHANGED <<size, phase, spawned, active>>

\* ... and only one that has given it back counts itself out.
Leave ==
  /\ active > slots - spawned
  /\ active' = active - 1
  /\ UNCHANGED <<size, phase, slots, spawned>>

Next == Advance \/ Launch \/ Begin \/ Release \/ Leave

Spec == Init /\ [][Next]_vars

===============================================================================
