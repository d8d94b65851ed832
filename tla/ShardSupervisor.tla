-------------------------- MODULE ShardSupervisor --------------------------
(* How a shard process that died is started again: scheduleShardRecovery,  *)
(* onShardExit, superviseRuntimes, markSupervisorStarted and resetCircuit  *)
(* of adapters/openclaw.ts, with the circuit breaker they keep in the      *)
(* state store.                                                            *)
(*                                                                         *)
(* The breaker's record is read and written in separate requests to the    *)
(* store, so a member of Calls, one call of scheduleShardRecovery with the *)
(* timer it arms, goes                                                     *)
(*                                                                         *)
(*   asked -> arming -> timer -> syncing -> started -> clearing            *)
(*                                                                         *)
(* with a copy of the record between a read and the write after it.  Time  *)
(* is what it does to the record: failures leave the window of ten         *)
(* minutes, and the ten minutes of an open circuit end.                    *)
EXTENDS Naturals

CONSTANTS Calls, None,
          Limit,        \* failures in the window that open the circuit (5)
          MaxFaults,    \* bound on exits of the child and failing starts
          MaxResets,    \* bound on resets by an administrator
          Reconciles    \* the reconcile timer runs (Redis coordination)

ShardSupervisorAssumption ==
    /\ None \notin Calls
    /\ Limit \in Nat /\ MaxFaults \in Nat /\ MaxResets \in Nat
    /\ Reconciles \in BOOLEAN

VARIABLES running,      \* the shard's child runs
          breaker,      \* the record in the store
          pc, copy,     \* of a call: its step, and what it read of the record
          timer,        \* supervisorTimers: the call whose timer is registered
          faults, resets

vars == <<running, breaker, pc, copy, timer, faults, resets>>

(* openUntil is zero, in the future or in the past. *)
Breaker == [failures : 0 .. Limit + 1, open : {"no", "yes", "past"}, half : BOOLEAN]

Closed == [failures |-> 0, open |-> "no", half |-> FALSE]

TypeOK ==
    /\ running \in BOOLEAN
    /\ breaker \in Breaker
    /\ pc \in [Calls -> {"none", "asked", "arming", "timer", "syncing", "started", "clearing"}]
    /\ copy \in [Calls -> Breaker]
    /\ timer \in Calls \cup {None}
    /\ faults \in 0 .. MaxFaults /\ resets \in 0 .. MaxResets

Init ==
    /\ running = TRUE
    /\ breaker = Closed
    /\ pc = [c \in Calls |-> "none"] /\ copy = [c \in Calls |-> Closed]
    /\ timer = None
    /\ faults = 0 /\ resets = 0

Fault == faults < MaxFaults /\ faults' = faults + 1

(* Mutant: the test for an existing timer is inverted. *)
EnterMutant(c, s) ==
    /\ pc' = [pc EXCEPT ![c] = IF timer = None THEN "none" ELSE "asked"]
    /\ copy' = [copy EXCEPT ![c] = IF timer = None THEN Closed ELSE s]

(* scheduleShardRecovery up to its read: nothing to do if a timer exists.  *)
Enter(c, s) ==
    /\ pc' = [pc EXCEPT ![c] = IF timer = None THEN "asked" ELSE "none"]
    /\ copy' = [copy EXCEPT ![c] = IF timer = None THEN s ELSE Closed]

(* The child dies; onShardExit.  After five healthy minutes its failures   *)
(* no longer count.                                                        *)
Exit(c) ==
    /\ running /\ pc[c] = "none" /\ Fault
    /\ running' = FALSE
    /\ \E s \in {breaker, [breaker EXCEPT !.failures = 0]} : Enter(c, s)
    /\ UNCHANGED <<breaker, timer, resets>>

(* The sweep of superviseRuntimes, every 15 s. *)
Supervise(c) ==
    /\ ~running /\ timer = None /\ pc[c] = "none"
    /\ Enter(c, breaker)
    /\ UNCHANGED <<running, breaker, timer, faults, resets>>

(* The record has been read.  An open circuit, or a half-open one that is  *)
(* being tried, ends the call; else the failure is counted, which opens    *)
(* the circuit or leads to a timer.                                        *)
Refused(s) == s.open = "yes" \/ (s.open = "past" /\ s.half)

(* Mutant: one failure too many is let through. *)
CountedMutant(s) ==
    LET n == s.failures + 1 IN
    IF n > Limit + 1 THEN [failures |-> n, open |-> "yes", half |-> FALSE]
    ELSE [failures |-> n, open |-> s.open, half |-> s.half \/ s.open = "past"]

(* Failures beyond the limit count as one more than it. *)
Counted(s) ==
    LET n == IF s.failures > Limit THEN s.failures ELSE s.failures + 1 IN
    IF n > Limit THEN [failures |-> n, open |-> "yes", half |-> FALSE]
    ELSE [failures |-> n, open |-> s.open, half |-> s.half \/ s.open = "past"]

Decide(c) ==
    /\ pc[c] = "asked"
    /\ \E s \in {copy[c]} :
          IF Refused(s)
          THEN pc' = [pc EXCEPT ![c] = "none"] /\ UNCHANGED breaker
          ELSE /\ breaker' = Counted(s)
               /\ pc' = [pc EXCEPT ![c] = IF Counted(s).open = "yes" THEN "none" ELSE "arming"]
    /\ copy' = [copy EXCEPT ![c] = Closed]
    /\ UNCHANGED <<running, timer, faults, resets>>

(* setTimeout, after the write and the members' status. *)
Arm(c) ==
    /\ pc[c] = "arming"
    /\ pc' = [pc EXCEPT ![c] = "timer"] /\ timer' = c
    /\ UNCHANGED <<running, breaker, copy, faults, resets>>

Fire(c) ==
    /\ pc[c] = "timer"
    /\ pc' = [pc EXCEPT ![c] = "syncing"] /\ timer' = None
    /\ UNCHANGED <<running, breaker, copy, faults, resets>>

(* syncShard starts the child; markSupervisorStarted reads the record. *)
Started(c) ==
    /\ pc[c] = "syncing"
    /\ running' = TRUE
    /\ pc' = [pc EXCEPT ![c] = "started"] /\ copy' = [copy EXCEPT ![c] = breaker]
    /\ UNCHANGED <<breaker, timer, faults, resets>>

(* markSupervisorStarted writes it back, and the recovery reads it again. *)
MarkStarted(c) ==
    /\ pc[c] = "started"
    /\ breaker' = copy[c]
    /\ pc' = [pc EXCEPT ![c] = "clearing"]
    /\ UNCHANGED <<running, copy, timer, faults, resets>>

Clear(c) ==
    /\ pc[c] = "clearing"
    /\ breaker' = [copy[c] EXCEPT !.open = "no", !.half = FALSE]
    /\ pc' = [pc EXCEPT ![c] = "none"] /\ copy' = [copy EXCEPT ![c] = Closed]
    /\ UNCHANGED <<running, timer, faults, resets>>

(* The start fails, and the rejection schedules another recovery. *)
StartFails(c) ==
    /\ pc[c] = "syncing" /\ ~running /\ Fault
    /\ Enter(c, breaker)
    /\ UNCHANGED <<running, breaker, timer, resets>>

(* Mutant: reconciliation respects the breaker. *)
ReconcileMutant ==
    /\ Reconciles /\ ~running /\ breaker = Closed
    /\ running' = TRUE
    /\ UNCHANGED <<breaker, pc, copy, timer, faults, resets>>

(* The reconcile timer synchronises every shard, whatever the breaker. *)
Reconcile ==
    /\ Reconciles /\ ~running
    /\ \/ running' = TRUE /\ UNCHANGED faults
       \/ running' = FALSE /\ Fault
    /\ UNCHANGED <<breaker, pc, copy, timer, resets>>

(* resetCircuit: the registered timer goes, the record is closed, and the  *)
(* shard is synchronised at once.                                          *)
ResetCircuit ==
    /\ resets < MaxResets /\ resets' = resets + 1
    /\ pc' = IF timer = None THEN pc ELSE [pc EXCEPT ![timer] = "none"]
    /\ timer' = None
    /\ breaker' = Closed
    /\ \/ running' = TRUE /\ UNCHANGED faults
       \/ ~running /\ Fault /\ UNCHANGED running
    /\ UNCHANGED copy

(* The oldest failure leaves the window. *)
WindowPasses ==
    /\ breaker.failures > 0 /\ breaker.open # "yes"
    /\ breaker' = [breaker EXCEPT !.failures = @ - 1]
    /\ UNCHANGED <<running, pc, copy, timer, faults, resets>>

(* The circuit has been open for ten minutes; so have its failures been in *)
(* the window.                                                             *)
OpenEnds ==
    /\ breaker.open = "yes"
    /\ breaker' = [breaker EXCEPT !.open = "past", !.failures = 0]
    /\ UNCHANGED <<running, pc, copy, timer, faults, resets>>

CallStep(c) ==
    Decide(c) \/ Arm(c) \/ Fire(c) \/ Started(c) \/ MarkStarted(c) \/ Clear(c)

Next ==
    \/ \E c \in Calls : Exit(c) \/ Supervise(c) \/ CallStep(c) \/ StartFails(c)
    \/ Reconcile \/ ResetCircuit \/ WindowPasses \/ OpenEnds

Spec == Init /\ [][Next]_vars

(* Promises and timers of the process are served, the sweep and the        *)
(* reconcile timer recur, and time passes.                                 *)
FairSpec ==
    /\ Spec
    /\ \A c \in Calls : WF_vars(CallStep(c))
    /\ WF_vars(\E c \in Calls : Supervise(c))
    /\ WF_vars(Reconcile) /\ WF_vars(OpenEnds)

(* Once starts have stopped failing, the shard comes up and stays up:      *)
(* somebody always retries (superviseRuntimes, startSharedTopology).       *)
ShardRecovers == <>[]running
=============================================================================
