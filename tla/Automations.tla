---------------------------- MODULE Automations -----------------------------
(* Scheduled prompts of one user: models/automations.py, the routes of     *)
(* routers/automations.py and the scheduler of utils/automations.py, which *)
(* runs in every process.  As with timers, PostgreSQL locks the rows that  *)
(* claim_due selects and SQLite does not.                                  *)
EXTENDS Naturals, FiniteSets

CONSTANTS Autos,        \* automations the user may create
          Workers,      \* processes
          Postgres,     \* the database locks what FOR UPDATE selects
          MaxCount,     \* automations.max_count
          MaxDue,       \* bound on the times an automation becomes due
          MaxEdits,     \* bound on updates, toggles and manual runs
          MaxFaults,    \* bound on claims whose transaction fails
          MaxCrashes    \* bound on crashes of processes

AutomationsAssumption ==
    /\ Postgres \in BOOLEAN /\ MaxCount \in Nat /\ MaxDue \in Nat
    /\ MaxEdits \in Nat /\ MaxFaults \in Nat /\ MaxCrashes \in Nat

VARIABLES row,          \* of an automation: is there, is_active, next_run_at
          creating,     \* create requests that have passed the limit
          sel,          \* rows a process has selected in claim_due
          execs,        \* coroutines of execute_automation
          runs,         \* rows of automation_run, by outcome
          folders,      \* automations whose folder still exists
          occurred,     \* how often an automation has become due
          claimed,      \* how often it was claimed
          started,      \* executions started
          gone,         \* executions lost with a process, and runs deleted
          deleting,     \* delete requests that have deleted the runs
          edits, faults, crashes

bounds == <<edits, faults, crashes>>
ghost  == <<occurred, claimed, started, gone>>
vars   == <<row, creating, deleting, sel, execs, runs, folders, ghost, bounds>>

Absent   == [there |-> FALSE, active |-> FALSE, next |-> "none", folder |-> FALSE]
Outcomes == {"success", "error"}

TypeOK ==
    /\ row \in [Autos -> [there : BOOLEAN, active : BOOLEAN, next : {"none", "future", "due"}, folder : BOOLEAN]]
    /\ creating \subseteq Autos /\ sel \in [Workers -> SUBSET Autos] /\ folders \subseteq Autos
    /\ runs \in [Autos -> [Outcomes -> Nat]] /\ occurred \in [Autos -> Nat] /\ claimed \in [Autos -> Nat]

Init ==
    /\ row = [a \in Autos |-> Absent] /\ creating = {}
    /\ sel = [w \in Workers |-> {}] /\ execs = {}
    /\ runs = [a \in Autos |-> [o \in Outcomes |-> 0]] /\ folders = Autos
    /\ occurred = [a \in Autos |-> 0] /\ claimed = [a \in Autos |-> 0]
    /\ started = [a \in Autos |-> 0] /\ gone = [a \in Autos |-> 0] /\ deleting = {}
    /\ edits = 0 /\ faults = 0 /\ crashes = 0

Locked(a) == Postgres /\ \E w \in Workers : a \in sel[w]
Total(a)  == runs[a]["success"] + runs[a]["error"]
Rows      == {a \in Autos : row[a].there}

(* What next_run_ns may return: an exhausted rule has no next run. *)
Nexts == {"future", "none"}

-----------------------------------------------------------------------------
(* check_automation_limits *)
CheckLimit(a) ==
    /\ ~row[a].there /\ a \notin creating /\ occurred[a] = 0
    /\ Cardinality(Rows) < MaxCount
    /\ creating' = creating \cup {a}
    /\ UNCHANGED <<row, deleting, sel, execs, runs, folders, ghost, bounds>>

(* A rule without a future run was refused by validate_rrule. *)
Create(a) ==
    /\ a \in creating /\ creating' = creating \ {a}
    /\ \E f \in BOOLEAN :
          row' = [row EXCEPT ![a] = [there |-> TRUE, active |-> TRUE, next |-> "future", folder |-> f]]
    /\ UNCHANGED <<deleting, sel, execs, runs, folders, ghost, bounds>>

Edit == edits < MaxEdits /\ edits' = edits + 1

Update(a) ==
    /\ row[a].there /\ ~Locked(a) /\ Edit
    /\ row' = [row EXCEPT ![a].next = "future"]
    /\ UNCHANGED <<creating, deleting, sel, execs, runs, folders, ghost, faults, crashes>>

Toggle(a) ==
    /\ row[a].there /\ ~Locked(a) /\ Edit
    /\ \E n \in Nexts :
          row' = [row EXCEPT ![a] = [there |-> TRUE, active |-> ~@.active, folder |-> @.folder,
                                     next |-> IF @.active THEN "none" ELSE n]]
    /\ UNCHANGED <<creating, deleting, sel, execs, runs, folders, ghost, faults, crashes>>

Exec(w, a) == [w |-> w, a |-> a, n |-> started[a], pc |-> "start"]

(* run_automation_by_id runs it whatever its schedule says. *)
RunNow(w, a) ==
    /\ row[a].there /\ Edit
    /\ execs' = execs \cup {Exec(w, a)}
    /\ started' = [started EXCEPT ![a] = @ + 1]
    /\ UNCHANGED <<row, creating, deleting, sel, runs, folders, occurred, claimed, gone, faults, crashes>>

(* delete_automation_by_id: the runs go in a transaction of their own. *)
DeleteRuns(a) ==
    /\ row[a].there /\ a \notin deleting /\ Edit
    /\ runs' = [runs EXCEPT ![a] = [o \in Outcomes |-> 0]]
    /\ gone' = [gone EXCEPT ![a] = @ + Total(a)]
    /\ deleting' = deleting \cup {a}
    /\ UNCHANGED <<row, creating, sel, execs, folders, occurred, claimed, started, faults, crashes>>

DeleteRow(a) ==
    /\ a \in deleting /\ ~Locked(a)
    /\ row' = [row EXCEPT ![a] = Absent] /\ deleting' = deleting \ {a}
    /\ UNCHANGED <<creating, sel, execs, runs, folders, ghost, bounds>>

(* The folder of an automation is deleted. *)
DeleteFolder(a) ==
    /\ a \in folders /\ folders' = folders \ {a}
    /\ UNCHANGED <<row, creating, deleting, sel, execs, runs, ghost, bounds>>

-----------------------------------------------------------------------------
TimePasses(a) ==
    /\ row[a].next = "future" /\ ~Locked(a) /\ occurred[a] < MaxDue
    /\ row' = [row EXCEPT ![a].next = "due"]
    /\ occurred' = [occurred EXCEPT ![a] = @ + 1]
    /\ UNCHANGED <<creating, deleting, sel, execs, runs, folders, claimed, started, gone, bounds>>

Due(a) == row[a].there /\ row[a].active /\ row[a].next = "due"

(* Mutant: rows that another process has locked are taken as well. *)
SelectMutant(w) ==
    /\ sel[w] = {} /\ {a \in Autos : Due(a)} # {}
    /\ sel' = [sel EXCEPT ![w] = {a \in Autos : Due(a)}]
    /\ UNCHANGED <<row, creating, deleting, execs, runs, folders, ghost, bounds>>

(* claim_due: SELECT ... FOR UPDATE SKIP LOCKED on PostgreSQL, *)
Select(w) ==
    /\ sel[w] = {} /\ {a \in Autos : Due(a) /\ ~Locked(a)} # {}
    /\ sel' = [sel EXCEPT ![w] = {a \in Autos : Due(a) /\ ~Locked(a)}]
    /\ UNCHANGED <<row, creating, deleting, execs, runs, folders, ghost, bounds>>

(* Mutant: a row whose rule has no next run is passed over. *)
ClaimMutant(w) ==
    /\ sel[w] # {} /\ \A a \in sel[w] : row[a].there
    /\ \E T \in SUBSET sel[w], n \in Nexts :
          LET took == IF n = "none" THEN {} ELSE sel[w] \ T
          IN  /\ Cardinality(T) <= MaxFaults - faults /\ faults' = faults + Cardinality(T)
              /\ row' = [a \in Autos |-> IF a \in took THEN [row[a] EXCEPT !.next = n] ELSE row[a]]
              /\ execs' = execs \cup {Exec(w, a) : a \in took}
              /\ claimed' = [a \in Autos |-> IF a \in took THEN claimed[a] + 1 ELSE claimed[a]]
              /\ started' = [a \in Autos |-> IF a \in took THEN started[a] + 1 ELSE started[a]]
    /\ sel' = [sel EXCEPT ![w] = {}]
    /\ UNCHANGED <<creating, deleting, runs, folders, occurred, gone, edits, crashes>>

(* and the UPDATE: a row whose rule takes too long is skipped. *)
Claim(w) ==
    /\ sel[w] # {} /\ \A a \in sel[w] : row[a].there
    /\ \E T \in SUBSET sel[w], n \in Nexts :
          LET took == sel[w] \ T
          IN  /\ Cardinality(T) <= MaxFaults - faults /\ faults' = faults + Cardinality(T)
              /\ row' = [a \in Autos |-> IF a \in took THEN [row[a] EXCEPT !.next = n] ELSE row[a]]
              /\ execs' = execs \cup {Exec(w, a) : a \in took}
              /\ claimed' = [a \in Autos |-> IF a \in took THEN claimed[a] + 1 ELSE claimed[a]]
              /\ started' = [a \in Autos |-> IF a \in took THEN started[a] + 1 ELSE started[a]]
    /\ sel' = [sel EXCEPT ![w] = {}]
    /\ UNCHANGED <<creating, deleting, runs, folders, occurred, gone, edits, crashes>>

(* The transaction fails: a row is gone, or the database is. *)
ClaimFails(w) ==
    /\ sel[w] # {}
    /\ IF \A a \in sel[w] : row[a].there
       THEN faults < MaxFaults /\ faults' = faults + 1
       ELSE UNCHANGED faults
    /\ sel' = [sel EXCEPT ![w] = {}]
    /\ UNCHANGED <<row, creating, deleting, execs, runs, folders, ghost, edits, crashes>>

-----------------------------------------------------------------------------
(* execute_automation. *)
Record(e, o) == runs' = [runs EXCEPT ![e.a][o] = @ + 1] /\ execs' = execs \ {e}

(* The owner is there, active and permitted; the chat or the channel       *)
(* messages are written.  A folder that is gone is cleared.                *)
Begin(e) ==
    /\ e.pc = "start"
    /\ execs' = (execs \ {e}) \cup {[w |-> e.w, a |-> e.a, n |-> e.n, pc |-> "reply"]}
    /\ row' = IF row[e.a].folder /\ e.a \notin folders
              THEN [row EXCEPT ![e.a].folder = FALSE] ELSE row
    /\ UNCHANGED <<creating, deleting, sel, runs, folders, ghost, bounds>>

(* Mutant: an owner who is not permitted ends the run silently. *)
RefuseMutant(e) ==
    /\ e.pc = "start"
    /\ execs' = execs \ {e}
    /\ UNCHANGED <<row, creating, deleting, sel, runs, folders, ghost, bounds>>

(* They are not, or the chat cannot be created. *)
Refuse(e) ==
    /\ e.pc = "start"
    /\ Record(e, "error")
    /\ UNCHANGED <<row, creating, deleting, sel, folders, ghost, bounds>>

(* The pipeline was awaited and the reply is done. *)
Succeed(e) ==
    /\ e.pc = "reply"
    /\ Record(e, "success")
    /\ UNCHANGED <<row, creating, deleting, sel, folders, ghost, bounds>>

(* The reply has an error, is not done, or was cancelled. *)
Fail(e) ==
    /\ e.pc = "reply"
    /\ Record(e, "error")
    /\ UNCHANGED <<row, creating, deleting, sel, folders, ghost, bounds>>

Crash(w) ==
    /\ crashes < MaxCrashes /\ crashes' = crashes + 1
    /\ sel' = [sel EXCEPT ![w] = {}]
    /\ execs' = {e \in execs : e.w # w}
    /\ gone' = [a \in Autos |-> gone[a] + Cardinality({e \in execs : e.w = w /\ e.a = a})]
    /\ UNCHANGED <<row, creating, deleting, runs, folders, occurred, claimed, started, edits, faults>>

Step(e) == Begin(e) \/ Refuse(e) \/ Succeed(e) \/ Fail(e)

Next ==
    \/ \E a \in Autos :
          \/ CheckLimit(a) \/ Create(a) \/ Update(a) \/ Toggle(a)
          \/ DeleteRuns(a) \/ DeleteRow(a) \/ DeleteFolder(a) \/ TimePasses(a)
    \/ \E w \in Workers :
          \/ Select(w) \/ Claim(w) \/ ClaimFails(w) \/ Crash(w)
          \/ \E a \in Autos : RunNow(w, a)
    \/ \E e \in execs : Step(e)

Spec == Init /\ [][Next]_vars

(* Every process polls; coroutines run; time passes. *)
LiveSpec ==
    /\ Spec
    /\ \A w \in Workers :
          WF_vars(Select(w)) /\ WF_vars(Claim(w) \/ ClaimFails(w))
            /\ WF_vars(\E e \in execs : e.w = w /\ Step(e))

-----------------------------------------------------------------------------
(* "Advances next_run_at immediately so the row can never be               *)
(* double-claimed": an automation is claimed at most once for each time it *)
(* became due.                                                             *)
ClaimedOnce == \A a \in Autos : claimed[a] <= occurred[a]

(* No execution ends without a row in automation_run: those started are    *)
(* running, recorded, or were lost with their process or deleted since; a  *)
(* run that was refused, failed or cancelled is seen.                      *)
Recorded ==
    \A a \in Autos : started[a] = Total(a) + gone[a] + Cardinality({e \in execs : e.a = a})

(* "Enforce global automation limits": a user has no more than             *)
(* automations.max_count automations.                                      *)
LimitHolds == Cardinality(Rows) <= MaxCount

(* A due automation is claimed, or no longer due: a process that dies or   *)
(* fails while it holds the rows does not lose them.                       *)
DueIsClaimed == \A a \in Autos : Due(a) ~> ~Due(a)
=============================================================================
