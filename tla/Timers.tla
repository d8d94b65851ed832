------------------------------- MODULE Timers -------------------------------
(* The one-shot timers of one chat: utils/timers.py, the loop that polls   *)
(* for them in every process (utils/automations.py) and the deletion of    *)
(* the chat they belong to (routers/chats.py).                             *)
(*                                                                         *)
(* A timer is a row.  A process selects rows that are due, marks them      *)
(* running under a fresh claim in the same transaction, and starts a       *)
(* coroutine for each.  PostgreSQL locks the rows from the SELECT on;      *)
(* SQLite begins its transaction at the UPDATE, so that the rows may have  *)
(* changed since they were read.                                           *)
EXTENDS Naturals, FiniteSets, FiniteSetsExt

CONSTANTS Timers,       \* timers that replies of the chat may set
          Cancellable,  \* those with the event of the cancelling request in cancel_on
          Workers,      \* processes that run scheduler_worker_loop
          None,
          Postgres,     \* the database locks what FOR UPDATE selects
          MaxReplies,   \* bound on replies of the chat that are not a timer's
          MaxCancels,   \* bound on requests that cancel
          MaxDeletes,   \* 1 when the chat may be deleted
          MaxCrashes    \* bound on crashes of processes

TimersAssumption ==
    /\ Cancellable \subseteq Timers /\ Postgres \in BOOLEAN /\ None \notin Nat
    /\ MaxReplies \in Nat /\ MaxCancels \in Nat /\ MaxDeletes \in {0, 1} /\ MaxCrashes \in Nat

VARIABLES row,          \* of a timer: meta.status and meta.timer_claim_id
          sel,          \* rows a process has selected and not yet written
          jobs,         \* coroutines of execute_due_timer
          busy,         \* has_active_tasks of the chat
          canc,         \* rows the cancelling request has selected
          children,     \* rows the deletion of the chat has listed
          chat,         \* "there", "deleting" or "gone"
          hist,         \* timers whose messages are in the chat's history
          fires,        \* how often a timer has fired
          replies, cancels, crashes

env  == <<replies, cancels, crashes>>
del  == <<chat, children>>
vars == <<row, sel, jobs, busy, canc, del, hist, fires, env>>

Status == {"unset", "pending", "running", "completed", "error", "cancelled", "deleted"}
Absent == {"unset", "deleted"}

TypeOK ==
    /\ row \in [Timers -> [status : Status, claim : Nat \cup {None}]]
    /\ sel \in [Workers -> SUBSET Timers] /\ canc \subseteq Timers /\ children \subseteq Timers
    /\ \A j \in jobs : j.pc \in {"queued", "ready", "tx", "write", "fire"}
    /\ busy \in BOOLEAN /\ chat \in {"there", "deleting", "gone"} /\ hist \subseteq Timers
    /\ fires \in [Timers -> Nat]

Init ==
    /\ row = [t \in Timers |-> [status |-> "unset", claim |-> None]]
    /\ sel = [w \in Workers |-> {}] /\ jobs = {} /\ busy = TRUE
    /\ canc = {} /\ children = {} /\ chat = "there" /\ hist = {}
    /\ fires = [t \in Timers |-> 0]
    /\ replies = 0 /\ cancels = 0 /\ crashes = 0

Put(t, status) ==
    row' = [row EXCEPT ![t] =
              IF @.status \in Absent THEN @ ELSE [status |-> status, claim |-> @.claim]]

(* Mutant: the SELECT has no FOR UPDATE. *)
LockedMutant(t) == FALSE

(* A row that an open transaction has locked. *)
Locked(t) == Postgres /\ \E w \in Workers : t \in sel[w]

-----------------------------------------------------------------------------
(* A reply of the chat calls the tool. *)
Create(t) ==
    /\ busy /\ chat = "there" /\ row[t].status = "unset"
    /\ row' = [row EXCEPT ![t] = [status |-> "pending", claim |-> @.claim]]
    /\ UNCHANGED <<sel, jobs, busy, canc, del, hist, fires, env>>

ReplyStarts ==
    /\ ~busy /\ chat = "there" /\ replies < MaxReplies
    /\ busy' = TRUE /\ replies' = replies + 1
    /\ UNCHANGED <<row, sel, jobs, canc, del, hist, fires, cancels, crashes>>

ReplyEnds ==
    /\ busy /\ busy' = FALSE
    /\ UNCHANGED <<row, sel, jobs, canc, del, hist, fires, env>>

-----------------------------------------------------------------------------
(* claim_due_timers.  Which pending timers are due is left open. *)
Select(w) ==
    /\ sel[w] = {}
    /\ \E S \in SUBSET {t \in Timers : row[t].status = "pending" /\ ~Locked(t)} :
          S # {} /\ sel' = [sel EXCEPT ![w] = S]
    /\ UNCHANGED <<row, jobs, busy, canc, del, hist, fires, env>>

Claims == {row[t].claim : t \in Timers} \cup {j.claim : j \in jobs}
Fresh  == Min({c \in 1 .. Cardinality(Claims) + 1 : c \notin Claims})

(* A row that is gone fails the UPDATE of all of them. *)
Claim(w) ==
    /\ sel[w] # {} /\ \A t \in sel[w] : row[t].status # "deleted"
    /\ row' = [t \in Timers |->
                 IF t \in sel[w] THEN [status |-> "running", claim |-> Fresh] ELSE row[t]]
    /\ jobs' = jobs \cup
          {[w |-> w, t |-> t, claim |-> Fresh, pc |-> "queued", hist |-> {}] : t \in sel[w]}
    /\ sel' = [sel EXCEPT ![w] = {}]
    /\ UNCHANGED <<busy, canc, del, hist, fires, env>>

ClaimFails(w) ==
    /\ \E t \in sel[w] : row[t].status = "deleted"
    /\ sel' = [sel EXCEPT ![w] = {}]
    /\ UNCHANGED <<row, jobs, busy, canc, del, hist, fires, env>>

-----------------------------------------------------------------------------
(* execute_due_timer. *)
Ends(j) == jobs' = jobs \ {j}
Becomes(j, pc, h) ==
    jobs' = (jobs \ {j}) \cup {[w |-> j.w, t |-> j.t, claim |-> j.claim, pc |-> pc, hist |-> h]}
Goes(j, pc) == Becomes(j, pc, j.hist)

(* _timer_locks: a process runs one coroutine of a timer at a time. *)
TimerLock(j) == \A k \in jobs : k.w = j.w /\ k.t = j.t => k.pc = "queued"

Mine(j) == row[j.t].status = "running" /\ row[j.t].claim = j.claim

(* The row is gone, was cancelled or belongs to another claim. *)
Yield(j) ==
    /\ j.pc = "queued" /\ TimerLock(j) /\ ~Mine(j)
    /\ Ends(j)
    /\ UNCHANGED <<row, sel, busy, canc, del, hist, fires, env>>

(* The chat, the prompt, the owner, their role and the model are read. *)
Prepare(j) ==
    /\ j.pc = "queued" /\ TimerLock(j) /\ Mine(j) /\ chat # "gone"
    /\ Goes(j, "ready")
    /\ UNCHANGED <<row, sel, busy, canc, del, hist, fires, env>>

(* One of them is missing, or the chat is gone when it is locked. *)
Error(j) ==
    /\ \/ j.pc = "queued" /\ TimerLock(j) /\ Mine(j)
       \/ j.pc = "ready" /\ chat = "gone"
    /\ Put(j.t, "error") /\ Ends(j)
    /\ UNCHANGED <<sel, busy, canc, del, hist, fires, env>>

(* Mutant: the chat is read without a lock. *)
ParentLockMutant(j) == TRUE

(* _parent_locks within a process, FOR UPDATE on PostgreSQL. *)
ParentLock(j) ==
    \A k \in jobs : k.pc \in {"tx", "write"} => k.w # j.w /\ ~Postgres

Enter(j) ==
    /\ j.pc = "ready" /\ ParentLock(j) /\ chat # "gone"
    /\ Becomes(j, "tx", hist)
    /\ UNCHANGED <<row, sel, busy, canc, del, hist, fires, env>>

(* Mutant: the timer stays running when the chat is busy. *)
RequeueMutant(j) ==
    /\ j.pc = "tx" /\ busy
    /\ Ends(j)
    /\ UNCHANGED <<row, sel, busy, canc, del, hist, fires, env>>

(* Mutant: the timer is put back, and the coroutine goes on. *)
RequeueReturnMutant(j) ==
    /\ j.pc = "tx" /\ busy
    /\ row' = [row EXCEPT ![j.t] =
                 IF @.status \in Absent THEN @ ELSE [status |-> "pending", claim |-> None]]
    /\ Goes(j, "write")
    /\ UNCHANGED <<sel, busy, canc, del, hist, fires, env>>

(* A reply of the chat is running: the timer is due again. *)
Requeue(j) ==
    /\ j.pc = "tx" /\ busy
    /\ row' = [row EXCEPT ![j.t] =
                 IF @.status \in Absent THEN @ ELSE [status |-> "pending", claim |-> None]]
    /\ Ends(j)
    /\ UNCHANGED <<sel, busy, canc, del, hist, fires, env>>

Quiet(j) ==
    /\ j.pc = "tx" /\ ~busy
    /\ Goes(j, "write")
    /\ UNCHANGED <<row, sel, busy, canc, del, hist, fires, env>>

(* The messages are put into the history that was read, and the timer is   *)
(* completed, in one transaction.                                          *)
Fire(j) ==
    /\ j.pc = "write" /\ chat # "gone"
    /\ hist' = j.hist \cup {j.t}
    /\ fires' = [fires EXCEPT ![j.t] = @ + 1]
    /\ Put(j.t, "completed")
    /\ Becomes(j, "fire", {})
    /\ UNCHANGED <<sel, busy, canc, del, env>>

(* The chat was deleted under the transaction, which fails. *)
FireFails(j) ==
    /\ j.pc = "write" /\ chat = "gone"
    /\ Ends(j)
    /\ UNCHANGED <<row, sel, busy, canc, del, hist, fires, env>>

(* CHAT_COMPLETION_HANDLER starts the reply ... *)
Handle(j) ==
    /\ j.pc = "fire" /\ chat # "gone"
    /\ busy' = TRUE /\ Ends(j)
    /\ UNCHANGED <<row, sel, canc, del, hist, fires, env>>

(* ... or raises: the timer and its message become errors. *)
HandleFails(j) ==
    /\ j.pc = "fire"
    /\ Put(j.t, "error") /\ Ends(j)
    /\ UNCHANGED <<sel, busy, canc, del, hist, fires, env>>

-----------------------------------------------------------------------------
(* cancel_timers_for_chat. *)
CancelSelect ==
    /\ canc = {} /\ cancels < MaxCancels
    /\ canc' = {t \in Cancellable : row[t].status = "pending"} /\ canc' # {}
    /\ cancels' = cancels + 1
    /\ UNCHANGED <<row, sel, jobs, busy, del, hist, fires, replies, crashes>>

CancelWrite ==
    /\ canc # {} /\ \A t \in canc : ~Locked(t)
    /\ row' = [t \in Timers |->
                 IF t \in canc /\ \A u \in canc : row[u].status # "deleted"
                 THEN [status |-> "cancelled", claim |-> row[t].claim] ELSE row[t]]
    /\ canc' = {}
    /\ UNCHANGED <<sel, jobs, busy, del, hist, fires, env>>

(* delete_chat_by_id: the running replies are stopped, the timers listed   *)
(* and deleted one by one, and then the chat.                              *)
Delete ==
    /\ MaxDeletes = 1 /\ chat = "there" /\ chat' = "deleting"
    /\ busy' = FALSE
    /\ children' = {t \in Timers : row[t].status \notin Absent}
    /\ UNCHANGED <<row, sel, jobs, canc, hist, fires, env>>

DeleteChild(t) ==
    /\ t \in children /\ ~Locked(t)
    /\ row' = [row EXCEPT ![t] = [status |-> "deleted", claim |-> None]]
    /\ children' = children \ {t}
    /\ UNCHANGED <<sel, jobs, busy, canc, chat, hist, fires, env>>

DeleteChat ==
    /\ chat = "deleting" /\ children = {}
    /\ Postgres => \A j \in jobs : j.pc \notin {"tx", "write"}
    /\ chat' = "gone" /\ hist' = {}
    /\ UNCHANGED <<row, sel, jobs, busy, canc, children, fires, env>>

(* A process dies: its transaction is rolled back, its coroutines end. *)
Crash(w) ==
    /\ crashes < MaxCrashes /\ crashes' = crashes + 1
    /\ sel' = [sel EXCEPT ![w] = {}]
    /\ jobs' = {j \in jobs : j.w # w}
    /\ UNCHANGED <<row, busy, canc, del, hist, fires, replies, cancels>>

Step(j) ==
    Yield(j) \/ Prepare(j) \/ Error(j) \/ Enter(j) \/ Requeue(j) \/ Quiet(j)
      \/ Fire(j) \/ FireFails(j) \/ Handle(j) \/ HandleFails(j)

Next ==
    \/ \E t \in Timers : Create(t) \/ DeleteChild(t)
    \/ ReplyStarts \/ ReplyEnds
    \/ \E w \in Workers : Select(w) \/ Claim(w) \/ ClaimFails(w) \/ Crash(w)
    \/ \E j \in jobs : Step(j)
    \/ CancelSelect \/ CancelWrite \/ Delete \/ DeleteChat

Spec == Init /\ [][Next]_vars

(* A process polls every TIMER_POLL_INTERVAL and runs its coroutines;      *)
(* replies end; a request runs to its end.                                 *)
Fairness ==
    /\ WF_vars(ReplyEnds) /\ WF_vars(CancelWrite) /\ WF_vars(DeleteChat)
    /\ \A t \in Timers : WF_vars(DeleteChild(t))
    /\ \A w \in Workers :
          /\ WF_vars(Claim(w) \/ ClaimFails(w))
          /\ \A t \in Timers :
                /\ WF_vars(Select(w) /\ t \in sel'[w])
                /\ WF_vars(\E j \in jobs : j.w = w /\ j.t = t /\ Step(j))

LiveSpec == Spec /\ Fairness

-----------------------------------------------------------------------------
(* "Durable one-shot timers": the prompt of a timer is sent into the chat  *)
(* at most once (execute_due_timer), whatever the processes, cancellations *)
(* and busy chats do.                                                      *)
FiresOnce == \A t \in Timers : fires[t] <= 1

(* The messages of every timer that has fired are in the history of the    *)
(* chat: execute_due_timer writes back a copy of the whole history, which  *)
(* must not undo another timer's.                                          *)
HistoryKept == chat # "gone" => \A t \in Timers : fires[t] > 0 => t \in hist

(* A running timer has a coroutine that will settle it under the claim of  *)
(* the row: claim_due_timers only looks at pending ones.                   *)
RunningIsHeld ==
    \A t \in Timers : row[t].status = "running" =>
        \E j \in jobs : j.t = t /\ j.claim = row[t].claim

(* A timer is done with. *)
Settled(t) == row[t].status \in {"completed", "error", "cancelled", "deleted"}

(* A timer that has been set fires, fails, is cancelled or is deleted,     *)
(* however often a busy chat makes execute_due_timer put it back.          *)
Durable == \A t \in Timers : row[t].status = "pending" ~> Settled(t)

(* "Optional events that cancel the timer before it fires": a cancelled    *)
(* timer does not fire.                                                    *)
CancelHolds ==
    [][\A t \in Timers : row[t].status = "cancelled" => fires'[t] = fires[t]]_vars
=============================================================================
