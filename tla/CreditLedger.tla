---------------------------- MODULE CreditLedger ----------------------------
(* The credit balance of one user: models/credits.py, the check and the    *)
(* charge of a model call (utils/credit), the daily check-in               *)
(* (routers/checkin.py) and the daily reset (utils/automations.py).        *)
(*                                                                         *)
(* A request reads the balance before the upstream call and is charged     *)
(* when its reply has been streamed.  A check-in reads the balance and     *)
(* writes the sum in one transaction; what may happen between the two is   *)
(* the database's isolation: SQLite holds its write lock from the first    *)
(* INSERT, PostgreSQL lets other writers of the row through.  The reset is *)
(* run by every worker process under a Redis lock and a mark in the        *)
(* configuration.                                                          *)
EXTENDS Integers, FiniteSets

CONSTANTS Reqs,         \* model calls of the user
          Attempts,     \* check-in requests of the user
          Workers,      \* processes that run scheduler_worker_loop
          None,
          Price,        \* total_price of a call with a reply
          Default,      \* credit.default_credit
          Reward,       \* what a check-in draws
          ResetTo,      \* lottery.daily_reset.credit
          Serialised,   \* a transaction excludes other writers (SQLite)
          Redis,        \* app.state.redis is configured
          MaxDay,       \* bound on the days that pass
          MaxAdmin,     \* bound on an administrator's operations
          MaxCrashes    \* bound on crashes of workers

CreditLedgerAssumption ==
    /\ Price \in Nat \ {0} /\ Default \in Nat /\ Reward \in Nat /\ ResetTo \in Nat
    /\ MaxDay \in Nat \ {0} /\ MaxAdmin \in Nat /\ MaxCrashes \in Nat
    /\ Serialised \in BOOLEAN /\ Redis \in BOOLEAN
    /\ None \notin Int

VARIABLES credit,       \* the row's balance, None before there is a row
          log,          \* who wrote a credit_log row
          req,          \* step or outcome of a request
          day,          \* today
          checkins,     \* days with a check-in record
          rewarded,     \* attempts that were paid
          try,          \* of an attempt: step, its day, the balance it read
          mark,         \* lottery.daily_reset.mark
          lock,         \* days whose reset lock is held in Redis
          job,          \* of a worker: step and the day it read
          resets,       \* how often a day's reset was performed
          due,          \* what the committed operations add up to
          admin, crashes

credits == <<credit, log, due>>
checkin == <<checkins, rewarded, try>>
reset   == <<mark, lock, job, resets>>
bounds  == <<admin, crashes>>
vars == <<credits, req, day, checkin, reset, bounds>>

Days == 1 .. MaxDay
Idle == [pc |-> "idle", day |-> 0]

(* A transaction of a check-in is open. *)
Open == {a \in Attempts : try[a].pc = "tx"}

(* A row can be written or inserted: SQLite has one writer; in PostgreSQL  *)
(* only a row that an open transaction has inserted makes others wait.     *)
Free == Open = {} \/ (~Serialised /\ credit # None)

Row(c) == IF c = None THEN Default ELSE c

TypeOK ==
    /\ credit \in Int \cup {None} /\ due \in Int \cup {None}
    /\ log \subseteq Reqs \cup {"admin"}
    /\ req \in [Reqs -> {"new", "routed", "sent", "refused", "paid", "unpaid", "empty", "dropped"}]
    /\ day \in Days /\ checkins \subseteq Days /\ rewarded \subseteq Attempts
    /\ \A a \in Attempts : try[a].pc \in {"idle", "asked", "tx", "done"}
    /\ mark \in 0 .. MaxDay /\ lock \subseteq Days
    /\ job \in [Workers -> [pc : {"idle", "read", "locked", "reset"}, day : 0 .. MaxDay]]
    /\ resets \in [Days -> Nat]
    /\ admin \in 0 .. MaxAdmin /\ crashes \in 0 .. MaxCrashes

Init ==
    /\ credit = None /\ due = None /\ log = {}
    /\ req = [r \in Reqs |-> "new"]
    /\ day = 1
    /\ checkins = {} /\ rewarded = {}
    /\ try = [a \in Attempts |-> [pc |-> "idle", day |-> 0, read |-> 0]]
    /\ mark = 0 /\ lock = {} /\ job = [w \in Workers |-> Idle]
    /\ resets = [d \in Days |-> 0]
    /\ admin = 0 /\ crashes = 0

-----------------------------------------------------------------------------
(* Requests.  check_credit_by_user_id runs in generate_chat_completion and *)
(* again in the provider's route; it creates a missing row.                *)
Check(r) ==
    /\ req[r] \in {"new", "routed"}
    /\ credit = None => Free
    /\ credit' = Row(credit) /\ due' = Row(due)
    /\ req' = [req EXCEPT ![r] =
          CASE Row(credit) < Price -> "refused"
            [] @ = "new"           -> "routed"
            [] OTHER               -> "sent"]
    /\ UNCHANGED <<log, day, checkin, reset, bounds>>

(* Mutant: the debit does not test the balance it applies to. *)
DebitMutant(amount) ==
    credit' = credit - amount

(* UPDATE credit SET credit = credit - amount WHERE credit >= amount. *)
Debit(amount) ==
    credit >= amount /\ credit' = credit - amount

(* The reply has been streamed: CreditDeduct.__exit__ debits and logs it.  *)
Charge(r) ==
    /\ req[r] = "sent" /\ Free
    /\ Debit(Price) /\ due' = due - Price
    /\ log' = log \cup {r}
    /\ req' = [req EXCEPT ![r] = "paid"]
    /\ UNCHANGED <<day, checkin, reset, bounds>>

(* ... or raises 403 after the reply. *)
ChargeFails(r) ==
    /\ req[r] = "sent" /\ Free
    /\ credit < Price
    /\ req' = [req EXCEPT ![r] = "unpaid"]
    /\ UNCHANGED <<credits, day, checkin, reset, bounds>>

(* An empty reply costs nothing, and is logged. *)
ChargeEmpty(r) ==
    /\ req[r] = "sent" /\ Free
    /\ log' = log \cup {r}
    /\ req' = [req EXCEPT ![r] = "empty"]
    /\ UNCHANGED <<credit, due, day, checkin, reset, bounds>>

(* An error of the provider, or an abandoned stream, is not charged. *)
Drop(r) ==
    /\ req[r] = "sent"
    /\ req' = [req EXCEPT ![r] = "dropped"]
    /\ UNCHANGED <<credits, day, checkin, reset, bounds>>

-----------------------------------------------------------------------------
(* The administrator's update_credit_by_user_id. *)
SetCredit(v) ==
    /\ admin < MaxAdmin /\ admin' = admin + 1 /\ Free
    /\ credit' = v /\ due' = v /\ log' = log \cup {"admin"}
    /\ UNCHANGED <<req, day, checkin, reset, crashes>>

AddCredit(v) ==
    /\ admin < MaxAdmin /\ admin' = admin + 1 /\ Free
    /\ credit' = Row(credit) + v /\ due' = Row(due) + v /\ log' = log \cup {"admin"}
    /\ UNCHANGED <<req, day, checkin, reset, crashes>>

TakeCredit(v) ==
    /\ admin < MaxAdmin /\ admin' = admin + 1 /\ Free
    /\ credit # None /\ Debit(v) /\ due' = due - v /\ log' = log \cup {"admin"}
    /\ UNCHANGED <<req, day, checkin, reset, crashes>>

-----------------------------------------------------------------------------
(* Check-in.  has_checked_in and the Redis key that expires after 30 s let *)
(* the attempt through or refuse it.                                       *)
AskCheckin(a) ==
    /\ try[a].pc = "idle" /\ day \notin checkins
    /\ try' = [try EXCEPT ![a] = [pc |-> "asked", day |-> day, read |-> 0]]
    /\ UNCHANGED <<credits, req, day, checkins, rewarded, reset, bounds>>

(* Mutant: no unique index on (user_id, draw_date). *)
UniqueMutant(a) == TRUE

(* The unique index on the record: no other open transaction has inserted  *)
(* the day, and none has committed it.                                     *)
Unique(a) ==
    /\ try[a].day \notin checkins
    /\ \A b \in Open : try[b].day # try[a].day

(* Mutant: the balance is read before the record is inserted. *)
BeginCheckinMutant(a) ==
    /\ try[a].pc = "asked"
    /\ Unique(a)
    /\ try' = [try EXCEPT ![a] = [pc |-> "tx", day |-> @.day, read |-> Row(credit)]]
    /\ UNCHANGED <<credits, req, day, checkins, rewarded, reset, bounds>>

(* The record is inserted and the balance read. *)
BeginCheckin(a) ==
    /\ try[a].pc = "asked" /\ Free /\ Unique(a)
    /\ try' = [try EXCEPT ![a] = [pc |-> "tx", day |-> @.day, read |-> Row(credit)]]
    /\ UNCHANGED <<credits, req, day, checkins, rewarded, reset, bounds>>

(* The sum is written and the transaction committed. *)
CommitCheckin(a) ==
    /\ try[a].pc = "tx"
    /\ credit' = try[a].read + Reward /\ due' = Row(due) + Reward
    /\ checkins' = checkins \cup {try[a].day}
    /\ rewarded' = rewarded \cup {a}
    /\ try' = [try EXCEPT ![a] = [pc |-> "done", day |-> @.day, read |-> 0]]
    /\ UNCHANGED <<log, req, day, reset, bounds>>

(* The insert hits the index, or the transaction fails: nothing remains. *)
FailCheckin(a) ==
    /\ \/ try[a].pc = "asked" /\ try[a].day \in checkins
       \/ try[a].pc = "tx"
    /\ try' = [try EXCEPT ![a] = [pc |-> "done", day |-> @.day, read |-> 0]]
    /\ UNCHANGED <<credits, req, day, checkins, rewarded, reset, bounds>>

-----------------------------------------------------------------------------
(* _check_daily_credit_reset on worker w: the configuration is read, *)
ReadMark(w) ==
    /\ job[w].pc = "idle" /\ mark # day
    /\ job' = [job EXCEPT ![w] = [pc |-> "read", day |-> day]]
    /\ UNCHANGED <<credits, req, day, checkin, mark, lock, resets, bounds>>

(* Mutant: a worker that does not get the lock goes on. *)
TakeLockMutant(w) ==
    /\ job[w].pc = "read"
    /\ lock' = lock \cup {job[w].day}
    /\ job' = [job EXCEPT ![w].pc = "locked"]
    /\ UNCHANGED <<credits, req, day, checkin, mark, resets, bounds>>

(* SET NX of the day's lock; without Redis there is none. *)
TakeLock(w) ==
    /\ job[w].pc = "read"
    /\ LET taken == Redis /\ job[w].day \in lock IN
       /\ lock' = IF Redis THEN lock \cup {job[w].day} ELSE lock
       /\ job' = [job EXCEPT ![w] = IF taken THEN Idle ELSE [pc |-> "locked", day |-> @.day]]
    /\ UNCHANGED <<credits, req, day, checkin, mark, resets, bounds>>

(* the mark is read again and every row is set, *)
ResetAll(w) ==
    /\ job[w].pc = "locked"
    /\ IF mark = job[w].day
       THEN job' = [job EXCEPT ![w] = Idle] /\ UNCHANGED <<credits, resets>>
       ELSE /\ Serialised => Open = {}
            /\ credit' = IF credit = None THEN None ELSE ResetTo
            /\ due' = IF due = None THEN None ELSE ResetTo
            /\ resets' = [resets EXCEPT ![job[w].day] = @ + 1]
            /\ job' = [job EXCEPT ![w].pc = "reset"]
            /\ UNCHANGED log
    /\ UNCHANGED <<req, day, checkin, mark, lock, bounds>>

(* and the mark written. *)
WriteMark(w) ==
    /\ job[w].pc = "reset"
    /\ mark' = job[w].day
    /\ job' = [job EXCEPT ![w] = Idle]
    /\ UNCHANGED <<credits, req, day, checkin, lock, resets, bounds>>

(* A worker dies, and is started again. *)
Crash(w) ==
    /\ job[w].pc # "idle" /\ crashes < MaxCrashes
    /\ crashes' = crashes + 1
    /\ job' = [job EXCEPT ![w] = Idle]
    /\ UNCHANGED <<credits, req, day, checkin, mark, lock, resets, admin>>

(* Mutant: the lock has no expiry. *)
LockExpiresMutant(d) == FALSE /\ d \in lock /\ UNCHANGED vars

(* The lock of a day expires after an hour, longer than the worker that    *)
(* took it needs for its pass.                                             *)
LockExpires(d) ==
    /\ d \in lock
    /\ \A w \in Workers : job[w].pc \in {"locked", "reset"} => job[w].day # d
    /\ lock' = lock \ {d}
    /\ UNCHANGED <<credits, req, day, checkin, mark, job, resets, bounds>>

NextDay ==
    /\ day < MaxDay /\ day' = day + 1
    /\ UNCHANGED <<credits, req, checkin, reset, bounds>>

-----------------------------------------------------------------------------
Job(w) == ReadMark(w) \/ TakeLock(w) \/ ResetAll(w) \/ WriteMark(w)

Next ==
    \/ \E r \in Reqs : Check(r) \/ Charge(r) \/ ChargeFails(r) \/ ChargeEmpty(r) \/ Drop(r)
    \/ \E v \in {0, Price} : SetCredit(v) \/ AddCredit(v) \/ TakeCredit(v)
    \/ \E a \in Attempts : AskCheckin(a) \/ BeginCheckin(a) \/ CommitCheckin(a) \/ FailCheckin(a)
    \/ \E w \in Workers : Job(w) \/ Crash(w)
    \/ \E d \in Days : LockExpires(d)
    \/ NextDay

Spec == Init /\ [][Next]_vars

(* Workers poll forever, open transactions end, and Redis expires keys. *)
FairSpec ==
    /\ Spec
    /\ \A w \in Workers : WF_vars(Job(w))
    /\ \A a \in Attempts : WF_vars(CommitCheckin(a) \/ FailCheckin(a))
    /\ \A d \in Days : WF_vars(LockExpires(d))

-----------------------------------------------------------------------------
(* A balance is never overdrawn, however debits, check-ins and resets      *)
(* overlap (add_credit_by_user_id).                                        *)
NeverOverdrawn == credit # None => credit >= 0

(* No operation is lost: the balance is what the committed operations add  *)
(* up to (add_credit_by_user_id, _create_checkin_record, the reset).       *)
BalanceAccounts == credit = due

(* A day's check-in is paid once, and a failed one does not use up the day *)
(* (_create_checkin_record).                                               *)
OneRewardPerDay ==
    /\ \A a, b \in rewarded : a # b => try[a].day # try[b].day
    /\ checkins = {try[a].day : a \in rewarded}

(* The balances are reset at most once for a day                           *)
(* (_check_daily_credit_reset).                                            *)
ResetOncePerDay == \A d \in Days : resets[d] <= 1

(* A reply that was sent is paid for (check_credit_by_user_id).            *)
PaidInFull == \A r \in Reqs : req[r] # "unpaid"

(* The current day's reset is performed in the end, whatever crashed       *)
(* (_check_daily_credit_reset).                                            *)
EveryDayReset == <>[](resets[day] > 0 /\ mark = day)
=============================================================================
