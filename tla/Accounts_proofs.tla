-------------------------- MODULE Accounts_proofs ---------------------------
(***************************************************************************)
(* Proofs about what belongs to a user: the balance of credits, the        *)
(* automations, which several processes claim from one table, and the      *)
(* answers of the guests in a calendar.                                    *)
(* A component after the first is an instance, and a theorem speaks of the *)
(* variables of its own component only.                                    *)
(***************************************************************************)
EXTENDS CreditLedger, TLAPS

CONSTANTS Autos, Postgres, MaxCount, MaxDue, MaxEdits, MaxFaults, Cals, Events, Guests,
          Requests, MaxOps

VARIABLES row, creating, sel, execs, runs, folders, occurred, claimed, started, gone, deleting,
          edits, faults, cal, event, rsvp, shared, chosen, made

(* What the provers may take for a step, on a busy machine. *)
USE ZenonT(3), SMTT(30), ZenonT(30)

-----------------------------------------------------------------------------
(* The credits of a user, for every set of requests, check-ins and workers, *)
(* every price and reward and every number of days and crashes.             *)

(* No worker dies between the reset and the mark, and either one process   *)
(* runs the scheduler, or the processes share a Redis and no pass lasts    *)
(* past midnight (one day is modelled).                                    *)
OrderlyResets ==
    /\ MaxCrashes = 0
    /\ (\A v, w \in Workers : v = w) \/ (Redis /\ MaxDay = 1)

(* An attempt carries its day and, inside its transaction, a balance. *)
TryInv ==
    /\ try \in [Attempts -> [pc : {"idle", "asked", "tx", "done"}, day : 0 .. MaxDay, read : Nat]]
    /\ \A a \in Attempts : try[a].pc \in {"asked", "tx"} => try[a].day \in Days
    /\ \A a \in rewarded : try[a].pc = "done"

(* There is a row once a request was let through, and what the committed   *)
(* operations add up to is counted from then on.                           *)
RowInv ==
    /\ credit # None => credit \in Nat
    /\ credit = None <=> due = None
    /\ \A r \in Reqs : req[r] = "sent" => credit # None

(* One transaction at a time, and nobody else has written since it read. *)
SerialInv ==
    Serialised => /\ credit = due
                  /\ \A a \in Open : try[a].read = Row(credit)
                  /\ \A a, b \in Open : a = b

(* The days of open transactions and of committed ones are all different. *)
UniqueInv ==
    /\ \A a \in Open : try[a].day \notin checkins
    /\ \A a, b \in Open : a # b => try[a].day # try[b].day
    /\ OneRewardPerDay

(* One worker at a time is between its second look and the mark ... *)
PassInv ==
    /\ \A w \in Workers : job[w].pc # "idle" => job[w].day \in Days /\ job[w].day <= day
    /\ mark <= day
    /\ Redis => \A w \in Workers : job[w].pc \in {"locked", "reset"} => job[w].day \in lock
    /\ Redis => \A v, w \in Workers :
          (/\ job[v].pc \in {"locked", "reset"} /\ job[w].pc \in {"locked", "reset"}
           /\ job[v].day = job[w].day) => v = w

(* ... and a day that was reset is marked, or about to be. *)
ResetInv ==
    OrderlyResets =>
        /\ \A w \in Workers : job[w].pc # "idle" => mark <= job[w].day
        /\ \A d \in Days : resets[d] > 0 =>
              \/ mark >= d
              \/ \E w \in Workers : job[w].pc = "reset" /\ job[w].day = d
        /\ ResetOncePerDay

(* The inductive invariant. *)
IInv ==
    /\ TypeOK /\ TryInv /\ RowInv /\ SerialInv /\ UniqueInv /\ PassInv /\ ResetInv

-----------------------------------------------------------------------------
LEMMA InitIInv == CreditLedgerAssumption /\ Init => IInv
<1> SUFFICES ASSUME CreditLedgerAssumption, Init PROVE IInv
  OBVIOUS
<1> USE DEF CreditLedgerAssumption, Init
<1>1. TypeOK
  BY DEF TypeOK, Days, Idle
<1>2. Open = {} /\ TryInv
  BY DEF Open, TryInv, Days
<1>3. RowInv /\ SerialInv /\ UniqueInv
  BY <1>2 DEF RowInv, SerialInv, UniqueInv, OneRewardPerDay
<1>4. PassInv /\ ResetInv
  BY DEF PassInv, ResetInv, ResetOncePerDay, Days, Idle
<1> QED
  BY <1>1, <1>2, <1>3, <1>4 DEF IInv

(* What the parts of the state that a step leaves alone keep. *)
LEMMA CheckinKept ==
    ASSUME IInv, UNCHANGED checkin
    PROVE  TryInv' /\ UniqueInv' /\ Open' = Open
  BY DEF IInv, TryInv, UniqueInv, OneRewardPerDay, Open, checkin

LEMMA ResetKept ==
    ASSUME IInv, UNCHANGED <<reset, day>>
    PROVE  PassInv' /\ ResetInv'
  BY DEF IInv, PassInv, ResetInv, ResetOncePerDay, OrderlyResets, reset

(* The balance and what is due change together, while no transaction of a  *)
(* check-in is open if those exclude each other.                           *)
LEMMA WriteKeeps ==
    ASSUME CreditLedgerAssumption, IInv, UNCHANGED checkin, Serialised => Open = {},
           credit' \in Nat, due' \in Int, credit = due => credit' = due',
           \A r \in Reqs : req'[r] = "sent" => credit' # None
    PROVE  RowInv' /\ SerialInv'
<1>1. Open' = Open
  BY CheckinKept
<1>2. credit' # None /\ due' # None
  BY DEF CreditLedgerAssumption
<1> QED
  BY <1>1, <1>2 DEF IInv, RowInv, SerialInv

(* A request is checked, charged or dropped. *)
LEMMA RequestIInv ==
    ASSUME CreditLedgerAssumption, IInv, NEW r \in Reqs,
           Check(r) \/ Charge(r) \/ ChargeFails(r) \/ ChargeEmpty(r) \/ Drop(r)
    PROVE  IInv'
<1>1. UNCHANGED <<day, checkin, reset, bounds>>
  BY DEF Check, Charge, ChargeFails, ChargeEmpty, Drop
<1>2. TryInv' /\ UniqueInv' /\ Open' = Open /\ PassInv' /\ ResetInv'
  BY <1>1, CheckinKept, ResetKept
<1>3. ASSUME TypeOK', RowInv', SerialInv' PROVE IInv'
  BY <1>2, <1>3 DEF IInv
<1> USE DEF CreditLedgerAssumption
<1>4. ASSUME Check(r) PROVE IInv'
  <2>1. credit' \in Nat /\ credit' # None /\ due' \in Int /\ due' # None
    BY <1>4 DEF Check, Row, IInv, TypeOK, RowInv
  <2>2. TypeOK'
    <3>1. req' \in [Reqs -> {"new", "routed", "sent", "refused", "paid", "unpaid", "empty", "dropped"}]
      BY <1>4 DEF Check, IInv, TypeOK
    <3> QED
      BY <1>1, <1>4, <2>1, <3>1 DEF Check, IInv, TypeOK, checkin, reset, bounds
  <2>3. RowInv'
    BY <2>1 DEF RowInv
  <2>4. SerialInv'
    <3>1. CASE credit = None
      <4>1. Serialised => Open = {}
        BY <1>4, <3>1 DEF Check, Free
      <4> QED
        BY <1>1, <1>2, <1>4, <3>1, <4>1 DEF Check, Row, IInv, SerialInv
    <3>2. CASE credit # None
      <4>1. credit' = credit /\ due' = due
        BY <1>4, <3>2 DEF Check, Row, IInv, RowInv
      <4> QED
        BY <1>1, <1>2, <4>1 DEF IInv, SerialInv, Row, checkin
    <3> QED
      BY <3>1, <3>2
  <2> QED
    BY <1>3, <2>2, <2>3, <2>4
<1>5. ASSUME Charge(r) PROVE IInv'
  <2>1. credit \in Nat /\ due \in Int /\ credit >= Price
    BY <1>5 DEF Charge, Debit, IInv, TypeOK, RowInv
  <2>2. credit' \in Nat /\ due' \in Int /\ (credit = due => credit' = due')
    BY <1>5, <2>1 DEF Charge, Debit
  <2>3. TypeOK'
    BY <1>1, <1>5, <2>2 DEF Charge, IInv, TypeOK, checkin, reset, bounds
  <2>4. RowInv' /\ SerialInv'
    <3>1. Serialised => Open = {}
      BY <1>5 DEF Charge, Free
    <3> QED
      BY <1>1, <2>2, <3>1, WriteKeeps
  <2> QED
    BY <1>3, <2>3, <2>4
<1>6. ASSUME ChargeFails(r) \/ ChargeEmpty(r) \/ Drop(r) PROVE IInv'
  <2>1. /\ UNCHANGED <<credit, due>> /\ log' \subseteq log \cup {r}
        /\ \E l \in {"unpaid", "empty", "dropped"} : req' = [req EXCEPT ![r] = l]
    BY <1>6 DEF ChargeFails, ChargeEmpty, Drop, credits
  <2>2. TypeOK'
    BY <1>1, <2>1 DEF IInv, TypeOK, checkin, reset, bounds
  <2>3. RowInv'
    BY <2>1 DEF IInv, TypeOK, RowInv
  <2>4. SerialInv'
    BY <1>1, <1>2, <2>1 DEF IInv, SerialInv, Row, checkin
  <2> QED
    BY <1>3, <2>2, <2>3, <2>4
<1> QED
  BY <1>4, <1>5, <1>6

(* The administrator writes the balance. *)
LEMMA AdminIInv ==
    ASSUME CreditLedgerAssumption, IInv, NEW v \in {0, Price},
           SetCredit(v) \/ AddCredit(v) \/ TakeCredit(v)
    PROVE  IInv'
<1>1. UNCHANGED <<req, day, checkin, reset, crashes>> /\ Free /\ admin' \in 0 .. MaxAdmin
  BY DEF SetCredit, AddCredit, TakeCredit, IInv, TypeOK, CreditLedgerAssumption
<1>2. log' = log \cup {"admin"}
  BY DEF SetCredit, AddCredit, TakeCredit
<1>3. TryInv' /\ UniqueInv' /\ PassInv' /\ ResetInv'
  BY <1>1, CheckinKept, ResetKept
<1>4. credit' \in Nat /\ due' \in Int /\ (credit = due => credit' = due')
  BY DEF SetCredit, AddCredit, TakeCredit, Debit, Row, IInv, TypeOK, RowInv, CreditLedgerAssumption
<1>5. TypeOK'
  BY <1>1, <1>2, <1>4 DEF IInv, TypeOK, checkin, reset
<1>6. RowInv' /\ SerialInv'
  <2>1. Serialised => Open = {}
    BY <1>1 DEF Free
  <2>2. credit' # None
    BY <1>4 DEF CreditLedgerAssumption
  <2> QED
    BY <1>1, <1>4, <2>1, <2>2, WriteKeeps
<1> QED
  BY <1>3, <1>5, <1>6 DEF IInv

(* An attempt is let through, or ends without a reward. *)
LEMMA AttemptIInv ==
    ASSUME CreditLedgerAssumption, IInv, NEW a \in Attempts, AskCheckin(a) \/ FailCheckin(a)
    PROVE  IInv'
<1>1. UNCHANGED <<credits, req, day, checkins, rewarded, reset, bounds>>
  BY DEF AskCheckin, FailCheckin
<1>2. PICK l \in {"asked", "done"}, d \in 0 .. MaxDay, n \in Nat :
          /\ try' = [try EXCEPT ![a] = [pc |-> l, day |-> d, read |-> n]]
          /\ l = "asked" => d \in Days
  <2>1. CASE AskCheckin(a)
    <3>1. try' = [try EXCEPT ![a] = [pc |-> "asked", day |-> day, read |-> 0]]
      BY <2>1 DEF AskCheckin, IInv, TryInv
    <3>2. day \in Days /\ day \in 0 .. MaxDay
      BY DEF IInv, TypeOK, Days
    <3> QED
      BY <3>1, <3>2
  <2>2. CASE FailCheckin(a)
    <3>1. try' = [try EXCEPT ![a] = [pc |-> "done", day |-> try[a].day, read |-> 0]]
      BY <2>2 DEF FailCheckin, IInv, TryInv
    <3>2. try[a].day \in 0 .. MaxDay
      BY DEF IInv, TryInv
    <3> QED
      BY <3>1, <3>2
  <2> QED
    BY <2>1, <2>2
<1>3. a \notin rewarded
  BY DEF AskCheckin, FailCheckin, IInv, TryInv
<1>4. Open' = Open \ {a}
  BY <1>2 DEF Open, IInv, TryInv
<1>5. TypeOK'
  BY <1>1, <1>2 DEF IInv, TypeOK, TryInv, credits, reset, bounds
<1>6. TryInv'
  BY <1>1, <1>2, <1>3 DEF IInv, TryInv
<1>7. RowInv'
  BY <1>1 DEF IInv, RowInv, credits
<1>8. \A b \in Attempts : b # a => try'[b] = try[b]
  BY <1>2 DEF IInv, TryInv
<1>9. SerialInv'
  BY <1>1, <1>4, <1>8 DEF IInv, SerialInv, Row, credits, Open
<1>10. UniqueInv'
  <2>1. rewarded' = rewarded /\ \A b \in rewarded : try'[b] = try[b]
    BY <1>1, <1>3, <1>8 DEF IInv, TypeOK
  <2> QED
    BY <1>1, <1>4, <1>8, <2>1 DEF IInv, UniqueInv, OneRewardPerDay, Open
<1>11. PassInv' /\ ResetInv'
  BY <1>1, ResetKept
<1> QED
  BY <1>5, <1>6, <1>7, <1>9, <1>10, <1>11 DEF IInv

(* The transaction of a check-in begins. *)
LEMMA BeginCheckinIInv ==
    ASSUME CreditLedgerAssumption, IInv, NEW a \in Attempts, BeginCheckin(a)
    PROVE  IInv'
<1>1. UNCHANGED <<credits, req, day, checkins, rewarded, reset, bounds>> /\ Free /\ Unique(a)
  BY DEF BeginCheckin
<1>2. Row(credit) \in Nat
  BY DEF Row, IInv, RowInv, CreditLedgerAssumption
<1>3. /\ try' = [try EXCEPT ![a] = [pc |-> "tx", day |-> try[a].day, read |-> Row(credit)]]
      /\ try[a].day \in Days /\ try[a].day \in 0 .. MaxDay /\ a \notin rewarded
  BY DEF BeginCheckin, IInv, TryInv
<1>4. Open' = Open \cup {a} /\ a \notin Open
  BY <1>3 DEF Open, BeginCheckin, IInv, TryInv
<1>5. \A b \in Attempts : b # a => try'[b] = try[b]
  BY <1>3 DEF IInv, TryInv
<1>6. TypeOK'
  BY <1>1, <1>3 DEF IInv, TypeOK, TryInv, credits, reset, bounds
<1>7. TryInv'
  BY <1>1, <1>2, <1>3 DEF IInv, TryInv
<1>8. RowInv'
  BY <1>1 DEF IInv, RowInv, credits
<1>9. SerialInv'
  <2>1. Serialised => Open = {}
    BY <1>1 DEF Free
  <2>2. try'[a].read = Row(credit) /\ Row(credit)' = Row(credit)
    BY <1>1, <1>3 DEF IInv, TryInv, credits, Row
  <2> QED
    BY <1>1, <1>4, <2>1, <2>2 DEF IInv, SerialInv, credits
<1>10. UniqueInv'
  <2>1. rewarded' = rewarded /\ \A b \in rewarded : try'[b] = try[b]
    BY <1>1, <1>3, <1>5 DEF IInv, TypeOK
  <2>2. try'[a].day = try[a].day
    BY <1>3 DEF IInv, TryInv
  <2>3. OneRewardPerDay'
    BY <1>1, <2>1 DEF IInv, UniqueInv, OneRewardPerDay
  <2> QED
    BY <1>1, <1>4, <1>5, <2>2, <2>3 DEF IInv, UniqueInv, Open, Unique
<1>11. PassInv' /\ ResetInv'
  BY <1>1, ResetKept
<1> QED
  BY <1>6, <1>7, <1>8, <1>9, <1>10, <1>11 DEF IInv

(* It is committed: the balance it read is written back with the reward. *)
LEMMA CommitCheckinIInv ==
    ASSUME CreditLedgerAssumption, IInv, NEW a \in Attempts, CommitCheckin(a)
    PROVE  IInv'
<1>1. UNCHANGED <<log, req, day, reset, bounds>> /\ a \in Open
  BY DEF CommitCheckin, Open
<1>2. /\ try' = [try EXCEPT ![a] = [pc |-> "done", day |-> try[a].day, read |-> 0]]
      /\ try[a].day \in Days /\ try[a].day \in 0 .. MaxDay /\ try[a].read \in Nat
  BY DEF CommitCheckin, IInv, TryInv
<1>3. Open' = Open \ {a} /\ a \notin rewarded
  BY <1>1, <1>2 DEF Open, IInv, TryInv
<1>4. \A b \in Attempts : b # a => try'[b] = try[b]
  BY <1>2 DEF IInv, TryInv
<1>5. credit' \in Nat /\ due' \in Int
  BY <1>2 DEF CommitCheckin, Row, IInv, TypeOK, CreditLedgerAssumption
<1>6. TypeOK'
  BY <1>1, <1>2, <1>5 DEF CommitCheckin, IInv, TypeOK, TryInv, reset, bounds
<1>7. TryInv'
  BY <1>2 DEF CommitCheckin, IInv, TryInv
<1>8. RowInv'
  BY <1>5 DEF RowInv, CreditLedgerAssumption
<1>9. SerialInv'
  BY <1>1, <1>3 DEF CommitCheckin, IInv, SerialInv, Row
<1>10. UniqueInv'
  <2>1. \A b \in rewarded : try'[b] = try[b]
    BY <1>3, <1>4 DEF IInv, TypeOK
  <2>2. try'[a].day = try[a].day
    BY <1>2 DEF IInv, TryInv
  <2>3. /\ rewarded' = rewarded \cup {a} /\ checkins' = checkins \cup {try[a].day}
        /\ try[a].day \notin checkins
    BY <1>1 DEF CommitCheckin, IInv, UniqueInv
  <2>4. OneRewardPerDay'
    BY <2>1, <2>2, <2>3 DEF IInv, UniqueInv, OneRewardPerDay
  <2> QED
    BY <1>1, <1>3, <1>4, <2>3, <2>4 DEF IInv, UniqueInv, Open
<1>11. PassInv' /\ ResetInv'
  BY <1>1, ResetKept
<1> QED
  BY <1>6, <1>7, <1>8, <1>9, <1>10, <1>11 DEF IInv

-----------------------------------------------------------------------------
(* A step of the reset that leaves the balance alone. *)
LEMMA BalanceKept ==
    ASSUME IInv, UNCHANGED <<credits, req, checkin>>
    PROVE  TryInv' /\ RowInv' /\ SerialInv' /\ UniqueInv'
<1>1. TryInv' /\ UniqueInv' /\ Open' = Open
  BY CheckinKept
<1>2. RowInv' /\ SerialInv'
  BY <1>1 DEF IInv, RowInv, SerialInv, Row, credits, checkin
<1> QED
  BY <1>1, <1>2

(* Two passes under way are of one worker, or of one day. *)
LEMMA OneDay ==
    ASSUME CreditLedgerAssumption, IInv, OrderlyResets,
           NEW v \in Workers, NEW w \in Workers, job[v].pc # "idle", job[w].pc # "idle"
    PROVE  /\ job[v].day = job[w].day
           /\ (job[v].pc \in {"locked", "reset"} /\ job[w].pc \in {"locked", "reset"}) => v = w
  BY DEF OrderlyResets, IInv, PassInv, Days, CreditLedgerAssumption

LEMMA ReadMarkIInv ==
    ASSUME CreditLedgerAssumption, IInv, NEW w \in Workers, ReadMark(w)
    PROVE  IInv'
<1>1. TryInv' /\ RowInv' /\ SerialInv' /\ UniqueInv'
  BY BalanceKept DEF ReadMark
<1>2. day \in 0 .. MaxDay /\ day \in Days /\ day \in Nat
  BY DEF IInv, TypeOK, Days, CreditLedgerAssumption
<1>3. TypeOK'
  BY <1>2 DEF ReadMark, IInv, TypeOK, credits, checkin, bounds
<1>4. PassInv'
  BY <1>2 DEF ReadMark, IInv, TypeOK, PassInv
<1>5. ResetInv'
  BY <1>2 DEF ReadMark, IInv, TypeOK, PassInv, ResetInv, ResetOncePerDay, OrderlyResets
<1> QED
  BY <1>1, <1>3, <1>4, <1>5 DEF IInv

LEMMA TakeLockIInv ==
    ASSUME CreditLedgerAssumption, IInv, NEW w \in Workers, TakeLock(w)
    PROVE  IInv'
<1>1. TryInv' /\ RowInv' /\ SerialInv' /\ UniqueInv'
  BY BalanceKept DEF TakeLock
<1>2. job[w] \in [pc : {"idle", "read", "locked", "reset"}, day : 0 .. MaxDay] /\ job[w].day \in Days
  BY DEF TakeLock, IInv, TypeOK, PassInv
<1>3. \/ job' = [job EXCEPT ![w] = Idle] /\ Redis
      \/ job' = [job EXCEPT ![w] = [pc |-> "locked", day |-> job[w].day]]
         /\ (Redis => job[w].day \notin lock)
  BY <1>2 DEF TakeLock
<1>4. lock' = IF Redis THEN lock \cup {job[w].day} ELSE lock
  BY DEF TakeLock
<1>5. TypeOK'
  BY <1>2, <1>3, <1>4 DEF TakeLock, IInv, TypeOK, Idle, credits, checkin, bounds,
         CreditLedgerAssumption
<1>6. PassInv'
  BY <1>2, <1>3, <1>4 DEF TakeLock, IInv, TypeOK, PassInv, Idle
<1>7. ResetInv'
  BY <1>2, <1>3 DEF TakeLock, IInv, TypeOK, PassInv, ResetInv, ResetOncePerDay, OrderlyResets, Idle
<1> QED
  BY <1>1, <1>5, <1>6, <1>7 DEF IInv

(* The balances are reset, unless another worker has done it. *)
LEMMA ResetAllIInv ==
    ASSUME CreditLedgerAssumption, IInv, NEW w \in Workers, ResetAll(w)
    PROVE  IInv'
<1>1. UNCHANGED <<req, day, checkin, mark, lock, bounds>>
  BY DEF ResetAll
<1>2. job[w] \in [pc : {"idle", "read", "locked", "reset"}, day : 0 .. MaxDay] /\ job[w].day \in Days
  BY DEF ResetAll, IInv, TypeOK, PassInv
<1>3. CASE mark = job[w].day
  <2>1. job' = [job EXCEPT ![w] = Idle] /\ UNCHANGED <<credits, resets>>
    BY <1>3 DEF ResetAll
  <2>2. TryInv' /\ RowInv' /\ SerialInv' /\ UniqueInv'
    BY <1>1, <2>1, BalanceKept
  <2>3. TypeOK'
    BY <1>1, <2>1 DEF IInv, TypeOK, Idle, credits, checkin, bounds, CreditLedgerAssumption
  <2>4. PassInv' /\ ResetInv'
    BY <1>1, <2>1 DEF ResetAll, IInv, TypeOK, PassInv, ResetInv, ResetOncePerDay, OrderlyResets,
           Idle
  <2> QED
    BY <2>2, <2>3, <2>4 DEF IInv
<1>4. CASE mark # job[w].day
  <2>1. /\ job' = [job EXCEPT ![w] = [pc |-> "reset", day |-> job[w].day]]
        /\ resets' = [resets EXCEPT ![job[w].day] = @ + 1]
        /\ log' = log /\ (Serialised => Open = {})
    BY <1>2, <1>4 DEF ResetAll
  <2>2. /\ credit = None => credit' = None /\ due' = None
        /\ credit # None => credit' = ResetTo /\ due' = ResetTo
    BY <1>4 DEF ResetAll, IInv, RowInv
  <2>3. TryInv' /\ UniqueInv' /\ Open' = Open
    BY <1>1, CheckinKept
  <2>4. RowInv'
    BY <1>1, <2>2 DEF IInv, RowInv, CreditLedgerAssumption
  <2>5. SerialInv'
    BY <2>1, <2>2, <2>3 DEF SerialInv
  <2>6. TypeOK'
    BY <1>1, <1>2, <2>1, <2>2 DEF IInv, TypeOK, checkin, bounds, CreditLedgerAssumption
  <2>7. PassInv'
    BY <1>1, <1>2, <2>1 DEF ResetAll, IInv, TypeOK, PassInv
  <2>8. ResetInv'
    <3> SUFFICES ASSUME OrderlyResets PROVE ResetInv'
      BY DEF ResetInv, OrderlyResets
    <3>1. job[w].pc = "locked" /\ mark < job[w].day
      <4>1. job[w].pc = "locked"
        BY DEF ResetAll
      <4>2. mark <= job[w].day
        BY <4>1 DEF IInv, ResetInv
      <4>3. mark \in Int /\ job[w].day \in Int
        BY <1>2 DEF IInv, TypeOK, Days, CreditLedgerAssumption
      <4> QED
        BY <1>4, <4>1, <4>2, <4>3
    <3>2. resets[job[w].day] = 0
      BY <1>2, <3>1, OneDay DEF IInv, TypeOK, ResetInv
    <3>3. \A d \in Days : d # job[w].day => resets'[d] = resets[d]
      BY <2>1 DEF IInv, TypeOK
    <3>4. resets'[job[w].day] = 1
      BY <1>2, <2>1, <3>2 DEF IInv, TypeOK
    <3>5. ResetOncePerDay'
      BY <3>3, <3>4 DEF IInv, ResetInv, ResetOncePerDay
    <3>6. \A v \in Workers : job'[v].pc # "idle" => mark' <= job'[v].day
      BY <1>1, <2>1, <3>1 DEF IInv, TypeOK, ResetInv
    <3>7. ASSUME NEW d \in Days, resets'[d] > 0
          PROVE  mark' >= d \/ \E v \in Workers : job'[v].pc = "reset" /\ job'[v].day = d
      <4>1. CASE d = job[w].day
        BY <2>1, <4>1 DEF IInv, TypeOK
      <4>2. CASE d # job[w].day
        BY <1>1, <2>1, <3>1, <3>3, <3>7, <4>2 DEF IInv, TypeOK, ResetInv
      <4> QED
        BY <4>1, <4>2
    <3> QED
      BY <3>5, <3>6, <3>7 DEF ResetInv
  <2> QED
    BY <2>3, <2>4, <2>5, <2>6, <2>7, <2>8 DEF IInv
<1> QED
  BY <1>3, <1>4

LEMMA WriteMarkIInv ==
    ASSUME CreditLedgerAssumption, IInv, NEW w \in Workers, WriteMark(w)
    PROVE  IInv'
<1>1. TryInv' /\ RowInv' /\ SerialInv' /\ UniqueInv'
  BY BalanceKept DEF WriteMark
<1>2. job[w].day \in Days /\ job[w].day <= day /\ job[w].day \in 0 .. MaxDay
  BY DEF WriteMark, IInv, TypeOK, PassInv
<1>3. TypeOK'
  BY <1>2 DEF WriteMark, IInv, TypeOK, Idle, credits, checkin, bounds, CreditLedgerAssumption
<1>4. PassInv'
  BY <1>2 DEF WriteMark, IInv, TypeOK, PassInv, Idle
<1>5. ResetInv'
  <2> SUFFICES ASSUME OrderlyResets PROVE ResetInv'
    BY DEF ResetInv, OrderlyResets
  <2>1. \A v \in Workers : job'[v].pc # "idle" => job'[v] = job[v] /\ job[v].day = job[w].day
    BY OneDay DEF WriteMark, IInv, TypeOK, Idle
  <2>2. \A v \in Workers : job'[v].pc # "idle" => mark' <= job'[v].day
    BY <1>2, <2>1 DEF WriteMark, Days, CreditLedgerAssumption
  <2>3. mark \in Nat /\ mark <= job[w].day /\ mark' = job[w].day /\ job[w].day \in Nat
    BY <1>2 DEF WriteMark, IInv, TypeOK, ResetInv, Days, CreditLedgerAssumption
  <2>4. ASSUME NEW d \in Days, resets'[d] > 0
        PROVE  mark' >= d \/ \E v \in Workers : job'[v].pc = "reset" /\ job'[v].day = d
    <3>1. d \in Nat
      BY DEF Days, CreditLedgerAssumption
    <3>2. CASE mark >= d
      BY <2>3, <3>1, <3>2
    <3>3. CASE \E v \in Workers : job[v].pc = "reset" /\ job[v].day = d
      <4>1. PICK v \in Workers : job[v].pc = "reset" /\ job[v].day = d
        BY <3>3
      <4>2. d = job[w].day
        BY <4>1, OneDay DEF WriteMark
      <4> QED
        BY <2>3, <3>1, <4>2
    <3> QED
      BY <2>4, <3>2, <3>3 DEF WriteMark, IInv, ResetInv
  <2> QED
    BY <2>2, <2>4 DEF WriteMark, IInv, ResetInv, ResetOncePerDay
<1> QED
  BY <1>1, <1>3, <1>4, <1>5 DEF IInv

(* A worker dies, a lock expires, a day ends. *)
LEMMA ClockIInv ==
    ASSUME CreditLedgerAssumption, IInv,
           NextDay \/ (\E w \in Workers : Crash(w)) \/ \E d \in Days : LockExpires(d)
    PROVE  IInv'
<1>1. UNCHANGED <<credits, req, checkin>>
  BY DEF NextDay, Crash, LockExpires
<1>2. TryInv' /\ RowInv' /\ SerialInv' /\ UniqueInv'
  BY <1>1, BalanceKept
<1>3. ASSUME NextDay PROVE TypeOK' /\ PassInv' /\ ResetInv'
  <2>1. day' \in Days /\ day' = day + 1 /\ day \in Nat
    BY <1>3 DEF NextDay, IInv, TypeOK, Days, CreditLedgerAssumption
  <2>2. TypeOK'
    BY <1>3, <2>1 DEF NextDay, IInv, TypeOK, credits, checkin, reset, bounds
  <2>3. PassInv'
    BY <1>3, <2>1 DEF NextDay, IInv, TypeOK, PassInv, reset, Days, CreditLedgerAssumption
  <2>4. ResetInv'
    BY <1>3 DEF NextDay, IInv, ResetInv, ResetOncePerDay, OrderlyResets, reset
  <2> QED
    BY <2>2, <2>3, <2>4
<1>4. ASSUME NEW w \in Workers, Crash(w) PROVE TypeOK' /\ PassInv' /\ ResetInv'
  <2>1. TypeOK'
    BY <1>4 DEF Crash, IInv, TypeOK, Idle, credits, checkin, CreditLedgerAssumption
  <2>2. PassInv'
    BY <1>4 DEF Crash, IInv, TypeOK, PassInv, Idle
  <2>3. ~OrderlyResets
    BY <1>4 DEF Crash, IInv, TypeOK, OrderlyResets
  <2> QED
    BY <2>1, <2>2, <2>3 DEF ResetInv, OrderlyResets
<1>5. ASSUME NEW d \in Days, LockExpires(d) PROVE TypeOK' /\ PassInv' /\ ResetInv'
  <2>1. TypeOK'
    BY <1>5 DEF LockExpires, IInv, TypeOK, credits, checkin, bounds
  <2>2. PassInv'
    BY <1>5 DEF LockExpires, IInv, PassInv
  <2>3. ResetInv'
    BY <1>5 DEF LockExpires, IInv, ResetInv, ResetOncePerDay, OrderlyResets
  <2> QED
    BY <2>1, <2>2, <2>3
<1> QED
  BY <1>2, <1>3, <1>4, <1>5 DEF IInv

(* Every step keeps the invariant. *)
LEMMA NextIInv == CreditLedgerAssumption /\ IInv /\ [Next]_vars => IInv'
<1> SUFFICES ASSUME CreditLedgerAssumption, IInv, [Next]_vars PROVE IInv'
  OBVIOUS
<1>1. ASSUME NEW r \in Reqs, Check(r) \/ Charge(r) \/ ChargeFails(r) \/ ChargeEmpty(r) \/ Drop(r)
      PROVE  IInv'
  BY <1>1, RequestIInv
<1>2. ASSUME NEW v \in {0, Price}, SetCredit(v) \/ AddCredit(v) \/ TakeCredit(v) PROVE IInv'
  BY <1>2, AdminIInv
<1>3. ASSUME NEW a \in Attempts,
             AskCheckin(a) \/ BeginCheckin(a) \/ CommitCheckin(a) \/ FailCheckin(a)
      PROVE  IInv'
  BY <1>3, AttemptIInv, BeginCheckinIInv, CommitCheckinIInv
<1>4. ASSUME NEW w \in Workers, Job(w) PROVE IInv'
  BY <1>4, ReadMarkIInv, TakeLockIInv, ResetAllIInv, WriteMarkIInv DEF Job
<1>5. CASE NextDay \/ (\E w \in Workers : Crash(w)) \/ \E d \in Days : LockExpires(d)
  BY <1>5, ClockIInv
<1>6. CASE UNCHANGED vars
  <2>1. TryInv' /\ RowInv' /\ SerialInv' /\ UniqueInv' /\ PassInv' /\ ResetInv'
    BY <1>6, BalanceKept, ResetKept DEF vars
  <2>2. TypeOK'
    BY <1>6 DEF vars, credits, checkin, reset, bounds, IInv, TypeOK
  <2> QED
    BY <2>1, <2>2 DEF IInv
<1> QED
  BY <1>1, <1>2, <1>3, <1>4, <1>5, <1>6 DEF Next

-----------------------------------------------------------------------------
(* The invariant holds in every reachable state of the ledger. *)
THEOREM LedgerInv ==
    ASSUME CreditLedgerAssumption
    PROVE  Spec => []IInv
<1>1. Init => IInv
  BY InitIInv
<1>2. IInv /\ [Next]_vars => IInv'
  BY NextIInv
<1> QED
  BY <1>1, <1>2, PTL DEF Spec

(* add_credit_by_user_id: a balance is never overdrawn, on either database. *)
THEOREM LedgerNeverOverdrawn ==
    ASSUME CreditLedgerAssumption
    PROVE  Spec => []NeverOverdrawn
<1>1. IInv => NeverOverdrawn
  BY DEF IInv, RowInv, NeverOverdrawn
<1> QED
  BY <1>1, LedgerInv, PTL

(* _create_checkin_record: a day's check-in is paid once, on either        *)
(* database.                                                               *)
THEOREM LedgerOneReward ==
    ASSUME CreditLedgerAssumption
    PROVE  Spec => []OneRewardPerDay
<1>1. IInv => OneRewardPerDay
  BY DEF IInv, UniqueInv
<1> QED
  BY <1>1, LedgerInv, PTL

(* The balance is what the committed operations add up to, on a database   *)
(* whose transactions exclude other writers.                               *)
THEOREM LedgerBalanceAccounts ==
    ASSUME CreditLedgerAssumption, Serialised
    PROVE  Spec => []BalanceAccounts
<1>1. IInv => BalanceAccounts
  BY DEF IInv, SerialInv, BalanceAccounts
<1> QED
  BY <1>1, LedgerInv, PTL

(* _check_daily_credit_reset: the balances are reset once for a day, when  *)
(* no worker dies and either one process runs the scheduler or no pass     *)
(* lasts past midnight under a common Redis.                               *)
THEOREM LedgerResetOnce ==
    ASSUME CreditLedgerAssumption, OrderlyResets
    PROVE  Spec => []ResetOncePerDay
<1>1. IInv => ResetOncePerDay
  BY DEF IInv, ResetInv
<1> QED
  BY <1>1, LedgerInv, PTL

-----------------------------------------------------------------------------
A == INSTANCE Automations

(* The automations.                                                        *)

AutoTypes ==
    /\ row \in [Autos -> [there : BOOLEAN, active : BOOLEAN, next : {"none", "future", "due"},
                          folder : BOOLEAN]]
    /\ sel \in [Workers -> SUBSET Autos]
    /\ occurred \in [Autos -> Nat] /\ claimed \in [Autos -> Nat]
    /\ creating \subseteq Autos /\ \A e \in execs : e.a \in Autos

(* A selected automation is there and due, and one process has selected it;  *)
(* one that is being created is not there.                                   *)
AutoLocks ==
    /\ \A w \in Workers : \A a \in sel[w] : row[a].there /\ row[a].next = "due"
    /\ \A v, w \in Workers : sel[v] \cap sel[w] # {} => v = w
    /\ \A a \in creating : ~row[a].there

(* A due automation has become due once more than it was claimed. *)
AutoAccounts ==
    \A a \in Autos :
        claimed[a] <= occurred[a] /\ (row[a].next = "due" => claimed[a] < occurred[a])

AutoInv == AutoTypes /\ AutoLocks /\ AutoAccounts

LEMMA AutoInit == A!Init => AutoInv
  BY DEF A!Init, A!Absent, AutoInv, AutoTypes, AutoLocks, AutoAccounts

(* A new automation is due in the future. *)
LEMMA AutoCreate ==
  ASSUME AutoInv, NEW a \in Autos, A!Create(a)
  PROVE  AutoInv'
  <1>1. AutoTypes'
    BY DEF AutoInv, AutoTypes, A!Create, A!ghost, A!bounds
  <1>2. AutoLocks'
    BY DEF AutoInv, AutoTypes, AutoLocks, A!Create, A!ghost, A!bounds
  <1>3. AutoAccounts'
    BY DEF AutoInv, AutoTypes, AutoLocks, AutoAccounts, A!Create, A!ghost, A!bounds
  <1>4. QED
    BY <1>1, <1>2, <1>3 DEF AutoInv

(* An automation that is updated is not due. *)
LEMMA AutoUpdate ==
  ASSUME AutoInv, Postgres, NEW a \in Autos, A!Update(a)
  PROVE  AutoInv'
  <1>1. AutoTypes'
    BY DEF AutoInv, AutoTypes, A!Update, A!Locked, A!ghost, A!bounds
  <1>2. AutoLocks'
    BY DEF AutoInv, AutoTypes, AutoLocks, A!Update, A!Locked, A!ghost, A!bounds
  <1>3. AutoAccounts'
    BY DEF AutoInv, AutoTypes, AutoLocks, AutoAccounts, A!Update, A!Locked, A!ghost,
           A!bounds
  <1>4. QED
    BY <1>1, <1>2, <1>3 DEF AutoInv

(* Nor is one that is toggled. *)
LEMMA AutoToggle ==
  ASSUME AutoInv, Postgres, NEW a \in Autos, A!Toggle(a)
  PROVE  AutoInv'
  <1>1. AutoTypes'
    BY DEF AutoInv, AutoTypes, A!Toggle, A!Locked, A!Nexts, A!ghost, A!bounds
  <1>2. AutoLocks'
    BY DEF AutoInv, AutoTypes, AutoLocks, A!Toggle, A!Locked, A!Nexts, A!ghost, A!bounds
  <1>3. AutoAccounts'
    BY DEF AutoInv, AutoTypes, AutoLocks, AutoAccounts, A!Toggle, A!Locked, A!Nexts,
           A!ghost, A!bounds
  <1>4. QED
    BY <1>1, <1>2, <1>3 DEF AutoInv

(* A manual run claims nothing. *)
LEMMA AutoRunNow ==
  ASSUME AutoInv, NEW w \in Workers, NEW a \in Autos, A!RunNow(w, a)
  PROVE  AutoInv'
  <1>1. AutoTypes'
    BY DEF AutoInv, AutoTypes, A!RunNow, A!Exec, A!ghost, A!bounds
  <1>2. AutoLocks'
    BY DEF AutoInv, AutoTypes, AutoLocks, A!RunNow, A!Exec, A!ghost, A!bounds
  <1>3. AutoAccounts'
    BY DEF AutoInv, AutoTypes, AutoLocks, AutoAccounts, A!RunNow, A!Exec, A!ghost,
           A!bounds
  <1>4. QED
    BY <1>1, <1>2, <1>3 DEF AutoInv

(* A row that nobody has locked is deleted. *)
LEMMA AutoDeleteRow ==
  ASSUME AutoInv, Postgres, NEW a \in Autos, A!DeleteRow(a)
  PROVE  AutoInv'
  <1>1. AutoTypes'
    BY DEF AutoInv, AutoTypes, A!DeleteRow, A!Locked, A!Absent, A!ghost, A!bounds
  <1>2. AutoLocks'
    BY DEF AutoInv, AutoTypes, AutoLocks, A!DeleteRow, A!Locked, A!Absent, A!ghost,
           A!bounds
  <1>3. AutoAccounts'
    BY DEF AutoInv, AutoTypes, AutoLocks, AutoAccounts, A!DeleteRow, A!Locked, A!Absent,
           A!ghost, A!bounds
  <1>4. QED
    BY <1>1, <1>2, <1>3 DEF AutoInv

(* An automation becomes due. *)
LEMMA AutoTimePasses ==
  ASSUME AutoInv, Postgres, NEW a \in Autos, A!TimePasses(a)
  PROVE  AutoInv'
  <1>1. AutoTypes'
    BY DEF AutoInv, AutoTypes, A!TimePasses, A!Locked, A!ghost, A!bounds
  <1>2. AutoLocks'
    BY DEF AutoInv, AutoTypes, AutoLocks, A!TimePasses, A!Locked, A!ghost, A!bounds
  <1>3. AutoAccounts'
    BY DEF AutoInv, AutoTypes, AutoLocks, AutoAccounts, A!TimePasses, A!Locked, A!ghost,
           A!bounds
  <1>4. QED
    BY <1>1, <1>2, <1>3 DEF AutoInv

(* What is selected is due and was not locked. *)
LEMMA AutoSelect ==
  ASSUME AutoInv, Postgres, NEW w \in Workers, A!Select(w)
  PROVE  AutoInv'
  <1>1. AutoTypes'
    BY DEF AutoInv, AutoTypes, A!Select, A!Locked, A!Due, A!ghost, A!bounds
  <1>2. AutoLocks'
    BY DEF AutoInv, AutoTypes, AutoLocks, A!Select, A!Locked, A!Due, A!ghost, A!bounds
  <1>3. AutoAccounts'
    BY DEF AutoInv, AutoTypes, AutoLocks, AutoAccounts, A!Select, A!Locked, A!Due,
           A!ghost, A!bounds
  <1>4. QED
    BY <1>1, <1>2, <1>3 DEF AutoInv

(* What is claimed was due and is not due any more. *)
LEMMA AutoClaim ==
  ASSUME AutoInv, NEW w \in Workers, A!Claim(w)
  PROVE  AutoInv'
  <1>0. PICK skipped \in SUBSET sel[w], n \in A!Nexts :
          /\ row' = [a \in Autos |-> IF a \in sel[w] \ skipped THEN [row[a] EXCEPT !.next = n] ELSE row[a]]
          /\ execs' = execs \cup {A!Exec(w, a) : a \in sel[w] \ skipped}
          /\ claimed' = [a \in Autos |-> IF a \in sel[w] \ skipped THEN claimed[a] + 1 ELSE claimed[a]]
    BY Zenon DEF A!Claim
  <1> DEFINE took == sel[w] \ skipped
  <1>1. /\ took \subseteq sel[w] /\ n \in A!Nexts
        /\ row' = [a \in Autos |-> IF a \in took THEN [row[a] EXCEPT !.next = n] ELSE row[a]]
        /\ execs' = execs \cup {A!Exec(w, a) : a \in took}
        /\ claimed' = [a \in Autos |-> IF a \in took THEN claimed[a] + 1 ELSE claimed[a]]
    BY <1>0
  <1> HIDE DEF took
  <1>2. took \subseteq Autos /\ sel' = [sel EXCEPT ![w] = {}]
        /\ occurred' = occurred /\ creating' = creating
    BY <1>1 DEF AutoInv, AutoTypes, A!Claim
  <1>3. AutoTypes'
    <2>1. \A a \in took : A!Exec(w, a).a = a
      BY DEF A!Exec
    <2>2. \A e \in execs' : e.a \in Autos
      BY <1>1, <1>2, <2>1 DEF AutoInv, AutoTypes
    <2>3. row' \in [Autos -> [there : BOOLEAN, active : BOOLEAN, next : {"none", "future", "due"},
                              folder : BOOLEAN]]
      BY <1>1 DEF AutoInv, AutoTypes, A!Nexts
    <2>4. QED
      BY <1>1, <1>2, <2>2, <2>3 DEF AutoInv, AutoTypes
  <1>4. AutoLocks'
    <2>1. \A a \in Autos : row'[a].there = row[a].there
      BY <1>1 DEF AutoInv, AutoTypes
    <2>2. \A v \in Workers : \A a \in sel'[v] : a \in sel[v] /\ row'[a] = row[a]
      BY <1>1, <1>2 DEF AutoInv, AutoTypes, AutoLocks
    <2>3. \A a \in creating : ~row'[a].there
      BY <1>1 DEF AutoInv, AutoTypes, AutoLocks
    <2>4. QED
      BY <1>2, <2>1, <2>2, <2>3 DEF AutoInv, AutoTypes, AutoLocks
  <1>5. AutoAccounts'
    BY <1>1, <1>2 DEF AutoInv, AutoTypes, AutoLocks, AutoAccounts, A!Nexts
  <1>6. QED
    BY <1>3, <1>4, <1>5 DEF AutoInv

(* A folder that is gone is cleared. *)
LEMMA AutoBegin ==
  ASSUME AutoInv, NEW e \in execs, A!Begin(e)
  PROVE  AutoInv'
  <1>1. AutoTypes'
    <2> DEFINE f == [w |-> e.w, a |-> e.a, n |-> e.n, pc |-> "reply"]
    <2>1. execs' = (execs \ {e}) \cup {f} /\ f.a = e.a
      BY DEF A!Begin
    <2> HIDE DEF f
    <2>2. \A x \in execs' : x.a \in Autos
      BY <2>1 DEF AutoInv, AutoTypes
    <2>3. QED
      BY <2>2 DEF AutoInv, AutoTypes, A!Begin, A!ghost
  <1>2. AutoLocks'
    BY DEF AutoInv, AutoTypes, AutoLocks, A!Begin, A!ghost, A!bounds
  <1>3. AutoAccounts'
    BY DEF AutoInv, AutoTypes, AutoLocks, AutoAccounts, A!Begin, A!ghost, A!bounds
  <1>4. QED
    BY <1>1, <1>2, <1>3 DEF AutoInv

(* The rest of Next changes no row and selects nothing. *)
LEMMA AutoRest ==
  ASSUME AutoInv,
         \/ \E a \in Autos : A!CheckLimit(a) \/ A!DeleteRuns(a) \/ A!DeleteFolder(a)
         \/ \E w \in Workers : A!ClaimFails(w) \/ A!Crash(w)
         \/ \E e \in execs : A!Refuse(e) \/ A!Succeed(e) \/ A!Fail(e)
         \/ UNCHANGED A!vars
  PROVE  AutoInv'
  <1>1. UNCHANGED <<row, occurred, claimed>> /\ execs' \subseteq execs
    BY DEF A!CheckLimit, A!DeleteRuns, A!DeleteFolder, A!ClaimFails, A!Crash, A!Refuse, A!Succeed,
           A!Fail, A!Record, A!vars, A!ghost
  <1>2. /\ sel' \in [Workers -> SUBSET Autos]
        /\ \A w \in Workers : sel'[w] \subseteq sel[w]
    BY DEF AutoInv, AutoTypes, A!CheckLimit, A!DeleteRuns, A!DeleteFolder, A!ClaimFails, A!Crash,
           A!Refuse, A!Succeed, A!Fail, A!vars
  <1>3. \A a \in creating' : a \in Autos /\ ~row[a].there
    BY DEF AutoInv, AutoTypes, AutoLocks, A!CheckLimit, A!DeleteRuns, A!DeleteFolder,
           A!ClaimFails, A!Crash,
           A!Refuse, A!Succeed, A!Fail, A!vars
  <1>4. QED
    BY <1>1, <1>2, <1>3 DEF AutoInv, AutoTypes, AutoLocks, AutoAccounts

(* Every step keeps AutoInv. *)
LEMMA AutoNext ==
  ASSUME Postgres, AutoInv, [A!Next]_A!vars
  PROVE  AutoInv'
  <1>1. CASE \E a \in Autos : A!Create(a) \/ A!Update(a) \/ A!Toggle(a) \/ A!DeleteRow(a) \/ A!TimePasses(a)
    BY <1>1, AutoCreate, AutoUpdate, AutoToggle, AutoDeleteRow, AutoTimePasses
  <1>2. CASE \E w \in Workers : A!Select(w) \/ A!Claim(w) \/ \E a \in Autos : A!RunNow(w, a)
    BY <1>2, AutoSelect, AutoClaim, AutoRunNow
  <1>3. CASE \E e \in execs : A!Begin(e)
    BY <1>3, AutoBegin
  <1>4. CASE \/ \E a \in Autos : A!CheckLimit(a) \/ A!DeleteRuns(a) \/ A!DeleteFolder(a)
             \/ \E w \in Workers : A!ClaimFails(w) \/ A!Crash(w)
             \/ \E e \in execs : A!Refuse(e) \/ A!Succeed(e) \/ A!Fail(e)
             \/ UNCHANGED A!vars
    BY <1>4, AutoRest
  <1>5. QED
    BY <1>1, <1>2, <1>3, <1>4 DEF A!Next, A!Step

(* claim_due: "Advances next_run_at immediately so the row can never be      *)
(* double-claimed".  On PostgreSQL, whatever the number of processes and     *)
(* automations, and however claims, edits, failures and crashes interleave.  *)
THEOREM AutomationsClaimedOnce ==
  ASSUME Postgres
  PROVE  A!Spec => []A!ClaimedOnce
  <1>1. AutoInv /\ [A!Next]_A!vars => AutoInv'
    BY AutoNext
  <1>2. AutoInv => A!ClaimedOnce
    BY DEF AutoInv, AutoAccounts, A!ClaimedOnce
  <1>3. QED
    BY <1>1, <1>2, AutoInit, PTL DEF A!Spec

-----------------------------------------------------------------------------
C == INSTANCE Calendar

(* The calendar: the answers of the guests.                                *)

Given(st, e, g) == st \notin {None, "pending"} => st \in chosen[e][g].ever

(* A status that is stored, or that a request has read and will write back,  *)
(* is one the guest has given.                                               *)
AnswerInv ==
    /\ DOMAIN req = Requests
    /\ DOMAIN rsvp = Events /\ \A e \in Events : DOMAIN rsvp[e] = Guests
    /\ DOMAIN chosen = Events /\ \A e \in Events : DOMAIN chosen[e] = Guests
    /\ \A r \in Requests : req[r].op \in {"update", "attendees", "replace"} => req[r].event \in Events
    /\ \A e \in Events, g \in Guests : Given(rsvp[e][g], e, g)
    /\ \A r \in Requests : req[r].op \in {"attendees", "replace"} =>
          \A g \in Guests : Given(req[r].old[g], req[r].event, g)

Passing == {"update", "attendees", "replace"}

LEMMA AnswerInit == C!Init => AnswerInv
  BY DEF C!Init, C!Idle, AnswerInv, Given

(* Answers are only added, and no request comes to hold others. *)
LEMMA AnswersGrow ==
  ASSUME AnswerInv, DOMAIN req' = Requests,
         DOMAIN rsvp' = Events, \A e \in Events : DOMAIN rsvp'[e] = Guests,
         DOMAIN chosen' = Events, \A e \in Events : DOMAIN chosen'[e] = Guests,
         \A e \in Events, g \in Guests : chosen[e][g].ever \subseteq chosen'[e][g].ever,
         \A e \in Events, g \in Guests : Given(rsvp[e][g], e, g)',
         \A q \in Requests : req'[q].op \in Passing => req'[q] = req[q]
  PROVE  AnswerInv'
  BY DEF AnswerInv, Given, Passing

(* A request goes on to something that holds no answers. *)
LEMMA AnswerKeptBy ==
  ASSUME AnswerInv, NEW r \in Requests, NEW s, req' = [req EXCEPT ![r] = s], s.op \notin Passing,
         UNCHANGED <<rsvp, chosen>>
  PROVE  AnswerInv'
  BY DEF AnswerInv, Given, Passing

(* set_attendees writes what was read, or 'pending'. *)
LEMMA AnswerInvite ==
  ASSUME AnswerInv, NEW r \in Requests, req[r].op \in {"attendees", "replace"},
         C!Invite(r), req' = [req EXCEPT ![r] = C!Idle]
  PROVE  AnswerInv'
  <1>1. req[r].event \in Events
    BY DEF AnswerInv
  <1>2. \A e \in Events, g \in Guests : chosen'[e][g].ever = chosen[e][g].ever
    BY <1>1 DEF AnswerInv, C!Invite
  <1>3. \A e \in Events, g \in Guests :
           rsvp'[e][g] = IF e = req[r].event THEN C!Attendees(req[r].old, req[r].guests)[g]
                         ELSE rsvp[e][g]
    BY <1>1 DEF AnswerInv, C!Invite
  <1>4. \A g \in Guests : C!Attendees(req[r].old, req[r].guests)[g] \in {None, "pending", req[r].old[g]}
    BY DEF C!Attendees
  <1>5. \A e \in Events, g \in Guests : Given(rsvp[e][g], e, g)'
    <2> SUFFICES ASSUME NEW e \in Events, NEW g \in Guests PROVE Given(rsvp[e][g], e, g)'
      OBVIOUS
    <2>1. CASE e = req[r].event
      <3>1. rsvp'[e][g] \in {None, "pending", req[r].old[g]}
        BY <1>3, <1>4, <2>1
      <3>2. Given(req[r].old[g], e, g)
        BY <2>1 DEF AnswerInv
      <3>3. QED
        BY <1>2, <3>1, <3>2 DEF Given
    <2>2. CASE e # req[r].event
      <3>1. rsvp'[e][g] = rsvp[e][g] /\ Given(rsvp[e][g], e, g)
        BY <1>3, <2>2 DEF AnswerInv
      <3>2. QED
        BY <1>2, <3>1 DEF Given
    <2>3. QED
      BY <2>1, <2>2
  <1>6. /\ DOMAIN rsvp' = Events /\ \A e \in Events : DOMAIN rsvp'[e] = Guests
        /\ DOMAIN chosen' = Events /\ \A e \in Events : DOMAIN chosen'[e] = Guests
    BY <1>1 DEF AnswerInv, C!Invite, C!Attendees
  <1>7. \A q \in Requests : req'[q].op \in Passing => req'[q] = req[q]
    BY DEF AnswerInv, C!Idle, Passing
  <1>8. DOMAIN req' = Requests
    BY DEF AnswerInv
  <1>9. QED
    BY <1>2, <1>5, <1>6, <1>7, <1>8, AnswersGrow

(* Every step keeps AnswerInv. *)
LEMMA AnswerNext ==
  ASSUME AnswerInv, [C!Next]_C!vars
  PROVE  AnswerInv'
  <1>1. CASE \E r \in Requests : C!ListCalendars(r) \/ C!CreateDefault(r) \/ C!CreateCalendar(r)
    BY <1>1, AnswerKeptBy DEF C!ListCalendars, C!CreateDefault, C!CreateCalendar, C!Start, C!Then,
           C!Idle, Passing
  <1>2. CASE \E r \in Requests : C!SetGrants(r) \/ C!CommitDefault(r) \/ C!RevokeGrants(r) \/ C!MoveEvent(r)
    BY <1>2, AnswerKeptBy DEF C!SetGrants, C!CommitDefault, C!RevokeGrants, C!MoveEvent, C!Then,
           C!Idle, Passing
  <1>3. CASE \E r \in Requests : \E c \in Cals :
          C!ShareCalendar(r, c) \/ C!SetDefault(r, c) \/ C!DeleteCalendar(r, c) \/ C!CreateEvent(r, c)
    BY <1>3, AnswerKeptBy DEF C!ShareCalendar, C!SetDefault, C!DeleteCalendar, C!CreateEvent,
           C!Start, Passing
  <1>4. CASE \E r \in Requests : C!DeleteRows(r)
    <2>1. PICK r \in Requests : C!DeleteRows(r)
      BY <1>4
    <2>2. \A e \in Events, g \in Guests : Given(rsvp[e][g], e, g)'
      BY <2>1 DEF AnswerInv, Given, C!DeleteRows
    <2>3. \A q \in Requests : req'[q].op \in Passing => req'[q] = req[q]
      BY <2>1 DEF AnswerInv, Passing, C!DeleteRows, C!Then
    <2>4. QED
      BY <2>1, <2>2, <2>3, AnswersGrow DEF AnswerInv, C!DeleteRows, C!Then
  <1>5. CASE \E r \in Requests : C!InsertEvent(r)
    <2>1. PICK r \in Requests : C!InsertEvent(r)
      BY <1>5
    <2>2. PICK e \in Events, G \in SUBSET Guests :
            req' = [req EXCEPT ![r] = IF G = {} THEN C!Idle
                      ELSE [op |-> "attendees", event |-> e, guests |-> G, old |-> rsvp[e]]]
      BY <2>1 DEF C!InsertEvent, C!Then
    <2>3. CASE G = {}
      <3>1. req' = [req EXCEPT ![r] = C!Idle] /\ UNCHANGED <<rsvp, chosen>>
        BY <2>1, <2>2, <2>3 DEF C!InsertEvent
      <3>2. C!Idle.op \notin Passing
        BY DEF C!Idle, Passing
      <3>3. QED
        BY <3>1, <3>2, AnswerKeptBy
    <2>4. CASE G # {}
      BY <2>1, <2>2, <2>4 DEF AnswerInv, Given, C!InsertEvent
    <2>5. QED
      BY <2>3, <2>4
  <1>6. CASE \E r \in Requests : C!ReadEvent(r)
    <2>1. PICK r \in Requests : C!ReadEvent(r)
      BY <1>6
    <2>2. req[r].op = "update" /\ req[r].event \in Events /\ UNCHANGED <<rsvp, chosen>>
      BY <2>1 DEF AnswerInv, C!ReadEvent, C!At
    <2>3. CASE event[req[r].event] = None
      <3>1. req' = [req EXCEPT ![r] = C!Idle]
        BY <2>1, <2>3 DEF C!ReadEvent, C!Then
      <3>2. C!Idle.op \notin Passing
        BY DEF C!Idle, Passing
      <3>3. QED
        BY <2>2, <3>1, <3>2, AnswerKeptBy
    <2>4. CASE event[req[r].event] # None /\ req[r].guests = None
      <3> DEFINE s == [op |-> "move", event |-> req[r].event, cal |-> req[r].cal]
      <3>1. req' = [req EXCEPT ![r] = s]
        BY <2>1, <2>4 DEF C!ReadEvent, C!Then
      <3>2. s.op \notin Passing
        BY DEF Passing
      <3>3. QED
        BY <2>2, <3>1, <3>2, AnswerKeptBy
    <2>5. CASE event[req[r].event] # None /\ req[r].guests # None
      <3> DEFINE s == [op |-> "replace", event |-> req[r].event, cal |-> req[r].cal,
                       guests |-> req[r].guests, old |-> rsvp[req[r].event],
                       same |-> event[req[r].event] = req[r].cal]
      <3>1. req' = [req EXCEPT ![r] = s]
        BY <2>1, <2>5 DEF C!ReadEvent, C!Then
      <3>2. s.op = "replace" /\ s.event = req[r].event /\ s.old = rsvp[req[r].event]
        OBVIOUS
      <3> HIDE DEF s
      <3>3. DOMAIN req' = Requests /\ req'[r] = s /\ \A q \in Requests : q # r => req'[q] = req[q]
        BY <3>1 DEF AnswerInv
      <3>4. \A g \in Guests : Given(s.old[g], s.event, g)
        BY <2>2, <3>2 DEF AnswerInv
      <3>5. QED
        BY <2>2, <3>2, <3>3, <3>4 DEF AnswerInv, Given
    <2>6. QED
      BY <2>3, <2>4, <2>5
  <1>7. CASE \E r \in Requests : C!SetAttendees(r)
    BY <1>7, AnswerInvite DEF C!SetAttendees, C!At, C!Then
  <1>8. CASE \E r \in Requests : C!ReplaceAttendees(r)
    <2>1. PICK r \in Requests : C!ReplaceAttendees(r)
      BY <1>8
    <2>2. CASE C!Invite(r)
      BY <2>1, <2>2, AnswerInvite DEF C!ReplaceAttendees, C!At, C!Then
    <2>3. CASE UNCHANGED <<rsvp, chosen>>
      BY <2>1, <2>3, AnswerKeptBy DEF C!ReplaceAttendees, C!Then, C!Idle, Passing
    <2>4. QED
      BY <2>1, <2>2, <2>3 DEF C!ReplaceAttendees
  <1>9. CASE \E r \in Requests : \E e \in Events : C!UpdateEvent(r, e)
    <2>1. PICK r \in Requests, e \in Events : C!UpdateEvent(r, e)
      BY <1>9
    <2>2. PICK c, G : req' = [req EXCEPT ![r] = [op |-> "update", event |-> e, cal |-> c, guests |-> G]]
      BY <2>1 DEF C!UpdateEvent, C!Start
    <2>3. QED
      BY <2>1, <2>2 DEF AnswerInv, Given, C!UpdateEvent
  <1>10. CASE \E r \in Requests : \E e \in Events : C!DeleteEvent(r, e)
    <2>1. PICK r \in Requests, e \in Events : C!DeleteEvent(r, e)
      BY <1>10
    <2>2. \A d \in Events, g \in Guests : Given(rsvp[d][g], d, g)'
      BY <2>1 DEF AnswerInv, Given, C!DeleteEvent
    <2>3. \A q \in Requests : req'[q].op \in Passing => req'[q] = req[q]
      BY <2>1 DEF AnswerInv, Passing, C!DeleteEvent, C!Start, C!Idle
    <2>4. QED
      BY <2>1, <2>2, <2>3, AnswersGrow DEF AnswerInv, C!DeleteEvent, C!Start
  <1>11. CASE \E r \in Requests : \E e \in Events, g \in Guests, st \in C!Statuses : C!Rsvp(r, e, g, st)
    <2>1. PICK r \in Requests, e \in Events, g \in Guests, st \in C!Statuses : C!Rsvp(r, e, g, st)
      BY <1>11
    <2>2. \A d \in Events, h \in Guests : chosen[d][h].ever \subseteq chosen'[d][h].ever
      BY <2>1 DEF AnswerInv, C!Rsvp
    <2>3. rsvp'[e][g] = st /\ st \in chosen'[e][g].ever
      BY <2>1 DEF AnswerInv, C!Rsvp
    <2>4. \A d \in Events, h \in Guests : (d # e \/ h # g) => rsvp'[d][h] = rsvp[d][h]
      BY <2>1 DEF AnswerInv, C!Rsvp
    <2>5. \A d \in Events, h \in Guests : Given(rsvp[d][h], d, h)'
      BY <2>2, <2>3, <2>4 DEF AnswerInv, Given
    <2>6. \A q \in Requests : req'[q].op \in Passing => req'[q] = req[q]
      BY <2>1 DEF AnswerInv, Passing, C!Rsvp, C!Start, C!Idle
    <2>7. QED
      BY <2>1, <2>2, <2>5, <2>6, AnswersGrow DEF AnswerInv, C!Rsvp, C!Start
  <1>12. CASE UNCHANGED C!vars
    BY <1>12 DEF AnswerInv, Given, C!vars
  <1>13. QED
    BY <1>1, <1>2, <1>3, <1>4, <1>5, <1>6, <1>7, <1>8, <1>9, <1>10, <1>11, <1>12 DEF C!Next

(* set_attendees and rsvp_event: "so an organiser cannot set it for others".  *)
(* A status other than 'pending' is one the guest has given, for any number   *)
(* of requests, events and guests, on both databases.                         *)
THEOREM CalendarAnsweredThemselves == C!Spec => []C!AnsweredThemselves
  <1>1. AnswerInv => C!AnsweredThemselves
    BY DEF AnswerInv, Given, C!AnsweredThemselves
  <1>2. QED
    BY <1>1, AnswerInit, AnswerNext, PTL DEF C!Spec
=============================================================================
