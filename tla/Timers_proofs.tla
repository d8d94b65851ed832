--------------------------- MODULE Timers_proofs ----------------------------
(***************************************************************************)
(* Proofs about the timers of a chat, claimed by several processes from one *)
(* table, and the registry of the replies they start.                      *)
(* A component after the first is an instance, and a theorem speaks of the *)
(* variables of its own component only.                                    *)
(***************************************************************************)
EXTENDS Timers, Integers, FiniteSetTheorems, TLAPS

CONSTANTS Tasks, Procs, Redis, MaxStops, MaxDrops, MaxErrors

VARIABLES home, task, tasks, itemTasks, saving, cleaning, key, hash, items, sub, inbox,
          cancelled, stopped, stops, drops, errors

(* What the provers may take for a step, on a busy machine. *)
USE ZenonT(3), SMTT(30), ZenonT(30)

-----------------------------------------------------------------------------
(* The timers.  On PostgreSQL a selected row is locked.                    *)

TimerTypes ==
    /\ DOMAIN row = Timers /\ \A t \in Timers : row[t].status \in Status
    /\ sel \in [Workers -> SUBSET Timers]
    /\ canc \subseteq Timers /\ children \subseteq Timers /\ hist \subseteq Timers
    /\ fires \in [Timers -> {0, 1}] /\ crashes \in Nat
    /\ \A j \in jobs : j.w \in Workers /\ j.t \in Timers

(* A selected timer is pending, and one process has selected it. *)
TimerLocks ==
    /\ \A w \in Workers : \A t \in sel[w] : row[t].status = "pending"
    /\ \A v, w \in Workers : sel[v] \cap sel[w] # {} => v = w

Waiting(t) == row[t].status \in {"unset", "pending"}

(* A timer has one coroutine, and none while it can still be claimed. *)
TimerJobs ==
    /\ \A j \in jobs : ~Waiting(j.t)
    /\ \A j, k \in jobs : j.t = k.t => j = k

(* A timer that has fired cannot be claimed, nor is it on its way to fire. *)
TimerFires ==
    /\ \A t \in Timers : fires[t] = 1 => ~Waiting(t)
    /\ \A j \in jobs : fires[j.t] = 1 => j.pc = "fire"
    /\ \A j \in jobs : j.pc = "fire" => row[j.t].status # "running"

Inside(j) == j.pc \in {"tx", "write"}

(* One coroutine is inside the transaction on the chat, and what it read is  *)
(* the history that is there.                                                *)
TimerHistory ==
    /\ \A j \in jobs : Inside(j) => chat # "gone" /\ j.hist = hist
    /\ \A j, k \in jobs : Inside(j) /\ Inside(k) => j = k
    /\ chat # "gone" => \A t \in Timers : fires[t] = 1 => t \in hist

TimerHeld == MaxCrashes = 0 => RunningIsHeld

TimerInv == TimerTypes /\ TimerLocks /\ TimerJobs /\ TimerFires /\ TimerHistory /\ TimerHeld

(* TimerInv holds at the start: no timer is set and nothing runs. *)
LEMMA TimerInit == Init => TimerInv
  BY DEF Init, Status, TimerInv, TimerTypes, TimerLocks, TimerJobs, TimerFires, TimerHistory,
         TimerHeld,
       RunningIsHeld, Waiting, Inside

(* A coroutine whose timer is no longer its own ends. *)
LEMMA TimerYield ==
  ASSUME TimerInv, NEW j \in jobs, Yield(j)
  PROVE  TimerInv'
  <1>1. TimerTypes'
    BY DEF TimerInv, TimerTypes, Status, Yield, Ends, Mine, del, env
  <1>2. TimerLocks'
    BY DEF TimerInv, TimerTypes, TimerLocks, TimerJobs, Waiting, Yield, Ends,
           Mine, del, env
  <1>3. TimerJobs'
    BY DEF TimerInv, TimerTypes, TimerLocks, TimerJobs, Waiting, Yield, Ends,
           Mine, del, env
  <1>4. TimerFires'
    BY DEF TimerInv, TimerTypes, TimerLocks, TimerJobs, TimerFires, Waiting, Yield,
           Ends, Mine, del, env
  <1>5. TimerHistory'
    BY DEF TimerInv, TimerTypes, TimerJobs, TimerFires, TimerHistory, Inside, Waiting,
           Yield, Ends, Mine, del, env
  <1>6. TimerHeld'
    BY DEF TimerInv, TimerTypes, TimerJobs, TimerFires, TimerHistory, Inside, TimerHeld,
           RunningIsHeld, Waiting, Yield, Ends, Mine, del, env
  <1>7. QED
    BY <1>1, <1>2, <1>3, <1>4, <1>5, <1>6 DEF TimerInv

(* A coroutine has read what it needs. *)
LEMMA TimerPrepare ==
  ASSUME TimerInv, NEW j \in jobs, Prepare(j)
  PROVE  TimerInv'
  <1>1. TimerTypes'
    BY DEF TimerInv, TimerTypes, Status, Prepare, Goes, Becomes, del, env
  <1>2. TimerLocks'
    BY DEF TimerInv, TimerTypes, TimerLocks, TimerJobs, Waiting, Prepare, Goes,
           Becomes, del, env
  <1>3. TimerJobs'
    BY DEF TimerInv, TimerTypes, TimerLocks, TimerJobs, Waiting, Prepare, Goes,
           Becomes, del, env
  <1>4. TimerFires'
    BY DEF TimerInv, TimerTypes, TimerLocks, TimerJobs, TimerFires, Waiting, Prepare,
           Goes, Becomes, del, env
  <1>5. TimerHistory'
    BY DEF TimerInv, TimerTypes, TimerJobs, TimerFires, TimerHistory, Inside, Waiting,
           Prepare, Goes, Becomes, del, env
  <1>6. TimerHeld'
    <2> DEFINE k == [w |-> j.w, t |-> j.t, claim |-> j.claim, pc |-> "ready", hist |-> j.hist]
    <2>1. jobs' = (jobs \ {j}) \cup {k} /\ row' = row
      BY DEF Prepare, Goes, Becomes
    <2>2. k.t = j.t /\ k.claim = j.claim
      OBVIOUS
    <2>3. SUFFICES ASSUME MaxCrashes = 0, NEW t \in Timers, row[t].status = "running"
                   PROVE  \E i \in jobs' : i.t = t /\ i.claim = row[t].claim
      BY <2>1 DEF TimerHeld, RunningIsHeld
    <2>4. PICK i \in jobs : i.t = t /\ i.claim = row[t].claim
      BY <2>3 DEF TimerInv, TimerHeld, RunningIsHeld
    <2>5. QED
      BY <2>1, <2>2, <2>4
  <1>7. QED
    BY <1>1, <1>2, <1>3, <1>4, <1>5, <1>6 DEF TimerInv

(* An error ends the coroutine and the timer. *)
LEMMA TimerError ==
  ASSUME TimerInv, NEW j \in jobs, Error(j)
  PROVE  TimerInv'
  <1>1. TimerTypes'
    BY DEF TimerInv, TimerTypes, Status, Error, Put, Ends, Mine, Absent,
           del, env
  <1>2. TimerLocks'
    BY DEF TimerInv, TimerTypes, TimerLocks, TimerJobs, Waiting, Error, Put, Ends,
           Mine, Absent, del, env
  <1>3. TimerJobs'
    BY DEF TimerInv, TimerTypes, TimerLocks, TimerJobs, Waiting, Error, Put, Ends,
           Mine, Absent, del, env
  <1>4. TimerFires'
    BY DEF TimerInv, TimerTypes, TimerLocks, TimerJobs, TimerFires, Waiting, Error,
           Put, Ends, Mine, Absent, del, env
  <1>5. TimerHistory'
    BY DEF TimerInv, TimerTypes, TimerJobs, TimerFires, TimerHistory, Inside, Waiting,
           Error, Put, Ends, Mine, Absent, del, env
  <1>6. TimerHeld'
    BY DEF TimerInv, TimerTypes, TimerJobs, TimerFires, TimerHistory, Inside, TimerHeld,
           RunningIsHeld, Waiting, Error, Put, Ends, Mine, Absent, del,
           env
  <1>7. QED
    BY <1>1, <1>2, <1>3, <1>4, <1>5, <1>6 DEF TimerInv

(* The lock on the chat lets one coroutine in. *)
LEMMA TimerEnter ==
  ASSUME TimerInv, Postgres, NEW j \in jobs, Enter(j)
  PROVE  TimerInv'
  <1>1. TimerTypes'
    BY DEF TimerInv, TimerTypes, Status, Enter, Becomes, ParentLock, del,
           env
  <1>2. TimerLocks'
    BY DEF TimerInv, TimerTypes, TimerLocks, TimerJobs, Waiting, Enter, Becomes,
           ParentLock, del, env
  <1>3. TimerJobs'
    BY DEF TimerInv, TimerTypes, TimerLocks, TimerJobs, Waiting, Enter, Becomes,
           ParentLock, del, env
  <1>4. TimerFires'
    BY DEF TimerInv, TimerTypes, TimerLocks, TimerJobs, TimerFires, Waiting, Enter,
           Becomes, ParentLock, del, env
  <1>5. TimerHistory'
    BY DEF TimerInv, TimerTypes, TimerJobs, TimerFires, TimerHistory, Inside, Waiting,
           Enter, Becomes, ParentLock, del, env
  <1>6. TimerHeld'
    <2> DEFINE k == [w |-> j.w, t |-> j.t, claim |-> j.claim, pc |-> "tx", hist |-> hist]
    <2>1. jobs' = (jobs \ {j}) \cup {k} /\ row' = row
      BY DEF Enter, Becomes
    <2>2. k.t = j.t /\ k.claim = j.claim
      OBVIOUS
    <2>3. SUFFICES ASSUME MaxCrashes = 0, NEW t \in Timers, row[t].status = "running"
                   PROVE  \E i \in jobs' : i.t = t /\ i.claim = row[t].claim
      BY <2>1 DEF TimerHeld, RunningIsHeld
    <2>4. PICK i \in jobs : i.t = t /\ i.claim = row[t].claim
      BY <2>3 DEF TimerInv, TimerHeld, RunningIsHeld
    <2>5. QED
      BY <2>1, <2>2, <2>4
  <1>7. QED
    BY <1>1, <1>2, <1>3, <1>4, <1>5, <1>6 DEF TimerInv

(* A timer that is put back has no coroutine any more. *)
LEMMA TimerRequeue ==
  ASSUME TimerInv, NEW j \in jobs, Requeue(j)
  PROVE  TimerInv'
  <1>1. TimerTypes'
    BY DEF TimerInv, TimerTypes, Status, Requeue, Ends, Absent, del, env
  <1>2. TimerLocks'
    BY DEF TimerInv, TimerTypes, TimerLocks, TimerJobs, Waiting, Requeue, Ends,
           Absent, del, env
  <1>3. TimerJobs'
    BY DEF TimerInv, TimerTypes, TimerLocks, TimerJobs, Waiting, Requeue, Ends,
           Absent, del, env
  <1>4. TimerFires'
    BY DEF TimerInv, TimerTypes, TimerLocks, TimerJobs, TimerFires, Waiting, Requeue,
           Ends, Absent, del, env
  <1>5. TimerHistory'
    BY DEF TimerInv, TimerTypes, TimerJobs, TimerFires, TimerHistory, Inside, Waiting,
           Requeue, Ends, Absent, del, env
  <1>6. TimerHeld'
    BY DEF TimerInv, TimerTypes, TimerJobs, TimerFires, TimerHistory, Inside, TimerHeld,
           RunningIsHeld, Waiting, Requeue, Ends, Absent, del, env
  <1>7. QED
    BY <1>1, <1>2, <1>3, <1>4, <1>5, <1>6 DEF TimerInv

(* No reply is running. *)
LEMMA TimerQuiet ==
  ASSUME TimerInv, NEW j \in jobs, Quiet(j)
  PROVE  TimerInv'
  <1>1. TimerTypes'
    BY DEF TimerInv, TimerTypes, Status, Quiet, Goes, Becomes, del, env
  <1>2. TimerLocks'
    BY DEF TimerInv, TimerTypes, TimerLocks, TimerJobs, Waiting, Quiet, Goes,
           Becomes, del, env
  <1>3. TimerJobs'
    BY DEF TimerInv, TimerTypes, TimerLocks, TimerJobs, Waiting, Quiet, Goes,
           Becomes, del, env
  <1>4. TimerFires'
    BY DEF TimerInv, TimerTypes, TimerLocks, TimerJobs, TimerFires, Waiting, Quiet,
           Goes, Becomes, del, env
  <1>5. TimerHistory'
    BY DEF TimerInv, TimerTypes, TimerJobs, TimerFires, TimerHistory, Inside, Waiting,
           Quiet, Goes, Becomes, del, env
  <1>6. TimerHeld'
    <2> DEFINE k == [w |-> j.w, t |-> j.t, claim |-> j.claim, pc |-> "write", hist |-> j.hist]
    <2>1. jobs' = (jobs \ {j}) \cup {k} /\ row' = row
      BY DEF Quiet, Goes, Becomes
    <2>2. k.t = j.t /\ k.claim = j.claim
      OBVIOUS
    <2>3. SUFFICES ASSUME MaxCrashes = 0, NEW t \in Timers, row[t].status = "running"
                   PROVE  \E i \in jobs' : i.t = t /\ i.claim = row[t].claim
      BY <2>1 DEF TimerHeld, RunningIsHeld
    <2>4. PICK i \in jobs : i.t = t /\ i.claim = row[t].claim
      BY <2>3 DEF TimerInv, TimerHeld, RunningIsHeld
    <2>5. QED
      BY <2>1, <2>2, <2>4
  <1>7. QED
    BY <1>1, <1>2, <1>3, <1>4, <1>5, <1>6 DEF TimerInv

(* The coroutine that fires is the only one inside. *)
LEMMA TimerFire ==
  ASSUME TimerInv, NEW j \in jobs, Fire(j)
  PROVE  TimerInv'
  <1>1. TimerTypes'
    BY DEF TimerInv, TimerTypes, TimerFires, TimerHistory, Inside, Status, Fire,
           Becomes, Put, Absent, del, env
  <1>2. TimerLocks'
    BY DEF TimerInv, TimerTypes, TimerLocks, TimerJobs, Waiting, Fire, Becomes,
           Put, Absent, del, env
  <1>3. TimerJobs'
    <2>1. \A t \in Timers : ~Waiting(t) => ~Waiting(t)'
      BY DEF TimerInv, TimerTypes, Waiting, Fire, Put, Absent
    <2> DEFINE k == [w |-> j.w, t |-> j.t, claim |-> j.claim, pc |-> "fire", hist |-> {}]
    <2>2. jobs' = (jobs \ {j}) \cup {k} /\ k.t = j.t
      BY DEF Fire, Becomes
    <2> HIDE DEF k
    <2>3. QED
      BY <2>1, <2>2 DEF TimerInv, TimerTypes, TimerJobs
  <1>4. TimerFires'
    BY DEF TimerInv, TimerTypes, TimerLocks, TimerJobs, TimerFires, Waiting, Fire,
           Becomes, Put, Absent, del, env
  <1>5. TimerHistory'
    BY DEF TimerInv, TimerTypes, TimerJobs, TimerFires, TimerHistory, Inside, Waiting,
           Fire, Becomes, Put, Absent, del, env
  <1>6. TimerHeld'
    BY DEF TimerInv, TimerTypes, TimerJobs, TimerFires, TimerHistory, Inside, TimerHeld,
           RunningIsHeld, Waiting, Fire, Becomes, Put, Absent, del, env
  <1>7. QED
    BY <1>1, <1>2, <1>3, <1>4, <1>5, <1>6 DEF TimerInv

(* The chat cannot go while a coroutine is inside. *)
LEMMA TimerFireFails ==
  ASSUME TimerInv, NEW j \in jobs, FireFails(j)
  PROVE  TimerInv'
  <1>1. TimerTypes'
    BY DEF TimerInv, TimerTypes, Status, FireFails, Ends, del, env
  <1>2. TimerLocks'
    BY DEF TimerInv, TimerTypes, TimerLocks, TimerJobs, Waiting, FireFails, Ends,
           del, env
  <1>3. TimerJobs'
    BY DEF TimerInv, TimerTypes, TimerLocks, TimerJobs, Waiting, FireFails, Ends,
           del, env
  <1>4. TimerFires'
    BY DEF TimerInv, TimerTypes, TimerLocks, TimerJobs, TimerFires, Waiting,
           FireFails, Ends, del, env
  <1>5. TimerHistory'
    BY DEF TimerInv, TimerTypes, TimerJobs, TimerFires, TimerHistory, Inside, Waiting,
           FireFails, Ends, del, env
  <1>6. TimerHeld'
    BY DEF TimerInv, TimerTypes, TimerJobs, TimerFires, TimerHistory, Inside, TimerHeld,
           RunningIsHeld, Waiting, FireFails, Ends, del, env
  <1>7. QED
    BY <1>1, <1>2, <1>3, <1>4, <1>5, <1>6 DEF TimerInv

(* The reply starts. *)
LEMMA TimerHandle ==
  ASSUME TimerInv, NEW j \in jobs, Handle(j)
  PROVE  TimerInv'
  <1>1. TimerTypes'
    BY DEF TimerInv, TimerTypes, Status, Handle, Ends, del, env
  <1>2. TimerLocks'
    BY DEF TimerInv, TimerTypes, TimerLocks, TimerJobs, Waiting, Handle, Ends,
           del, env
  <1>3. TimerJobs'
    BY DEF TimerInv, TimerTypes, TimerLocks, TimerJobs, Waiting, Handle, Ends,
           del, env
  <1>4. TimerFires'
    BY DEF TimerInv, TimerTypes, TimerLocks, TimerJobs, TimerFires, Waiting, Handle,
           Ends, del, env
  <1>5. TimerHistory'
    BY DEF TimerInv, TimerTypes, TimerJobs, TimerFires, TimerHistory, Inside, Waiting,
           Handle, Ends, del, env
  <1>6. TimerHeld'
    BY DEF TimerInv, TimerTypes, TimerJobs, TimerFires, TimerHistory, Inside, TimerHeld,
           RunningIsHeld, Waiting, Handle, Ends, del, env
  <1>7. QED
    BY <1>1, <1>2, <1>3, <1>4, <1>5, <1>6 DEF TimerInv

(* The reply fails to start. *)
LEMMA TimerHandleFails ==
  ASSUME TimerInv, NEW j \in jobs, HandleFails(j)
  PROVE  TimerInv'
  <1>1. TimerTypes'
    BY DEF TimerInv, TimerTypes, Status, HandleFails, Put, Ends, Absent,
           del, env
  <1>2. TimerLocks'
    BY DEF TimerInv, TimerTypes, TimerLocks, TimerJobs, Waiting, HandleFails, Put,
           Ends, Absent, del, env
  <1>3. TimerJobs'
    BY DEF TimerInv, TimerTypes, TimerLocks, TimerJobs, Waiting, HandleFails, Put,
           Ends, Absent, del, env
  <1>4. TimerFires'
    BY DEF TimerInv, TimerTypes, TimerLocks, TimerJobs, TimerFires, Waiting,
           HandleFails, Put, Ends, Absent, del, env
  <1>5. TimerHistory'
    BY DEF TimerInv, TimerTypes, TimerJobs, TimerFires, TimerHistory, Inside, Waiting,
           HandleFails, Put, Ends, Absent, del, env
  <1>6. TimerHeld'
    BY DEF TimerInv, TimerTypes, TimerJobs, TimerFires, TimerHistory, Inside, TimerHeld,
           RunningIsHeld, Waiting, HandleFails, Put, Ends, Absent, del,
           env
  <1>7. QED
    BY <1>1, <1>2, <1>3, <1>4, <1>5, <1>6 DEF TimerInv

(* A timer is set. *)
LEMMA TimerCreate ==
  ASSUME TimerInv, NEW t \in Timers, Create(t)
  PROVE  TimerInv'
  <1>1. TimerTypes'
    BY DEF TimerInv, TimerTypes, Status, Create, del, env
  <1>2. TimerLocks'
    BY DEF TimerInv, TimerTypes, TimerLocks, TimerJobs, Waiting, Create, del, env
  <1>3. TimerJobs'
    BY DEF TimerInv, TimerTypes, TimerLocks, TimerJobs, Waiting, Create, del, env
  <1>4. TimerFires'
    BY DEF TimerInv, TimerTypes, TimerLocks, TimerJobs, TimerFires, Waiting, Create,
           del, env
  <1>5. TimerHistory'
    BY DEF TimerInv, TimerTypes, TimerJobs, TimerFires, TimerHistory, Inside, Waiting,
           Create, del, env
  <1>6. TimerHeld'
    BY DEF TimerInv, TimerTypes, TimerJobs, TimerFires, TimerHistory, Inside, TimerHeld,
           RunningIsHeld, Waiting, Create, del, env
  <1>7. QED
    BY <1>1, <1>2, <1>3, <1>4, <1>5, <1>6 DEF TimerInv

(* Rows are selected, and locked. *)
LEMMA TimerSelect ==
  ASSUME TimerInv, Postgres, NEW w \in Workers, Select(w)
  PROVE  TimerInv'
  <1>1. TimerTypes'
    BY DEF TimerInv, TimerTypes, Status, Select, Locked, del, env
  <1>2. TimerLocks'
    BY DEF TimerInv, TimerTypes, TimerLocks, TimerJobs, Waiting, Select, Locked,
           del, env
  <1>3. TimerJobs'
    BY DEF TimerInv, TimerTypes, TimerLocks, TimerJobs, Waiting, Select, Locked,
           del, env
  <1>4. TimerFires'
    BY DEF TimerInv, TimerTypes, TimerLocks, TimerJobs, TimerFires, Waiting, Select,
           Locked, del, env
  <1>5. TimerHistory'
    BY DEF TimerInv, TimerTypes, TimerJobs, TimerFires, TimerHistory, Inside, Waiting,
           Select, Locked, del, env
  <1>6. TimerHeld'
    BY DEF TimerInv, TimerTypes, TimerJobs, TimerFires, TimerHistory, Inside, TimerHeld,
           RunningIsHeld, Waiting, Select, Locked, del, env
  <1>7. QED
    BY <1>1, <1>2, <1>3, <1>4, <1>5, <1>6 DEF TimerInv

(* The claim starts the one coroutine of a timer. *)
LEMMA TimerClaim ==
  ASSUME TimerInv, NEW w \in Workers, Claim(w)
  PROVE  TimerInv'
  <1>1. TimerTypes'
    BY DEF TimerInv, TimerTypes, Status, Claim, del, env
  <1>2. TimerLocks'
    BY DEF TimerInv, TimerTypes, TimerLocks, TimerJobs, Waiting, Claim, del, env
  <1>3. TimerJobs'
    <2> DEFINE new == {[w |-> w, t |-> t, claim |-> Fresh, pc |-> "queued", hist |-> {}] :
                         t \in sel[w]}
    <2>1. jobs' = jobs \cup new
      BY DEF Claim
    <2>2. \A j \in new : j.t \in sel[w]
      OBVIOUS
    <2>3. \A j, k \in new : j.t = k.t => j = k
      OBVIOUS
    <2>4. \A j \in jobs, k \in new : j.t # k.t
      BY <2>2 DEF TimerInv, TimerTypes, TimerLocks, TimerJobs, Waiting
    <2>5. \A t \in Timers : ~Waiting(t) => ~Waiting(t)'
      BY DEF TimerInv, TimerTypes, Waiting, Claim
    <2>6. \A t \in sel[w] : ~Waiting(t)'
      BY DEF TimerInv, TimerTypes, Waiting, Claim
    <2> HIDE DEF new
    <2>7. QED
      BY <2>1, <2>2, <2>3, <2>4, <2>5, <2>6 DEF TimerInv, TimerTypes, TimerJobs
  <1>4. TimerFires'
    BY DEF TimerInv, TimerTypes, TimerLocks, TimerJobs, TimerFires, Waiting, Claim,
           del, env
  <1>5. TimerHistory'
    BY DEF TimerInv, TimerTypes, TimerJobs, TimerFires, TimerHistory, Inside, Waiting,
           Claim, del, env
  <1>6. TimerHeld'
    <2>1. SUFFICES ASSUME MaxCrashes = 0, NEW t \in Timers, row'[t].status = "running"
                   PROVE  \E i \in jobs' : i.t = t /\ i.claim = row'[t].claim
      BY DEF TimerHeld, RunningIsHeld
    <2>2. CASE t \in sel[w]
      <3> DEFINE k == [w |-> w, t |-> t, claim |-> Fresh, pc |-> "queued", hist |-> {}]
      <3>1. k \in jobs'
        BY <2>2 DEF Claim
      <3>2. row'[t].claim = Fresh
        BY <2>2 DEF Claim
      <3>3. k.t = t /\ k.claim = Fresh
        OBVIOUS
      <3>4. QED
        BY <3>1, <3>2, <3>3
    <2>3. CASE t \notin sel[w]
      BY <2>1, <2>3 DEF TimerInv, TimerTypes, TimerHeld, RunningIsHeld, Claim
    <2>4. QED
      BY <2>2, <2>3
  <1>7. QED
    BY <1>1, <1>2, <1>3, <1>4, <1>5, <1>6 DEF TimerInv

(* A claim fails. *)
LEMMA TimerClaimFails ==
  ASSUME TimerInv, NEW w \in Workers, ClaimFails(w)
  PROVE  TimerInv'
  <1>1. TimerTypes'
    BY DEF TimerInv, TimerTypes, Status, ClaimFails, del, env
  <1>2. TimerLocks'
    BY DEF TimerInv, TimerTypes, TimerLocks, TimerJobs, Waiting, ClaimFails, del,
           env
  <1>3. TimerJobs'
    BY DEF TimerInv, TimerTypes, TimerLocks, TimerJobs, Waiting, ClaimFails, del,
           env
  <1>4. TimerFires'
    BY DEF TimerInv, TimerTypes, TimerLocks, TimerJobs, TimerFires, Waiting,
           ClaimFails, del, env
  <1>5. TimerHistory'
    BY DEF TimerInv, TimerTypes, TimerJobs, TimerFires, TimerHistory, Inside, Waiting,
           ClaimFails, del, env
  <1>6. TimerHeld'
    BY DEF TimerInv, TimerTypes, TimerJobs, TimerFires, TimerHistory, Inside, TimerHeld,
           RunningIsHeld, Waiting, ClaimFails, del, env
  <1>7. QED
    BY <1>1, <1>2, <1>3, <1>4, <1>5, <1>6 DEF TimerInv

(* A process dies. *)
LEMMA TimerCrash ==
  ASSUME TimerInv, TimersAssumption, NEW w \in Workers, Crash(w)
  PROVE  TimerInv'
  <1>1. TimerTypes'
    BY DEF TimerInv, TimerTypes, Status, Crash, TimersAssumption, del, env
  <1>2. TimerLocks'
    BY DEF TimerInv, TimerTypes, TimerLocks, TimerJobs, Waiting, Crash,
           TimersAssumption, del, env
  <1>3. TimerJobs'
    BY DEF TimerInv, TimerTypes, TimerLocks, TimerJobs, Waiting, Crash,
           TimersAssumption, del, env
  <1>4. TimerFires'
    BY DEF TimerInv, TimerTypes, TimerLocks, TimerJobs, TimerFires, Waiting, Crash,
           TimersAssumption, del, env
  <1>5. TimerHistory'
    BY DEF TimerInv, TimerTypes, TimerJobs, TimerFires, TimerHistory, Inside, Waiting,
           Crash, TimersAssumption, del, env
  <1>6. TimerHeld'
    BY DEF TimerInv, TimerTypes, TimerJobs, TimerFires, TimerHistory, Inside, TimerHeld,
           RunningIsHeld, Waiting, Crash, TimersAssumption, del, env
  <1>7. QED
    BY <1>1, <1>2, <1>3, <1>4, <1>5, <1>6 DEF TimerInv

(* The cancelling request writes rows nobody has locked. *)
LEMMA TimerCancelWrite ==
  ASSUME TimerInv, Postgres, CancelWrite
  PROVE  TimerInv'
  <1>1. TimerTypes'
    BY DEF TimerInv, TimerTypes, Status, CancelWrite, Locked, del, env
  <1>2. TimerLocks'
    BY DEF TimerInv, TimerTypes, TimerLocks, TimerJobs, Waiting, CancelWrite,
           Locked, del, env
  <1>3. TimerJobs'
    BY DEF TimerInv, TimerTypes, TimerLocks, TimerJobs, Waiting, CancelWrite,
           Locked, del, env
  <1>4. TimerFires'
    BY DEF TimerInv, TimerTypes, TimerLocks, TimerJobs, TimerFires, Waiting,
           CancelWrite, Locked, del, env
  <1>5. TimerHistory'
    BY DEF TimerInv, TimerTypes, TimerJobs, TimerFires, TimerHistory, Inside, Waiting,
           CancelWrite, Locked, del, env
  <1>6. TimerHeld'
    <2>1. \A t \in Timers : row'[t].status = "running" => row'[t] = row[t]
      BY DEF TimerInv, TimerTypes, CancelWrite
    <2>2. jobs' = jobs
      BY DEF CancelWrite
    <2>3. QED
      BY <2>1, <2>2 DEF TimerInv, TimerHeld, RunningIsHeld
  <1>7. QED
    BY <1>1, <1>2, <1>3, <1>4, <1>5, <1>6 DEF TimerInv

(* A timer is deleted with its chat. *)
LEMMA TimerDeleteChild ==
  ASSUME TimerInv, Postgres, NEW t \in Timers, DeleteChild(t)
  PROVE  TimerInv'
  <1>1. TimerTypes'
    BY DEF TimerInv, TimerTypes, Status, DeleteChild, Locked, del, env
  <1>2. TimerLocks'
    BY DEF TimerInv, TimerTypes, TimerLocks, TimerJobs, Waiting, DeleteChild,
           Locked, del, env
  <1>3. TimerJobs'
    BY DEF TimerInv, TimerTypes, TimerLocks, TimerJobs, Waiting, DeleteChild,
           Locked, del, env
  <1>4. TimerFires'
    BY DEF TimerInv, TimerTypes, TimerLocks, TimerJobs, TimerFires, Waiting,
           DeleteChild, Locked, del, env
  <1>5. TimerHistory'
    BY DEF TimerInv, TimerTypes, TimerJobs, TimerFires, TimerHistory, Inside, Waiting,
           DeleteChild, Locked, del, env
  <1>6. TimerHeld'
    <2>1. \A u \in Timers : row'[u].status = "running" => row'[u] = row[u]
      BY DEF TimerInv, TimerTypes, DeleteChild
    <2>2. jobs' = jobs
      BY DEF DeleteChild
    <2>3. QED
      BY <2>1, <2>2 DEF TimerInv, TimerHeld, RunningIsHeld
  <1>7. QED
    BY <1>1, <1>2, <1>3, <1>4, <1>5, <1>6 DEF TimerInv

(* The chat is deleted when no coroutine is inside. *)
LEMMA TimerDeleteChat ==
  ASSUME TimerInv, Postgres, DeleteChat
  PROVE  TimerInv'
  <1>1. TimerTypes'
    BY DEF TimerInv, TimerTypes, Status, DeleteChat, del, env
  <1>2. TimerLocks'
    BY DEF TimerInv, TimerTypes, TimerLocks, TimerJobs, Waiting, DeleteChat, del,
           env
  <1>3. TimerJobs'
    BY DEF TimerInv, TimerTypes, TimerLocks, TimerJobs, Waiting, DeleteChat, del,
           env
  <1>4. TimerFires'
    BY DEF TimerInv, TimerTypes, TimerLocks, TimerJobs, TimerFires, Waiting,
           DeleteChat, del, env
  <1>5. TimerHistory'
    BY DEF TimerInv, TimerTypes, TimerJobs, TimerFires, TimerHistory, Inside, Waiting,
           DeleteChat, del, env
  <1>6. TimerHeld'
    BY DEF TimerInv, TimerTypes, TimerJobs, TimerFires, TimerHistory, Inside, TimerHeld,
           RunningIsHeld, Waiting, DeleteChat, del, env
  <1>7. QED
    BY <1>1, <1>2, <1>3, <1>4, <1>5, <1>6 DEF TimerInv

(* What is left of Next changes neither rows, coroutines nor the history.   *)
LEMMA TimerRest ==
  ASSUME TimersAssumption, TimerInv,
         \/ ReplyStarts \/ ReplyEnds \/ CancelSelect \/ Delete
         \/ UNCHANGED vars
  PROVE  TimerInv'
  <1>1. /\ UNCHANGED <<row, sel, jobs, hist, fires, crashes>>
        /\ chat' = "gone" <=> chat = "gone"
        /\ canc' \subseteq Timers /\ children' \subseteq Timers
    BY DEF TimersAssumption, TimerInv, TimerTypes, ReplyStarts, ReplyEnds, CancelSelect,
           Delete, vars, del, env
  <1>2. QED
    BY <1>1 DEF TimerInv, TimerTypes, TimerLocks, TimerJobs, TimerFires, TimerHistory, TimerHeld,
                RunningIsHeld, Waiting, Inside

(* Every step keeps TimerInv. *)
LEMMA TimerNext ==
  ASSUME TimersAssumption, Postgres, TimerInv, [Next]_vars
  PROVE  TimerInv'
  <1>1. CASE \E t \in Timers : Create(t) \/ DeleteChild(t)
    BY <1>1, TimerCreate, TimerDeleteChild
  <1>2. CASE \E w \in Workers : Select(w) \/ Claim(w) \/ ClaimFails(w) \/ Crash(w)
    BY <1>2, TimerSelect, TimerClaim, TimerClaimFails, TimerCrash
  <1>3. CASE \E j \in jobs : Step(j)
    BY <1>3, TimerYield, TimerPrepare, TimerError, TimerEnter, TimerRequeue, TimerQuiet, TimerFire,
       TimerFireFails, TimerHandle, TimerHandleFails DEF Step
  <1>4. CASE CancelWrite \/ DeleteChat
    BY <1>4, TimerCancelWrite, TimerDeleteChat
  <1>5. CASE \/ ReplyStarts \/ ReplyEnds \/ CancelSelect \/ Delete
             \/ UNCHANGED vars
    BY <1>5, TimerRest
  <1>6. QED
    BY <1>1, <1>2, <1>3, <1>4, <1>5 DEF Next

(* On PostgreSQL every reachable state of the timers has TimerInv. *)
THEOREM TimersInv ==
  ASSUME TimersAssumption, Postgres
  PROVE  Spec => []TimerInv
  <1>1. TimerInv /\ [Next]_vars => TimerInv'
    BY TimerNext
  <1>2. QED
    BY <1>1, TimerInit, PTL DEF Spec

(* claim_due_timers and execute_due_timer: on PostgreSQL a timer's prompt    *)
(* is sent into the chat at most once, for any number of timers and          *)
(* processes, with cancelling requests, crashes and the chat's deletion.     *)
THEOREM TimersFireOnce ==
  ASSUME TimersAssumption, Postgres
  PROVE  Spec => []FiresOnce
  <1>1. TimerInv => FiresOnce
    BY DEF TimerInv, TimerTypes, FiresOnce
  <1>2. QED
    BY <1>1, TimersInv, PTL

(* execute_due_timer writes back the whole history it has read; on           *)
(* PostgreSQL no timer's messages are undone by another timer's.             *)
THEOREM TimersKeepHistory ==
  ASSUME TimersAssumption, Postgres
  PROVE  Spec => []HistoryKept
  <1>1. TimerInv => HistoryKept
    BY DEF TimerInv, TimerTypes, TimerHistory, HistoryKept
  <1>2. QED
    BY <1>1, TimersInv, PTL

(* As long as no process dies, a running timer has the coroutine of its      *)
(* claim: it is never left in a status claim_due_timers passes over.         *)
THEOREM TimersAreHeld ==
  ASSUME TimersAssumption, Postgres, MaxCrashes = 0
  PROVE  Spec => []RunningIsHeld
  <1>1. TimerInv => RunningIsHeld
    BY DEF TimerInv, TimerHeld
  <1>2. QED
    BY <1>1, TimersInv, PTL

-----------------------------------------------------------------------------
R == INSTANCE TaskRegistry

(* The registry of running replies.                                        *)

(* A reply that runs is in the dictionaries of its process, unless it was    *)
(* stopped; with Redis its key and its entry are there once it is saved, and *)
(* only the tasks that are over are cleaned up.                              *)
RegistryInv ==
    /\ DOMAIN task = Tasks
    /\ \A t \in cleaning : t \in Tasks /\ task[t] = "ended"
    /\ \A t \in Tasks : task[t] = "running" =>
          /\ t \in itemTasks
          /\ t \notin stopped => t \in tasks
          /\ Redis /\ t \notin saving \cup stopped => t \in key \cap items

LEMMA RegistryInit == R!Init => RegistryInv
  BY DEF R!Init, RegistryInv

(* Every step keeps RegistryInv: a running task holds its key, so that it     *)
(* cannot expire, and redis_list_tasks only removes entries without a key.    *)
LEMMA RegistryNext ==
  ASSUME RegistryInv, [R!Next]_R!vars
  PROVE  RegistryInv'
  <1>1. CASE \E t \in Tasks : R!Create(t)
    BY <1>1 DEF RegistryInv, R!Create, R!local, R!store, R!pubsub
  <1>2. CASE \E t \in Tasks : R!Save(t)
    BY <1>2 DEF RegistryInv, R!Save, R!local, R!store, R!pubsub
  <1>3. CASE \E t \in Tasks : R!Deregister(t)
    BY <1>3 DEF RegistryInv, R!Deregister, R!CleanupTask, R!RedisCleanup, R!local, R!store, R!pubsub
  <1>4. CASE \E t \in Tasks : R!DeregisterFails(t)
    BY <1>4 DEF RegistryInv, R!DeregisterFails, R!local, R!store, R!pubsub
  <1>5. CASE \E t \in Tasks : R!End(t)
    BY <1>5 DEF RegistryInv, R!End, R!local, R!store, R!pubsub
  <1>6. CASE \E t \in Tasks : R!Cleanup(t)
    BY <1>6 DEF RegistryInv, R!Cleanup, R!CleanupTask, R!RedisCleanup, R!local, R!store, R!pubsub
  <1>7. CASE \E t \in Tasks : R!CleanupFails(t)
    BY <1>7 DEF RegistryInv, R!CleanupFails, R!local, R!store, R!pubsub
  <1>8. CASE \E t \in Tasks : R!Stop(t)
    BY <1>8 DEF RegistryInv, R!Stop, R!RedisCleanup, R!Alive, R!local, R!store, R!pubsub
  <1>9. CASE \E t \in Tasks : R!StopLocal(t)
    BY <1>9 DEF RegistryInv, R!StopLocal, R!Alive, R!local, R!store, R!pubsub
  <1>10. CASE \E t \in Tasks : R!Expire(t)
    BY <1>10 DEF RegistryInv, R!Expire, R!Held, R!local, R!store, R!pubsub
  <1>11. CASE \E p \in Procs : R!Listen(p)
    BY <1>11 DEF RegistryInv, R!Listen, R!local, R!store, R!pubsub
  <1>12. CASE \E p \in Procs : R!Drop(p)
    BY <1>12 DEF RegistryInv, R!Drop, R!local, R!store, R!pubsub
  <1>13. CASE \E p \in Procs : R!Subscribe(p)
    BY <1>13 DEF RegistryInv, R!Subscribe, R!local, R!store, R!pubsub
  <1>14. CASE \E p \in Procs : R!Crash(p)
    BY <1>14 DEF RegistryInv, R!Crash, R!Alive, R!local, R!store, R!pubsub
  <1>15. CASE R!List
    BY <1>15 DEF RegistryInv, R!List, R!RedisCleanup, R!local, R!pubsub
  <1>16. CASE UNCHANGED R!vars
    BY <1>16 DEF RegistryInv, R!vars, R!local, R!store, R!pubsub
  <1>17. QED
    BY <1>1, <1>2, <1>3, <1>4, <1>5, <1>6, <1>7, <1>8, <1>9, <1>10, <1>11, <1>12, <1>13, <1>14,
       <1>15, <1>16 DEF R!Next

(* has_active_tasks does not miss a reply: one that was saved, runs and was   *)
(* not stopped is listed, with Redis and without, for any number of tasks     *)
(* and processes, although connections drop, commands of Redis raise, keys    *)
(* expire and processes die.                                                  *)
THEOREM RegistryRunningListed == R!Spec => []R!RunningListed
  <1>1. RegistryInv => R!RunningListed
    BY DEF RegistryInv, R!RunningListed, R!Listed
  <1>2. QED
    BY <1>1, RegistryInit, RegistryNext, PTL DEF R!Spec
=============================================================================
