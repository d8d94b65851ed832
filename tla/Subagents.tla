----------------------------- MODULE Subagents ------------------------------
(***************************************************************************)
(* Sub-agents of one chat in one process (utils/subagents.py, and the end  *)
(* of a turn in main.py).  A delegation takes a slot, makes a chat of its  *)
(* own and runs in a task.  A foreground one is awaited by the turn that   *)
(* made it; a background one leaves its result in the parent chat, where a *)
(* turn of its own answers it once no other turn runs.                     *)
(***************************************************************************)
EXTENDS Naturals, FiniteSets

CONSTANTS Jobs,           \* delegations
          None,
          MaxAsync,       \* subagents.max_async
          MaxConcurrent,  \* subagents.max_concurrent
          Modes,          \* the modes the calls of delegate use
          MaxDelegating,  \* bound on the turns that delegate
          MaxTurns,       \* bound on the turns of the chat
          MaxUserTurns,   \* bound on those the user starts
          MaxStops,       \* bound on cancelled sub-agents
          MaxFaults,      \* bound on chats that cannot be made
          MaxAborts,      \* bound on turns cancelled before the sub-agent began
          MaxErrors,      \* bound on failed writes to Redis
          MaxRefused      \* bound on turns the completion handler refuses

SubagentsAssumption ==
    /\ IsFiniteSet(Jobs) /\ MaxAsync \in Nat /\ MaxConcurrent \in Nat
    /\ MaxTurns \in Nat \ {0} /\ MaxDelegating \in 0 .. MaxTurns
    /\ MaxAborts \in Nat /\ MaxErrors \in Nat /\ MaxRefused \in Nat
    /\ Jobs \cap (1 .. MaxTurns) = {} /\ None \notin Jobs \cup (1 .. MaxTurns)

VARIABLES job,            \* where a delegation is
          mode, owner,    \* how it was made, and by which turn
          active,         \* _background_active
          permits,        \* the value of _foreground_semaphore
          at,             \* the message a result was put below
          pend, before,   \* results that no turn answers, and those that were
                          \* there when a result was put into the history
          turn, from,     \* the turns of the chat, and the results they answer
          made, last,     \* how many there are, and the last that ended
          proc, next,     \* calls of process_pending_internal_messages
          lock,           \* the lock of the chat
          alive,          \* the chat was not deleted
          userTurns, stops, faults, aborts, errors, refused

slots == <<active, permits>>
chat == <<at, pend, before, turn, from, made, last, alive>>
calls == <<proc, next, lock>>
bounds == <<userTurns, stops, faults, aborts, errors, refused>>
vars == <<job, mode, owner, slots, chat, calls, bounds>>

Turns == 1..MaxTurns
Callers == Jobs \cup Turns

TypeOK ==
    /\ job \in [Jobs -> {"idle", "refused", "queued", "creating", "created", "running", "failed",
                         "aborted", "result", "added", "done"}]
    /\ mode \in [Jobs -> {None, "background", "foreground"}] /\ owner \in [Jobs -> 0..MaxTurns]
    /\ active \subseteq Jobs /\ permits \in Nat
    /\ at \in [Jobs -> 0..MaxTurns] /\ pend \subseteq Jobs /\ before \in [Jobs -> SUBSET Jobs]
    /\ turn \in [Turns -> {"no", "running", "ended", "done"}] /\ from \in [Turns -> SUBSET Jobs]
    /\ made \in Turns /\ last \in 0..MaxTurns
    /\ proc \in [Callers -> {"no", "wait", "idle", "in", "taken"}]
    /\ next \in [Callers -> 0..MaxTurns] /\ lock \in Callers \cup {None}
    /\ alive \in BOOLEAN
    /\ aborts \in 0..MaxAborts /\ errors \in 0..MaxErrors /\ refused \in 0..MaxRefused

Init ==
    /\ job = [d \in Jobs |-> "idle"] /\ mode = [d \in Jobs |-> None]
    /\ owner = [d \in Jobs |-> 0]
    /\ active = {} /\ permits = MaxConcurrent
    /\ at = [d \in Jobs |-> 0]
    /\ pend = {} /\ before = [d \in Jobs |-> {}]
    /\ turn = [t \in Turns |-> IF t = 1 THEN "running" ELSE "no"]
    /\ from = [t \in Turns |-> {}] /\ made = 1 /\ last = 0
    /\ proc = [x \in Callers |-> "no"] /\ next = [x \in Callers |-> 0]
    /\ lock = None /\ alive = TRUE
    /\ userTurns = 0 /\ stops = 0 /\ faults = 0 /\ aborts = 0 /\ errors = 0 /\ refused = 0

(* has_active_tasks *)
Active == \E t \in Turns : turn[t] = "running"

Release(d) ==
    IF mode[d] = "background" THEN active' = active \ {d} /\ permits' = permits
    ELSE permits' = permits + 1 /\ active' = active

-----------------------------------------------------------------------------
(* delegate, called by a turn: a background sub-agent is refused when all  *)
(* slots are taken, a foreground one waits.                                *)
DelegateBackground(d, t) ==
    /\ job[d] = "idle" /\ turn[t] = "running"
    /\ owner' = [owner EXCEPT ![d] = t]
    /\ "background" \in Modes /\ mode' = [mode EXCEPT ![d] = "background"]
    /\ IF Cardinality(active) >= MaxAsync
       THEN job' = [job EXCEPT ![d] = "refused"] /\ UNCHANGED active
       ELSE job' = [job EXCEPT ![d] = "creating"] /\ active' = active \cup {d}
    /\ UNCHANGED <<permits, chat, calls, bounds>>

DelegateForeground(d, t) ==
    /\ job[d] = "idle" /\ turn[t] = "running"
    /\ owner' = [owner EXCEPT ![d] = t]
    /\ "foreground" \in Modes /\ mode' = [mode EXCEPT ![d] = "foreground"]
    /\ job' = [job EXCEPT ![d] = "queued"]
    /\ UNCHANGED <<slots, chat, calls, bounds>>

Acquire(d) ==
    /\ job[d] = "queued" /\ permits > 0
    /\ permits' = permits - 1 /\ job' = [job EXCEPT ![d] = "creating"]
    /\ UNCHANGED <<mode, owner, active, chat, calls, bounds>>

(* The turn is cancelled while it waits for a slot. *)
GiveUp(d) ==
    /\ job[d] = "queued" /\ stops < MaxStops
    /\ job' = [job EXCEPT ![d] = "failed"] /\ stops' = stops + 1
    /\ UNCHANGED <<mode, owner, slots, chat, calls, userTurns, faults, aborts, errors, refused>>

(* The chat of the sub-agent cannot be made. *)
CreateFails(d) ==
    /\ job[d] = "creating" /\ faults < MaxFaults
    /\ Release(d)
    /\ job' = [job EXCEPT ![d] = "failed"] /\ faults' = faults + 1
    /\ UNCHANGED <<mode, owner, chat, calls, userTurns, stops, aborts, errors, refused>>

(* create_task: the task exists before it is registered in Redis. *)
CreateTask(d) ==
    /\ job[d] = "creating"
    /\ job' = [job EXCEPT ![d] = "created"]
    /\ UNCHANGED <<mode, owner, slots, chat, calls, bounds>>

RegisterFails(d) ==
    /\ job[d] = "created" /\ errors < MaxErrors
    /\ Release(d)
    /\ errors' = errors + 1
    /\ UNCHANGED <<job, mode, owner, chat, calls, userTurns, stops, faults, aborts, refused>>

(* The turn, or the task, is cancelled before the sub-agent takes its first *)
(* step: neither except nor finally of run_reserved runs.                   *)
Abort(d) ==
    /\ job[d] \in {"creating", "created"} /\ aborts < MaxAborts
    /\ job' = [job EXCEPT ![d] = "aborted"] /\ aborts' = aborts + 1
    /\ UNCHANGED <<mode, owner, slots, chat, calls, userTurns, stops, faults, errors, refused>>

Begin(d) ==
    /\ job[d] = "created"
    /\ job' = [job EXCEPT ![d] = "running"]
    /\ UNCHANGED <<mode, owner, slots, chat, calls, bounds>>

(* run_reserved returns, or raises. *)
After(d) == IF mode[d] = "background" THEN "result" ELSE "done"

Finish(d) ==
    /\ job[d] = "running"
    /\ Release(d)
    /\ job' = [job EXCEPT ![d] = After(d)]
    /\ UNCHANGED <<mode, owner, chat, calls, bounds>>

(* Mutant: a cancelled sub-agent keeps its slot. *)
StopMutant(d) ==
    /\ job[d] = "running" /\ stops < MaxStops
    /\ job' = [job EXCEPT ![d] = After(d)] /\ stops' = stops + 1
    /\ UNCHANGED <<mode, owner, slots, chat, calls, userTurns, faults, aborts, errors, refused>>

(* It is cancelled while it runs; its result says so. *)
Stop(d) ==
    /\ job[d] = "running" /\ stops < MaxStops
    /\ Release(d)
    /\ job' = [job EXCEPT ![d] = After(d)] /\ stops' = stops + 1
    /\ UNCHANGED <<mode, owner, chat, calls, userTurns, faults, aborts, errors, refused>>

(* run_background puts the result below the newest finished reply; that of *)
(* a turn which is about to end may be finished already.                   *)
Newest == {last} \cup {t \in Turns : t > last /\ turn[t] = "running"}

AddResult(d) ==
    /\ job[d] = "result" /\ lock = None
    /\ IF alive
       THEN /\ pend' = pend \cup {d} /\ before' = [before EXCEPT ![d] = pend]
            /\ \E p \in Newest : at' = [at EXCEPT ![d] = p]
            /\ job' = [job EXCEPT ![d] = "added"]
       ELSE job' = [job EXCEPT ![d] = "done"] /\ UNCHANGED <<pend, before, at>>
    /\ UNCHANGED <<mode, owner, slots, turn, from, made, last, alive, calls, bounds>>

(* and answers it itself if no turn runs. *)
ResultAdded(d) ==
    /\ job[d] = "added"
    /\ job' = [job EXCEPT ![d] = "done"]
    /\ proc' = [proc EXCEPT ![d] = IF Active THEN "no" ELSE "wait"]
    /\ UNCHANGED <<mode, owner, slots, chat, next, lock, bounds>>

-----------------------------------------------------------------------------
(* The user sends a message. *)
UserTurn ==
    /\ alive /\ made < MaxTurns /\ userTurns < MaxUserTurns
    /\ turn' = [turn EXCEPT ![made + 1] = "running"] /\ made' = made + 1
    /\ userTurns' = userTurns + 1
    /\ UNCHANGED <<job, mode, owner, slots, at, pend, before, from, last, alive, calls, stops, faults, aborts, errors, refused>>

(* A turn goes on while it waits for delegate to return. *)
Awaits(t) ==
    \E d \in Jobs : /\ owner[d] = t
                   /\ \/ job[d] = "creating"
                      \/ mode[d] = "foreground" /\ job[d] \in {"queued", "created", "running"}

(* process_chat, finally: the task is removed from the registry, *)
EndTurn(t) ==
    /\ turn[t] = "running" /\ ~Awaits(t)
    /\ turn' = [turn EXCEPT ![t] = "ended"] /\ last' = IF t > last THEN t ELSE last
    /\ UNCHANGED <<job, mode, owner, slots, at, pend, before, from, made, alive, calls, bounds>>

(* Mutant: only the first turn of a chat looks for results that wait. *)
TurnEndedMutant(t) ==
    /\ turn[t] = "ended"
    /\ turn' = [turn EXCEPT ![t] = "done"]
    /\ proc' = [proc EXCEPT ![t] = IF Active \/ t > 1 THEN "no" ELSE "wait"]
    /\ UNCHANGED <<job, mode, owner, slots, at, pend, before, from, made, last, alive, next, lock, bounds>>

(* and the results that wait are answered, unless another turn runs. *)
TurnEnded(t) ==
    /\ turn[t] = "ended"
    /\ turn' = [turn EXCEPT ![t] = "done"]
    /\ proc' = [proc EXCEPT ![t] = IF Active THEN "no" ELSE "wait"]
    /\ UNCHANGED <<job, mode, owner, slots, at, pend, before, from, made, last, alive, next, lock, bounds>>

(* The user deletes the chat. *)
DeleteChat ==
    /\ alive /\ alive' = FALSE /\ pend' = {}
    /\ UNCHANGED <<job, mode, owner, slots, at, before, turn, from, made, last, calls, bounds>>

-----------------------------------------------------------------------------
(* process_pending_internal_messages waits until no turn runs, *)
WaitOver(x) ==
    /\ proc[x] = "wait" /\ ~Active
    /\ proc' = [proc EXCEPT ![x] = "idle"]
    /\ UNCHANGED <<job, mode, owner, slots, chat, next, lock, bounds>>

(* takes the lock of the chat and looks again, *)
EnterLock(x) ==
    /\ proc[x] = "idle" /\ lock = None
    /\ IF Active THEN proc' = [proc EXCEPT ![x] = "no"] /\ lock' = lock
                 ELSE proc' = [proc EXCEPT ![x] = "in"] /\ lock' = x
    /\ UNCHANGED <<job, mode, owner, slots, chat, next, bounds>>

(* The history is a dict: its messages are in the order they were put in. *)
First == CHOOSE d \in pend : before[d] \cap pend = {}
Batch == {d \in pend : at[d] = at[First]}

(* Mutant: the messages that are answered stay where they are. *)
TakeMutant(x) ==
    /\ proc[x] = "in" /\ pend # {} /\ made < MaxTurns
    /\ made' = made + 1 /\ from' = [from EXCEPT ![made + 1] = Batch]
    /\ next' = [next EXCEPT ![x] = made + 1] /\ proc' = [proc EXCEPT ![x] = "taken"]
    /\ UNCHANGED <<job, mode, owner, slots, at, pend, before, turn, last, alive, lock, bounds>>

(* puts every result below the same message in one turn, *)
Take(x) ==
    /\ proc[x] = "in" /\ pend # {} /\ made < MaxTurns
    /\ pend' = pend \ Batch
    /\ made' = made + 1 /\ from' = [from EXCEPT ![made + 1] = Batch]
    /\ next' = [next EXCEPT ![x] = made + 1] /\ proc' = [proc EXCEPT ![x] = "taken"]
    /\ UNCHANGED <<job, mode, owner, slots, at, before, turn, last, alive, lock, bounds>>

NothingWaits(x) ==
    /\ proc[x] = "in" /\ pend = {}
    /\ proc' = [proc EXCEPT ![x] = "no"] /\ lock' = None
    /\ UNCHANGED <<job, mode, owner, slots, chat, next, bounds>>

(* and starts it; the lock is kept until it is registered. *)
StartTurn(x) ==
    /\ proc[x] = "taken" /\ alive
    /\ turn' = [turn EXCEPT ![next[x]] = "running"]
    /\ proc' = [proc EXCEPT ![x] = "no"] /\ lock' = None /\ next' = [next EXCEPT ![x] = 0]
    /\ UNCHANGED <<job, mode, owner, slots, at, pend, before, from, made, last, alive, bounds>>

(* The chat is gone, or the completion handler refuses the turn. *)
StartFails(x) ==
    /\ proc[x] = "taken"
    /\ \/ ~alive /\ refused' = refused
       \/ refused < MaxRefused /\ refused' = refused + 1
    /\ proc' = [proc EXCEPT ![x] = "no"] /\ lock' = None /\ next' = [next EXCEPT ![x] = 0]
    /\ UNCHANGED <<job, mode, owner, slots, chat, userTurns, stops, faults, aborts, errors>>

Delegation(d) ==
    \/ \E t \in 1..MaxDelegating : DelegateBackground(d, t) \/ DelegateForeground(d, t)
    \/ Acquire(d) \/ GiveUp(d) \/ CreateFails(d)
    \/ CreateTask(d) \/ RegisterFails(d) \/ Abort(d) \/ Begin(d) \/ Finish(d) \/ Stop(d)
    \/ AddResult(d) \/ ResultAdded(d)

Answering(x) == WaitOver(x) \/ EnterLock(x) \/ Take(x) \/ NothingWaits(x)
                \/ StartTurn(x) \/ StartFails(x)

Next ==
    \/ \E d \in Jobs : Delegation(d)
    \/ \E t \in Turns : EndTurn(t) \/ TurnEnded(t)
    \/ \E x \in Callers : Answering(x)
    \/ UserTurn \/ DeleteChat

Spec == Init /\ [][Next]_vars

-----------------------------------------------------------------------------
(* Until a turn is cancelled before its sub-agent began, or a write to      *)
(* Redis fails, every slot is held by a sub-agent that runs or is about to, *)
(* and is given back once, whether it ends, fails or is cancelled.          *)
SlotsBalance ==
    LET holders(m) == {d \in Jobs : mode[d] = m /\ job[d] \in {"creating", "created", "running"}}
    IN  aborts = 0 /\ errors = 0 =>
            /\ active = holders("background")
            /\ permits + Cardinality(holders("foreground")) = MaxConcurrent

(* The result of a background sub-agent is in one turn at most, and in none *)
(* while it waits, although turns and sub-agents that end at the same time  *)
(* all look for results to answer.                                          *)
AnsweredOnce ==
    \A d \in Jobs :
        LET answers == {t \in Turns : d \in from[t]}
        IN  Cardinality(answers) <= 1 /\ (d \in pend => answers = {})

(* When every turn and every call has ended and no turn was refused, no      *)
(* result still waits and every reply that was begun is finished: the end of *)
(* a turn and the arrival of a result cannot each leave it to the other.     *)
NotStranded ==
    (/\ refused = 0 /\ alive /\ \A t \in Turns : turn[t] \in {"no", "done"}
     /\ \A x \in Callers : proc[x] = "no"
     /\ \A d \in Jobs : job[d] # "added") => pend = {} /\ \A t \in 1..made : turn[t] = "done"
=============================================================================
