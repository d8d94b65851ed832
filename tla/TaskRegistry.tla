---------------------------- MODULE TaskRegistry ----------------------------
(* The registry of running replies (tasks.py): a dictionary in the process *)
(* that runs the task and, with Redis, a key with a time to live, a hash   *)
(* and a set per chat that every process lists.  All tasks here belong to  *)
(* one chat.  A pipeline of Redis commands is one step.                    *)
EXTENDS Naturals, FiniteSets

CONSTANTS Tasks,        \* replies of the chat
          Procs,        \* processes
          Redis,        \* app.state.redis is configured
          MaxStops,     \* bound on stop_task
          MaxDrops,     \* bound on losses of a pub/sub connection
          MaxErrors,    \* bound on Redis commands that raise
          MaxCrashes    \* bound on crashes of processes

TaskRegistryAssumption ==
    /\ Redis \in BOOLEAN
    /\ MaxStops \in Nat /\ MaxDrops \in Nat /\ MaxErrors \in Nat /\ MaxCrashes \in Nat

VARIABLES home,         \* the process a task runs in
          task,         \* "new", "running", "ending", "ended" or "dead"
          tasks,        \* keys of the dictionary of the task's process
          itemTasks,    \* item_tasks of the chat
          saving,       \* create_task awaits redis_save_task
          cleaning,     \* the done callback's cleanup_task is scheduled
          key, hash, items, \* Redis: REDIS_TASKS_KEY:id, REDIS_TASKS_KEY, REDIS_ITEM_TASKS_KEY:chat
          sub,          \* processes subscribed to the commands
          inbox,        \* commands a process has received
          cancelled,    \* tasks whose cancel() was called
          stopped,      \* tasks stop_task was called for while they ran
          stops, drops, errors, crashes

local  == <<tasks, itemTasks>>
store  == <<key, hash, items>>
pubsub == <<sub, inbox, cancelled, stopped>>
bounds == <<stops, drops, errors, crashes>>
vars   == <<home, task, local, saving, cleaning, store, pubsub, bounds>>

Alive(t) == task[t] \in {"running", "ending"}

TypeOK ==
    /\ home \in [Tasks -> Procs]
    /\ task \in [Tasks -> {"new", "running", "ending", "ended", "dead"}]
    /\ tasks \subseteq Tasks /\ itemTasks \subseteq Tasks
    /\ saving \subseteq Tasks /\ cleaning \subseteq Tasks
    /\ key \subseteq Tasks /\ hash \subseteq Tasks /\ items \subseteq Tasks
    /\ sub \subseteq Procs /\ inbox \in [Procs -> SUBSET Tasks]
    /\ cancelled \subseteq Tasks /\ stopped \subseteq Tasks

Init ==
    /\ home \in [Tasks -> Procs] /\ task = [t \in Tasks |-> "new"]
    /\ tasks = {} /\ itemTasks = {} /\ saving = {} /\ cleaning = {}
    /\ key = {} /\ hash = {} /\ items = {}
    /\ sub = Procs /\ inbox = [p \in Procs |-> {}] /\ cancelled = {} /\ stopped = {}
    /\ stops = 0 /\ drops = 0 /\ errors = 0 /\ crashes = 0

-----------------------------------------------------------------------------
(* create_task: the coroutine is scheduled before the task is saved. *)
Create(t) ==
    /\ task[t] = "new"
    /\ task' = [task EXCEPT ![t] = "running"]
    /\ tasks' = tasks \cup {t} /\ itemTasks' = itemTasks \cup {t}
    /\ saving' = IF Redis THEN saving \cup {t} ELSE saving
    /\ UNCHANGED <<home, cleaning, store, pubsub, bounds>>

(* redis_save_task *)
Save(t) ==
    /\ t \in saving /\ saving' = saving \ {t}
    /\ key' = key \cup {t} /\ hash' = hash \cup {t} /\ items' = items \cup {t}
    /\ UNCHANGED <<home, task, local, cleaning, pubsub, bounds>>

(* redis_cleanup_task *)
RedisCleanup(S) ==
    /\ key' = key \ S /\ hash' = hash \ S /\ items' = items \ S

(* Mutant: the entry of the chat is dropped with its first task. *)
CleanupTaskMutant(t) ==
    /\ IF Redis THEN RedisCleanup({t}) ELSE UNCHANGED store
    /\ tasks' = tasks \ {t} /\ itemTasks' = {}

(* cleanup_task *)
CleanupTask(t) ==
    /\ IF Redis THEN RedisCleanup({t}) ELSE UNCHANGED store
    /\ tasks' = tasks \ {t} /\ itemTasks' = itemTasks \ {t}

(* The reply is over, or its cancellation is handled: process_chat         *)
(* deregisters the task ...                                                *)
Deregister(t) ==
    /\ task[t] = "running" /\ task' = [task EXCEPT ![t] = "ending"]
    /\ CleanupTask(t)
    /\ UNCHANGED <<home, saving, cleaning, pubsub, bounds>>

Raise ==
    /\ Redis /\ errors < MaxErrors /\ errors' = errors + 1

(* ... or passes over the error of Redis that keeps it from doing so. *)
DeregisterFails(t) ==
    /\ task[t] = "running" /\ task' = [task EXCEPT ![t] = "ending"]
    /\ Raise
    /\ UNCHANGED <<home, local, saving, cleaning, store, pubsub, stops, drops, crashes>>

(* Mutant: there is no done callback. *)
EndMutant(t) ==
    /\ task[t] \in {"running", "ending"} /\ task' = [task EXCEPT ![t] = "ended"]
    /\ UNCHANGED <<home, local, saving, cleaning, store, pubsub, bounds>>

(* The coroutine returns or raises; the done callback schedules cleanup.   *)
(* A task that is not a reply of process_chat ends without Deregister.     *)
End(t) ==
    /\ task[t] \in {"running", "ending"} /\ task' = [task EXCEPT ![t] = "ended"]
    /\ cleaning' = cleaning \cup {t}
    /\ UNCHANGED <<home, local, saving, store, pubsub, bounds>>

Cleanup(t) ==
    /\ t \in cleaning /\ cleaning' = cleaning \ {t}
    /\ CleanupTask(t)
    /\ UNCHANGED <<home, task, saving, pubsub, bounds>>

(* The pipeline raises before the dictionaries are touched. *)
CleanupFails(t) ==
    /\ t \in cleaning /\ cleaning' = cleaning \ {t}
    /\ Raise
    /\ UNCHANGED <<home, task, local, saving, store, pubsub, stops, drops, crashes>>

-----------------------------------------------------------------------------
(* stop_task with Redis: the command reaches the subscribed processes, and *)
(* the entries are removed in any case.                                    *)
Stop(t) ==
    /\ Redis /\ t \in items /\ stops < MaxStops /\ stops' = stops + 1
    /\ inbox' = [p \in Procs |-> IF p \in sub THEN inbox[p] \cup {t} ELSE inbox[p]]
    /\ stopped' = IF Alive(t) THEN stopped \cup {t} ELSE stopped
    /\ RedisCleanup({t})
    /\ UNCHANGED <<home, task, local, saving, cleaning, sub, cancelled, drops, errors, crashes>>

(* Mutant: the task is only taken from the dictionary. *)
StopLocalMutant(t) ==
    /\ ~Redis /\ t \in itemTasks /\ stops < MaxStops /\ stops' = stops + 1
    /\ tasks' = tasks \ {t}
    /\ stopped' = IF Alive(t) /\ t \in tasks THEN stopped \cup {t} ELSE stopped
    /\ UNCHANGED <<home, task, itemTasks, saving, cleaning, store, sub, inbox, cancelled, drops, errors, crashes>>

(* Without Redis the task is taken from the dictionary and cancelled. *)
StopLocal(t) ==
    /\ ~Redis /\ t \in itemTasks /\ stops < MaxStops /\ stops' = stops + 1
    /\ tasks' = tasks \ {t}
    /\ cancelled' = IF t \in tasks THEN cancelled \cup {t} ELSE cancelled
    /\ stopped' = IF Alive(t) /\ t \in tasks THEN stopped \cup {t} ELSE stopped
    /\ UNCHANGED <<home, task, itemTasks, saving, cleaning, store, sub, inbox, drops, errors, crashes>>

(* redis_task_command_listener *)
Listen(p) ==
    /\ \E t \in inbox[p] :
          /\ inbox' = [inbox EXCEPT ![p] = @ \ {t}]
          /\ cancelled' = IF t \in tasks /\ home[t] = p THEN cancelled \cup {t} ELSE cancelled
    /\ UNCHANGED <<home, task, local, saving, cleaning, store, sub, stopped, bounds>>

(* The connection fails; what it held is lost with it. *)
Drop(p) ==
    /\ Redis /\ p \in sub /\ drops < MaxDrops /\ drops' = drops + 1
    /\ sub' = sub \ {p} /\ inbox' = [inbox EXCEPT ![p] = {}]
    /\ UNCHANGED <<home, task, local, saving, cleaning, store, cancelled, stopped, stops, errors, crashes>>

Subscribe(p) ==
    /\ sub' = sub \cup {p} /\ sub' # sub
    /\ UNCHANGED <<home, task, local, saving, cleaning, store, inbox, cancelled, stopped, bounds>>

-----------------------------------------------------------------------------
(* Mutant: the heartbeat renews only tasks whose reply has started. *)
HeldMutant(t) == t \in saving

(* redis_task_heartbeat renews the keys of the tasks in the dictionary. *)
Held(t) == t \in tasks

Expire(t) ==
    /\ t \in key /\ ~Held(t) /\ key' = key \ {t}
    /\ UNCHANGED <<home, task, local, saving, cleaning, hash, items, pubsub, bounds>>

(* Mutant: an entry whose key has expired stays. *)
ListMutant ==
    /\ Redis /\ items \ key # {}
    /\ UNCHANGED vars

(* redis_list_tasks removes the entries whose key has expired. *)
List ==
    /\ Redis /\ items \ key # {}
    /\ RedisCleanup(items \ key)
    /\ UNCHANGED <<home, task, local, saving, cleaning, pubsub, bounds>>

Crash(p) ==
    /\ crashes < MaxCrashes /\ crashes' = crashes + 1
    /\ LET mine == {t \in Tasks : home[t] = p}
       IN  /\ task' = [t \in Tasks |-> IF t \in mine /\ Alive(t) THEN "dead" ELSE task[t]]
           /\ tasks' = tasks \ mine /\ itemTasks' = itemTasks \ mine
           /\ saving' = saving \ mine /\ cleaning' = cleaning \ mine
    /\ sub' = sub \ {p} /\ inbox' = [inbox EXCEPT ![p] = {}]
    /\ UNCHANGED <<home, store, cancelled, stopped, stops, drops, errors>>

Next ==
    \/ \E t \in Tasks :
          \/ Create(t) \/ Save(t) \/ Deregister(t) \/ DeregisterFails(t) \/ End(t)
          \/ Cleanup(t) \/ CleanupFails(t) \/ Stop(t) \/ StopLocal(t) \/ Expire(t)
    \/ \E p \in Procs : Listen(p) \/ Drop(p) \/ Subscribe(p) \/ Crash(p)
    \/ List

Spec == Init /\ [][Next]_vars

(* The event loops run; a cancelled task ends; Redis expires keys; the     *)
(* chat list asks for the active tasks.  A reply may go on for ever.       *)
Fairness ==
    /\ \A t \in Tasks :
          /\ WF_vars(Save(t)) /\ WF_vars(Cleanup(t) \/ CleanupFails(t)) /\ WF_vars(Expire(t))
          /\ WF_vars((task[t] = "ending" \/ t \in cancelled) /\ End(t))
    /\ \A p \in Procs : WF_vars(Listen(p)) /\ WF_vars(Subscribe(p))
    /\ WF_vars(List)

LiveSpec == Spec /\ Fairness

-----------------------------------------------------------------------------
(* has_active_tasks *)
Listed(t) == IF Redis THEN t \in items ELSE t \in itemTasks

(* has_active_tasks does not miss a reply: a task that was registered, is  *)
(* running and was not stopped is listed, in whichever process it runs,    *)
(* although redis_list_tasks removes entries whose key is gone.            *)
RunningListed ==
    \A t \in Tasks : task[t] = "running" /\ t \notin saving \cup stopped => Listed(t)

(* A task that is over, or whose process has died, does not stay listed:   *)
(* the chat becomes idle, although the entry may be saved after the        *)
(* cleanup, or the process that would clean up is gone.                    *)
NoGhost == \A t \in Tasks : task[t] \in {"ended", "dead"} ~> ~Listed(t)

(* "Cancel a running task": a task that stop_task stopped while it ran is  *)
(* over in the end.                                                        *)
StopCancels == \A t \in Tasks : t \in stopped ~> ~Alive(t)

(* "Remove a completed or canceled task from the global `tasks`            *)
(* dictionary."                                                            *)
Forgotten == \A t \in Tasks : task[t] = "ended" ~> t \notin tasks
=============================================================================
