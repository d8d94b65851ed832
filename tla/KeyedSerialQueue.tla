-------------------------- MODULE KeyedSerialQueue --------------------------
(* The per-conversation queue of the bot gateway:                          *)
(* class KeyedSerialQueue of bot-gateway/src/queue.ts.                     *)
(*                                                                         *)
(* Every call run(key, task) is a member of Tasks and goes through         *)
(*   idle -> waiting -> running -> done                                    *)
(*                   -> timedOut      (queue_wait_timeout)                 *)
(*        -> refused                  (queue_capacity_exceeded)            *)
(*                                                                         *)
(* The code chains promises: the tail a call leaves in the map settles     *)
(* once the tail it found there has settled and its own marker has been    *)
(* released.  A marker is released exactly when its call has left run(),   *)
(* so "the tail found by t has settled" is "every call of ahead[t] has     *)
(* left", where ahead[t] is the chain of calls t was linked behind.        *)
EXTENDS Naturals, FiniteSets

CONSTANTS Tasks,           \* the calls of run()
          Keys,            \* conversation keys
          NoTask,          \* an absent entry of the tails map
          maxDepthPerKey,  \* constructor argument, 100 in gateway.ts
          Timed            \* maxWaitMs > 0

ASSUME KeyedSerialQueueAssumption ==
    /\ NoTask \notin Tasks
    /\ IsFiniteSet(Tasks)
    /\ maxDepthPerKey \in Nat \ {0}
    /\ Timed \in BOOLEAN

VARIABLES pc,        \* pc[t]: where the call t is
          keyOf,     \* keyOf[t]: the key t was called with
          ahead,     \* ahead[t]: the calls whose markers t waits for
          tails,     \* tails[k]: the call whose tail is in the map
          depths     \* depths[k]: the depth counter

vars == <<pc, keyOf, ahead, tails, depths>>

PCs == {"idle", "refused", "waiting", "running", "done", "timedOut"}

TypeOK ==
    /\ pc \in [Tasks -> PCs]
    /\ keyOf \in [Tasks -> Keys]
    /\ ahead \in [Tasks -> SUBSET Tasks]
    /\ tails \in [Keys -> Tasks \cup {NoTask}]
    /\ depths \in [Keys -> 0 .. maxDepthPerKey]

(* The calls of key k that have been admitted and not yet left run(). *)
Inside(k) == {t \in Tasks : keyOf[t] = k /\ pc[t] \in {"waiting", "running"}}

(* Mutant: a call that timed out keeps its marker. *)
ReleasedMutant(t) == pc[t] = "done"

(* The marker of t has been released (finally block, line 29). *)
Released(t) == pc[t] \in {"done", "timedOut"}

(* The promise that t awaits has settled. *)
Settled(t) == \A s \in ahead[t] : Released(s)

Init ==
    /\ pc = [t \in Tasks |-> "idle"]
    /\ keyOf \in [Tasks -> Keys]
    /\ ahead = [t \in Tasks |-> {}]
    /\ tails = [k \in Keys |-> NoTask]
    /\ depths = [k \in Keys |-> 0]

(* The synchronous prefix of run(): refuse at the depth limit, otherwise   *)
(* link behind the present tail and become the tail.                       *)
Refuse(t) ==
    /\ pc[t] = "idle"
    /\ depths[keyOf[t]] >= maxDepthPerKey
    /\ pc' = [pc EXCEPT ![t] = "refused"]
    /\ UNCHANGED <<keyOf, ahead, tails, depths>>

(* Mutant: the depth limit is off by one. *)
EnterMutant(t) ==
    /\ pc[t] = "idle"
    /\ depths[keyOf[t]] <= maxDepthPerKey
    /\ depths' = [depths EXCEPT ![keyOf[t]] = @ + 1]
    /\ ahead' = [ahead EXCEPT ![t] = LET previous == tails[keyOf[t]]
                                     IN  IF previous = NoTask THEN {}
                                         ELSE {previous} \cup ahead[previous]]
    /\ tails' = [tails EXCEPT ![keyOf[t]] = t]
    /\ pc' = [pc EXCEPT ![t] = "waiting"]
    /\ UNCHANGED keyOf

Enter(t) ==
    LET k == keyOf[t]
        previous == tails[k]
    IN  /\ pc[t] = "idle"
        /\ depths[k] < maxDepthPerKey
        /\ depths' = [depths EXCEPT ![k] = @ + 1]
        /\ ahead' = [ahead EXCEPT ![t] = IF previous = NoTask THEN {}
                                         ELSE {previous} \cup ahead[previous]]
        /\ tails' = [tails EXCEPT ![k] = t]
        /\ pc' = [pc EXCEPT ![t] = "waiting"]
        /\ UNCHANGED keyOf

(* Mutant: the task is started without awaiting its turn. *)
StartMutant(t) ==
    /\ pc[t] = "waiting"
    /\ pc' = [pc EXCEPT ![t] = "running"]
    /\ UNCHANGED <<keyOf, ahead, tails, depths>>

(* awaitTurn() answers true and the task is started. *)
Start(t) ==
    /\ pc[t] = "waiting"
    /\ Settled(t)
    /\ pc' = [pc EXCEPT ![t] = "running"]
    /\ UNCHANGED <<keyOf, ahead, tails, depths>>

(* Mutant: the map entry is kept. *)
LeaveTailsMutant(t) == tails

(* The finally block: release the marker, drop the map entry if it is      *)
(* still one's own, and decrement the depth.                               *)
LeaveTails(t) ==
    IF tails[keyOf[t]] = t THEN [tails EXCEPT ![keyOf[t]] = NoTask] ELSE tails

(* Mutant: a call that timed out is still counted. *)
LeaveMutant(t, how) ==
    /\ pc' = [pc EXCEPT ![t] = how]
    /\ tails' = LeaveTails(t)
    /\ depths' = IF how = "done" THEN [depths EXCEPT ![keyOf[t]] = @ - 1] ELSE depths
    /\ UNCHANGED <<keyOf, ahead>>

Leave(t, how) ==
    /\ pc' = [pc EXCEPT ![t] = how]
    /\ tails' = LeaveTails(t)
    /\ depths' = [depths EXCEPT ![keyOf[t]] = @ - 1]
    /\ UNCHANGED <<keyOf, ahead>>

(* The task resolves or rejects; both run the finally block. *)
Finish(t) == pc[t] = "running" /\ Leave(t, "done")

(* awaitTurn() answers false: the timer won the race. *)
TimeOut(t) == Timed /\ pc[t] = "waiting" /\ Leave(t, "timedOut")

Next == \E t \in Tasks :
            Refuse(t) \/ Enter(t) \/ Start(t) \/ Finish(t) \/ TimeOut(t)

Spec == Init /\ [][Next]_vars

(* The event loop resumes a settled await, and tasks resolve or reject:    *)
(* the transport bounds every request it makes.  Nothing forces a call to  *)
(* be made or a timer to win.                                              *)
Fairness == \A t \in Tasks : WF_vars(Start(t)) /\ WF_vars(Finish(t))

FairSpec == Spec /\ Fairness
-----------------------------------------------------------------------------
(* The comment of lines 23-25 ("without letting anything overtake the task *)
(* that is still running"): two calls of one key never run together.       *)
SerialPerKey ==
    \A s, t \in Tasks :
        (s # t /\ pc[s] = "running" /\ pc[t] = "running") => keyOf[s] # keyOf[t]

(* What the code does guarantee: tasks of one key overlap only after a     *)
(* wait on that key has timed out.                                         *)
SerialUnlessTimedOut ==
    \A s, t \in Tasks :
        (s # t /\ pc[s] = "running" /\ pc[t] = "running" /\ keyOf[s] = keyOf[t])
            => \E u \in Tasks : keyOf[u] = keyOf[s] /\ pc[u] = "timedOut"

(* The depth counter is the number of calls between admission and the      *)
(* finally block, whichever way they left.                                 *)
DepthIsInside == \A k \in Keys : depths[k] = Cardinality(Inside(k))

(* The tails map holds only calls that are still inside, so that an idle   *)
(* key leaves no entry behind (activeKeys counts keys in use).             *)
TailIsInside == \A k \in Keys : tails[k] # NoTask => tails[k] \in Inside(k)

(* A call never overtakes one it was linked behind.                        *)
NeverOvertakesChain ==
    \A t \in Tasks : pc[t] = "running" => Settled(t)

(* Every admitted call leaves the queue: the chain of promises never       *)
(* dead-locks, whatever waits time out.                                    *)
AdmittedLeaves ==
    \A t \in Tasks : (pc[t] = "waiting") ~> (pc[t] \in {"done", "timedOut"})
=============================================================================
