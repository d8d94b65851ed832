------------------------- MODULE FairConnectionQueue -------------------------
(* The gateway's global admission queue: class FairConnectionQueue of      *)
(* bot-gateway/src/queue.ts, and RyanAiGateway.shutdown (gateway.ts) that  *)
(* drains it.                                                              *)
(*                                                                         *)
(* Entries carry only their size.  The Map entry of a connection exists    *)
(* exactly while its queue is non-empty (RotationIsQueues), so an absent   *)
(* entry is the empty sequence; lines 239-243, which skip a connection     *)
(* whose queue is present and empty, are then dead code.                   *)
(*                                                                         *)
(* run(), the settlement of a task, the expiry timer and the shutdown      *)
(* calls each run without an await, so each is one action, the drain()     *)
(* loop included.  The scheduler's fields are one record so that the loop  *)
(* is a function of it.                                                    *)
EXTENDS Naturals, Sequences, FiniteSets, FiniteSetsExt, SequencesExt

CONSTANTS Connections,
          Sizes,               \* payload sizes of the events
          maxGlobalActive,
          maxConnectionActive,
          maxGlobalQueued,
          maxConnectionQueued,
          maxQueuedBytes,
          MaxBypass            \* bound on the history counters

FairConnectionQueueAssumption ==
    /\ IsFiniteSet(Connections)
    /\ Sizes \subseteq Nat
    /\ {maxGlobalActive, maxConnectionActive, maxGlobalQueued,
        maxConnectionQueued, maxQueuedBytes, MaxBypass} \subseteq Nat \ {0}

VARIABLES q,         \* the fields of the scheduler
          accepting,
          shutdown,  \* where shutdown() is
          bypassed   \* history: dispatches of others that the oldest entry of
                     \* a connection saw while its connection had a free slot

vars == <<q, accepting, shutdown, bypassed>>

TypeOK ==
    /\ q.active \in 0 .. maxGlobalActive
    /\ q.queued \in 0 .. maxGlobalQueued
    /\ q.queuedBytes \in 0 .. maxQueuedBytes
    /\ q.activeBy \in [Connections -> 0 .. maxConnectionActive]
    /\ \A c \in Connections : /\ Range(q.queues[c]) \subseteq Sizes
                              /\ Len(q.queues[c]) <= maxConnectionQueued
    /\ Range(q.rotation) \subseteq Connections
    /\ q.rotationIndex \in Nat
    /\ q.timers \in Seq(Connections)
    /\ accepting \in BOOLEAN
    /\ shutdown \in {"no", "waiting", "drained", "cancelled"}
    /\ bypassed \in [Connections -> 0 .. MaxBypass]

Total(f) == FoldFunction(+, 0, f)

Idle(s) == s.active = 0 /\ s.queued = 0

HasRoom(s, c) == s.activeBy[c] < maxConnectionActive

(* A connection that could be dispatched if a global slot were free. *)
Eligible(s, c) == s.queues[c] # <<>> /\ HasRoom(s, c)

(* Mutant: the index is not brought back into the shortened rotation. *)
RemoveRotationMutant(s, c) ==
    [s EXCEPT !.queues[c] = <<>>, !.rotation = RemoveFirst(@, c)]

(* removeRotation() *)
RemoveRotation(s, c) ==
    LET index == SelectInSeq(s.rotation, LAMBDA d : d = c)
        rotation == RemoveAt(s.rotation, index)
        moved == IF index - 1 < s.rotationIndex THEN s.rotationIndex - 1
                 ELSE s.rotationIndex
    IN  [s EXCEPT !.queues[c] = <<>>,
                  !.rotation = rotation,
                  !.rotationIndex = IF moved >= Len(rotation) THEN 0 ELSE moved]

(* The index (from 0) in the rotation that lies o places after the next. *)
RotationAt(s, o) == (s.rotationIndex + o) % Len(s.rotation)

Offsets(s) == {o \in 0 .. Len(s.rotation) - 1 :
                  HasRoom(s, s.rotation[RotationAt(s, o) + 1])}

(* Mutant: the rotation does not move on. *)
DispatchMutant(s) ==
    LET at == RotationAt(s, Min(Offsets(s)))
        c == s.rotation[at + 1]
        taken == [s EXCEPT !.queues[c] = Tail(@), !.rotationIndex = at]
        left == IF taken.queues[c] = <<>> THEN RemoveRotation(taken, c) ELSE taken
    IN  [left EXCEPT !.queued = @ - 1,
                     !.queuedBytes = @ - Head(s.queues[c]),
                     !.active = @ + 1,
                     !.activeBy[c] = @ + 1,
                     !.timers = RemoveFirst(@, c),
                     !.dispatched = Append(@, c)]

(* One round of drain(): the connection nextEligible() finds, from the     *)
(* next place of the rotation onwards, is dispatched.                      *)
Dispatch(s) ==
    LET at == RotationAt(s, Min(Offsets(s)))
        c == s.rotation[at + 1]
        rest == Tail(s.queues[c])
        taken == [s EXCEPT !.queues[c] = rest,
                           !.rotationIndex = (at + 1) % Len(s.rotation)]
        left == IF rest = <<>> THEN RemoveRotation(taken, c) ELSE taken
    IN  [left EXCEPT !.queued = @ - 1,
                     !.queuedBytes = @ - Head(s.queues[c]),
                     !.active = @ + 1,
                     !.activeBy[c] = @ + 1,
                     !.timers = RemoveFirst(@, c),
                     !.dispatched = Append(@, c)]

CanDispatch(s) ==
    s.active < maxGlobalActive /\ s.queued > 0 /\ Offsets(s) # {}

(* The loop of drain(): as many rounds as there are entries suffice.       *)
(* (The singleton makes TLC compute a round once.)                         *)
Drain(s) ==
    FoldSet(LAMBDA i, r : CHOOSE t \in {IF CanDispatch(x) THEN Dispatch(x) ELSE x : x \in {r}} : TRUE,
            s, 1 .. s.queued)

(* History: what the dispatches of one drain() mean for a connection whose *)
(* oldest entry was eligible before it and still is after it.              *)
Waits(c, s) ==
    /\ Eligible(q, c)
    /\ Eligible(s, c)
    /\ c \notin Range(s.dispatched)
    /\ Len(s.queues[c]) >= Len(q.queues[c])

Bypass(s) ==
    [c \in Connections |->
        IF Waits(c, s) THEN Min({bypassed[c] + Len(s.dispatched), MaxBypass}) ELSE 0]

(* The scheduler becomes s; the waiters of waitForIdle() are called if it  *)
(* is idle and the code path ends in checkIdle().                          *)
Become(s, checksIdle) ==
    /\ q' = [s EXCEPT !.dispatched = <<>>]
    /\ bypassed' = Bypass(s)
    /\ shutdown' = IF checksIdle /\ shutdown = "waiting" /\ Idle(s)
                   THEN "drained" ELSE shutdown

Init ==
    /\ q = [active |-> 0, queued |-> 0, queuedBytes |-> 0,
            activeBy |-> [c \in Connections |-> 0],
            queues |-> [c \in Connections |-> <<>>],
            rotation |-> <<>>, rotationIndex |-> 0, timers |-> <<>>, dispatched |-> <<>>]
    /\ accepting = TRUE
    /\ shutdown = "no"
    /\ bypassed = [c \in Connections |-> 0]

(* run(): refused while draining or when it would have to wait in a full   *)
(* queue; those calls leave the scheduler as it is.                        *)
MustWait(c) == \/ q.active >= maxGlobalActive
               \/ ~HasRoom(q, c)
               \/ q.queued > 0

(* Mutant: the global limit is off by one. *)
OverloadedMutant(c, size) == \/ q.queued > maxGlobalQueued
                             \/ Len(q.queues[c]) >= maxConnectionQueued
                             \/ q.queuedBytes + size > maxQueuedBytes

Overloaded(c, size) == \/ q.queued >= maxGlobalQueued
                       \/ Len(q.queues[c]) >= maxConnectionQueued
                       \/ q.queuedBytes + size > maxQueuedBytes

Enqueue(s, c, size) ==
    [s EXCEPT !.queues[c] = Append(@, size),
              !.rotation = IF s.queues[c] = <<>> THEN Append(@, c) ELSE @,
              !.timers = Append(@, c),
              !.queued = @ + 1,
              !.queuedBytes = @ + size]

Run(c, size) ==
    /\ accepting
    /\ ~(MustWait(c) /\ Overloaded(c, size))
    /\ \E s \in {Drain(Enqueue(q, c, size))} : Become(s, FALSE)
    /\ UNCHANGED accepting

(* Mutants: a settled task does not call drain(), or not checkIdle(). *)
SettleNoDrain(c) ==
    /\ q.activeBy[c] > 0
    /\ Become([q EXCEPT !.active = @ - 1, !.activeBy[c] = @ - 1], TRUE)
    /\ UNCHANGED accepting

SettleNoCheckIdle(c) ==
    /\ q.activeBy[c] > 0
    /\ \E s \in {Drain([q EXCEPT !.active = @ - 1, !.activeBy[c] = @ - 1])} : Become(s, FALSE)
    /\ UNCHANGED accepting

(* The finally of a dispatched task. *)
Settle(c) ==
    /\ q.activeBy[c] > 0
    /\ \E s \in {Drain([q EXCEPT !.active = @ - 1, !.activeBy[c] = @ - 1])} : Become(s, TRUE)
    /\ UNCHANGED accepting

(* expire(): the oldest timer fires.  All timers have the same delay, so   *)
(* they fire in the order they were set and the entry is the head of its   *)
(* queue.                                                                  *)
Expire ==
    LET c == Head(q.timers)
        rest == Tail(q.queues[c])
        taken == [q EXCEPT !.queues[c] = rest,
                           !.timers = Tail(@),
                           !.queued = @ - 1,
                           !.queuedBytes = @ - Head(q.queues[c])]
    IN  /\ q.timers # <<>>
        /\ \E s \in {IF rest = <<>> THEN RemoveRotation(taken, c) ELSE taken} : Become(s, TRUE)
        /\ UNCHANGED accepting

(* Mutant: shutdown() does not close admission. *)
ShutdownMutant ==
    /\ shutdown = "no"
    /\ shutdown' = IF Idle(q) THEN "drained" ELSE "waiting"
    /\ UNCHANGED <<q, accepting, bypassed>>

(* RyanAiGateway.shutdown(): stopAccepting() and the call of waitForIdle() *)
(* happen without an await in between.                                     *)
Shutdown ==
    /\ shutdown = "no"
    /\ accepting' = FALSE
    /\ shutdown' = IF Idle(q) THEN "drained" ELSE "waiting"
    /\ UNCHANGED <<q, bypassed>>

(* Mutant: cancelQueued() forgets the bytes. *)
GraceEndsMutant ==
    /\ shutdown = "waiting"
    /\ q' = [q EXCEPT !.queues = [c \in Connections |-> <<>>],
                      !.rotation = <<>>, !.rotationIndex = 0,
                      !.timers = <<>>, !.queued = 0]
    /\ bypassed' = [c \in Connections |-> 0]
    /\ shutdown' = "cancelled"
    /\ UNCHANGED accepting

(* The grace period ends first: cancelQueued(). *)
GraceEnds ==
    /\ shutdown = "waiting"
    /\ q' = [q EXCEPT !.queues = [c \in Connections |-> <<>>],
                      !.rotation = <<>>, !.rotationIndex = 0,
                      !.timers = <<>>, !.queued = 0, !.queuedBytes = 0]
    /\ bypassed' = [c \in Connections |-> 0]
    /\ shutdown' = "cancelled"
    /\ UNCHANGED accepting

Next ==
    \/ \E c \in Connections, size \in Sizes : Run(c, size)
    \/ \E c \in Connections : Settle(c)
    \/ Expire
    \/ Shutdown
    \/ GraceEnds

Spec == Init /\ [][Next]_vars

(* Tasks settle: the transport bounds every request it makes. *)
FairSpec == Spec /\ \A c \in Connections : WF_vars(Settle(c))
-----------------------------------------------------------------------------
(* The counters that run() and snapshot() read say what is in the queues   *)
(* and how many tasks are running.                                         *)
CountersAgree ==
    /\ q.queued = Total([c \in Connections |-> Len(q.queues[c])])
    /\ q.queuedBytes = Total([c \in Connections |-> FoldSeq(+, 0, q.queues[c])])
    /\ q.active = Total(q.activeBy)

(* The rotation names every connection with a queued entry once and no     *)
(* other, and its index is a place of it.                                  *)
RotationIsQueues ==
    /\ Range(q.rotation) = {c \in Connections : q.queues[c] # <<>>}
    /\ IsInjective(q.rotation)
    /\ IF q.rotation = <<>> THEN q.rotationIndex = 0
       ELSE q.rotationIndex < Len(q.rotation)

(* No lost wake-up: an entry waits only for want of a slot, although       *)
(* expire() and cancelQueued() do not call drain().                        *)
WorkConserving ==
    q.active < maxGlobalActive => \A c \in Connections : ~Eligible(q, c)

(* shutdown() never waits for a scheduler that has become idle. *)
IdleIsNoticed == shutdown = "waiting" => ~Idle(q)

(* After cancelQueued() nothing is queued or dispatched again: shutdown    *)
(* may go on to close what the tasks use.                                  *)
NothingStartsAfterCancel ==
    shutdown = "cancelled" => q'.active <= q.active /\ q'.queued = 0

(* The class comment (lines 95-99): "dispatch rotates between non-empty    *)
(* connections".  In one rotation every other connection is served once,   *)
(* so an eligible connection sees at most that many dispatches.            *)
RoundRobin ==
    \A c \in Connections : bypassed[c] < Cardinality(Connections)

(* shutdown() returns. *)
ShutdownReturns == (shutdown = "waiting") ~> (shutdown \in {"drained", "cancelled"})
=============================================================================
