---------------------------- MODULE MCBotGateway ----------------------------
(***************************************************************************)
(* The queues and the replay store of the bot gateway.  Each scenario is   *)
(* one of these components under bounds of its own; they share no state,   *)
(* so a behaviour runs one of them: the variables of the queues stay Off,  *)
(* or those of GatewayReplay as they begin.                                *)
(***************************************************************************)
EXTENDS GatewayReplay

CONSTANTS Off, c1, c2, c3, d1, d2, d3, e1, v1, v2

VARIABLES which,   \* the scenario that runs
          q, accepting, shutdown, bypassed

Queue == INSTANCE FairConnectionQueue WITH
    Connections <- {c1, c2, c3}, Sizes <- {1, 2}, maxGlobalActive <- 3,
    maxConnectionActive <- 2, maxGlobalQueued <- 4, maxConnectionQueued <- 2,
    maxQueuedBytes <- 6, MaxBypass <- 3

(* The bounds of every scenario are what its module expects. *)
ASSUME BotGatewayAssumption ==
    /\ Queue!FairConnectionQueueAssumption /\ GatewayReplayAssumption

FairConnectionQueueOff ==
    /\ q = Off /\ accepting = Off /\ shutdown = Off /\ bypassed = Off

FairConnectionQueueVars == <<q, accepting, shutdown, bypassed>>
GatewayReplayVars == vars
MCVars == <<which, FairConnectionQueueVars, GatewayReplayVars>>

MCInit ==
    /\ which \in {"queue", "replay"}
    /\ CASE which = "queue" -> Queue!Init
         [] OTHER -> FairConnectionQueueOff
    /\ Init

MCNext ==
    \/ /\ which = "queue" /\ Queue!Next
       /\ UNCHANGED <<which, GatewayReplayVars>>
    \/ /\ which = "replay" /\ Next
       /\ UNCHANGED <<which, FairConnectionQueueVars>>

MCSpec == MCInit /\ [][MCNext]_MCVars

-----------------------------------------------------------------------------
(* The counters that run() and snapshot() read say what is in the queues and
   how many tasks are running. *)
CountersAgree == which = "queue" => Queue!CountersAgree

(* No lost wake-up: an entry waits only for want of a slot, although expire()
   and cancelQueued() do not call drain(). *)
WorkConserving == which = "queue" => Queue!WorkConserving

(* After cancelQueued() nothing is queued or dispatched again: shutdown may
   go on to close what the tasks use. *)
NothingStartsAfterCancel == [][which = "queue" => Queue!NothingStartsAfterCancel]_MCVars
=============================================================================
