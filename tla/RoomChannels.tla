---------------------------- MODULE RoomChannels ----------------------------
(***************************************************************************)
(* socket/redis_room_channels.py: a worker subscribes to the Redis channel *)
(* of every room it has a member in.  One listener drains the queue of     *)
(* room changes, sends the subscriptions and a PING with a serial number,  *)
(* and lets the joins of that batch return when the PONG comes back.  The  *)
(* connection is two queues, which a silent reconnect of redis-py or an    *)
(* error of the listener empties.                                          *)
(***************************************************************************)
EXTENDS Naturals, Sequences, FiniteSets

CONSTANTS Joiners,         \* calls of enter_room
          Rooms,
          Main,            \* the channel of the manager itself
          None,
          MaxReconnects,   \* reconnects inside redis-py
          MaxErrors        \* errors that end the listener

VARIABLES call,      \* call[j]: None, or the room and whether it has returned
          dirty, queued,          \* _subscription_queue: plain events, joins
          busy, batch, serial,    \* waiters and the PING they wait for
          chans, dropping,        \* pubsub.channels and its pending removals
          pipe, back,             \* commands sent, replies not yet read
          subs,                   \* what Redis has subscribed
          reconnects, errors

queue == <<dirty, queued>>
wait == <<busy, batch, serial>>
client == <<chans, dropping>>
link == <<pipe, back, subs>>
vars == <<call, queue, wait, client, link, reconnects, errors>>

NewCall == [room |-> None, at |-> "out"]
Wanted == {Main} \cup {call[j].room : j \in {i \in Joiners : call[i].at \in {"wait", "in"}}}
Sub(cs) == [op |-> "sub", cs |-> cs, n |-> 0]
Unsub(cs) == [op |-> "unsub", cs |-> cs, n |-> 0]
Ping(n) == [op |-> "ping", cs |-> {}, n |-> n]
Send(q, m) == IF m.cs = {} THEN q ELSE Append(q, m)

TypeOK ==
    /\ queued \subseteq Joiners /\ batch \subseteq Joiners
    /\ subs \subseteq Rooms \cup {Main}

Init ==
    /\ call = [j \in Joiners |-> NewCall]
    /\ dirty = TRUE /\ queued = {} /\ busy = FALSE /\ batch = {} /\ serial = 0
    /\ chans = {Main} /\ dropping = {}
    /\ pipe = <<Sub({Main})>> /\ back = <<>> /\ subs = {}
    /\ reconnects = 0 /\ errors = 0

EnterRoom(j, r) ==
    /\ call[j] = NewCall
    /\ call' = [call EXCEPT ![j] = [room |-> r, at |-> "wait"]]
    /\ dirty' = TRUE /\ queued' = queued \cup {j}
    /\ UNCHANGED <<wait, client, link, reconnects, errors>>

LeaveRoom(j) ==
    /\ call[j].at \in {"wait", "in"}
    /\ call' = [call EXCEPT ![j] = [room |-> @.room, at |-> "left"]]
    /\ dirty' = (dirty \/ \A i \in Joiners \ {j} : call[i].room # call[j].room \/ call[i].at = "left")
    /\ queued' = queued \ {j} /\ batch' = batch \ {j}
    /\ UNCHANGED <<busy, serial, client, link, reconnects, errors>>

(* _listen_to_rooms takes what is queued, and _sync_rooms sends the difference. *)
SyncRooms ==
    /\ ~busy /\ (dirty \/ queued # {})
    /\ busy' = TRUE /\ batch' = queued /\ dirty' = FALSE /\ queued' = {}
    /\ serial' = serial + 1
    /\ LET added == Wanted \ (chans \ dropping)
           removed == (chans \ Wanted) \ dropping
       IN  /\ pipe' = Append(Send(Send(pipe, Sub(added)), Unsub(removed)), Ping(serial + 1))
           /\ chans' = chans \cup added
           /\ dropping' = (dropping \ added) \cup removed
    /\ UNCHANGED <<call, back, subs, reconnects, errors>>

Redis ==
    /\ pipe # <<>>
    /\ LET m == Head(pipe)
       IN  /\ subs' = CASE m.op = "sub" -> subs \cup m.cs
                        [] m.op = "unsub" -> subs \ m.cs
                        [] OTHER -> subs
           /\ back' = Append(back, m)
    /\ pipe' = Tail(pipe)
    /\ UNCHANGED <<call, queue, wait, client, reconnects, errors>>

(* Mutant: a restored subscription is not compared with the rooms again. *)
ReadSubscribeMutant ==
    /\ back # <<>> /\ Head(back).op = "sub"
    /\ UNCHANGED dirty
    /\ pipe' = IF Main \in Head(back).cs THEN Append(pipe, Ping(serial)) ELSE pipe
    /\ back' = Tail(back)
    /\ UNCHANGED <<call, queued, wait, client, subs, reconnects, errors>>

(* Mutant: no PING follows a subscription of the manager's channel. *)
ReadSubscribeSilent ==
    /\ back # <<>> /\ Head(back).op = "sub"
    /\ dirty' = TRUE
    /\ back' = Tail(back)
    /\ UNCHANGED <<call, queued, wait, client, pipe, subs, reconnects, errors>>

ReadSubscribe ==
    /\ back # <<>> /\ Head(back).op = "sub"
    /\ dirty' = TRUE
    /\ pipe' = IF Main \in Head(back).cs THEN Append(pipe, Ping(serial)) ELSE pipe
    /\ back' = Tail(back)
    /\ UNCHANGED <<call, queued, wait, client, subs, reconnects, errors>>

ReadUnsubscribe ==
    /\ back # <<>> /\ Head(back).op = "unsub"
    /\ chans' = chans \ (Head(back).cs \cap dropping)
    /\ dropping' = dropping \ Head(back).cs
    /\ back' = Tail(back)
    /\ UNCHANGED <<call, queue, wait, pipe, subs, reconnects, errors>>

Released == [j \in Joiners |-> IF j \in batch THEN [room |-> call[j].room, at |-> "in"] ELSE call[j]]

(* Mutant: any PONG lets the batch return. *)
ReadPongMutant ==
    /\ back # <<>> /\ Head(back).op = "ping"
    /\ call' = Released /\ batch' = {} /\ busy' = FALSE
    /\ back' = Tail(back)
    /\ UNCHANGED <<queue, serial, client, pipe, subs, reconnects, errors>>

ReadPong ==
    /\ back # <<>> /\ Head(back).op = "ping"
    /\ IF Head(back).n = serial
         THEN call' = Released /\ batch' = {} /\ busy' = FALSE
         ELSE UNCHANGED <<call, batch, busy>>
    /\ back' = Tail(back)
    /\ UNCHANGED <<queue, serial, client, pipe, subs, reconnects, errors>>

(* redis-py reconnects: it subscribes all its channels anew, also the ones
   whose removal was pending. *)
Reconnect ==
    /\ reconnects < MaxReconnects
    /\ reconnects' = reconnects + 1
    /\ pipe' = <<Sub(chans)>> /\ back' = <<>> /\ subs' = {}
    /\ dropping' = {}
    /\ UNCHANGED <<call, queue, wait, chans, errors>>

(* An error ends the listener; its finally block queues the waiters again and
   _redis_listen_with_retries starts over with a new pubsub. *)
Retry ==
    /\ errors < MaxErrors
    /\ errors' = errors + 1
    /\ queued' = queued \cup batch /\ batch' = {} /\ busy' = FALSE /\ dirty' = TRUE
    /\ serial' = 0
    /\ chans' = {Main} /\ dropping' = {}
    /\ pipe' = <<Sub({Main})>> /\ back' = <<>> /\ subs' = {}
    /\ UNCHANGED <<call, reconnects>>

Listener == SyncRooms \/ ReadSubscribe \/ ReadUnsubscribe \/ ReadPong

Next ==
    \/ \E j \in Joiners, r \in Rooms : EnterRoom(j, r)
    \/ \E j \in Joiners : LeaveRoom(j)
    \/ Listener \/ Redis \/ Reconnect \/ Retry

Spec == Init /\ [][Next]_vars

(* The listener runs while it has something to do, and Redis answers. *)
LiveSpec == Spec /\ WF_vars(Listener) /\ WF_vars(Redis)

-----------------------------------------------------------------------------
(* "PONG confirms Redis processed the subscriptions before a join returns": no
   event published to the room after the join returned passes this worker by. *)
JoinSubscribed ==
    \A j \in Joiners : (call[j].at = "wait" /\ call'[j].at = "in") => call[j].room \in subs

(* "redis-py can reconnect internally and restore a pending removal": once all
   is read, Redis has the channels of the rooms with members and no other. *)
SettlesOnRooms ==
    (pipe = <<>> /\ back = <<>> /\ ~dirty /\ queued = {}) => subs = Wanted

(* "a silent reconnect drops the pending PONG": a join that is not left returns
   all the same. *)
JoinReturns == \A j \in Joiners : call[j].at = "wait" ~> call[j].at \in {"in", "left"}
=============================================================================
