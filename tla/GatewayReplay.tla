---------------------------- MODULE GatewayReplay ----------------------------
(* How the gateway process answers an event once: RyanAiGateway.handle,    *)
(* handleSafely and handleClaimedSerial of bot-gateway/src/gateway.ts over *)
(* the replays table of state-worker.ts.                                   *)
(*                                                                         *)
(* A member of Deliveries is one call of handle().  A call that finds its  *)
(* event in inFlightEvents shares that call's promise; the others go       *)
(*                                                                         *)
(*   new -> claiming -> queued -> sending -> storing -> answered           *)
(*                                                                         *)
(* through the replay claim, the two queues, the request to RyanAI and the *)
(* completion or release of the claim.  The queues are those of            *)
(* FairConnectionQueue and KeyedSerialQueue; here they admit, refuse or    *)
(* time out.  RyanAI is what EventOnce promises: one outcome per event.    *)
EXTENDS Naturals

CONSTANTS Deliveries, Events,
          Replies,      \* what the model may answer
          None,         \* absent value
          LeaseCovers   \* the lease of a claim outlasts every call of handle():
                        \* 15 min. against the 11 min. of the default limits

GatewayReplayAssumption ==
    /\ None \notin Replies \cup {"ignored", "error"} \cup Deliveries
    /\ {"ignored", "error"} \cap Replies = {}
    /\ LeaseCovers \in BOOLEAN

VARIABLES eventOf,    \* the event of a delivery
          pc,
          inFlight,   \* inFlightEvents: the call whose promise is shared
          joined,     \* joined[d]: the call whose promise d shares
          store,      \* the replays table
          reply,      \* reply[d]: the reply d has built or returned
          retry,      \* retry[d]: releaseClaim
          sent,       \* the events some delivery has sent to RyanAI
          outcome     \* the outcome RyanAI recorded for an event

vars == <<eventOf, pc, inFlight, joined, store, reply, retry, sent, outcome>>

Answers == Replies \cup {"ignored", "error"}

Working == {"claiming", "queued", "sending", "storing"}

(* No record, a claim, or a stored reply. *)
Record == [state : {"none", "processing", "completed"}, reply : Answers \cup {None}]

NoRecord == [state |-> "none", reply |-> None]

TypeOK ==
    /\ eventOf \in [Deliveries -> Events]
    /\ pc \in [Deliveries -> {"new", "joined", "answered", "lost"} \cup Working]
    /\ inFlight \in [Events -> Deliveries \cup {None}]
    /\ joined \in [Deliveries -> Deliveries \cup {None}]
    /\ store \in [Events -> Record]
    /\ reply \in [Deliveries -> Answers \cup {None}]
    /\ retry \in [Deliveries -> BOOLEAN]
    /\ sent \subseteq Events
    /\ outcome \in [Events -> Replies \cup {"ignored", None}]
    /\ \A e \in Events : store[e].state = "completed" <=> store[e].reply # None

Init ==
    /\ eventOf \in [Deliveries -> Events]
    /\ pc = [d \in Deliveries |-> "new"]
    /\ inFlight = [e \in Events |-> None]
    /\ joined = [d \in Deliveries |-> None]
    /\ store = [e \in Events |-> NoRecord]
    /\ reply = [d \in Deliveries |-> None]
    /\ retry = [d \in Deliveries |-> FALSE]
    /\ sent = {}
    /\ outcome = [e \in Events |-> None]

Goto(d, l) == pc' = [pc EXCEPT ![d] = l]

SetRecord(d, new) == store' = [store EXCEPT ![eventOf[d]] = new]

(* Mutant: the callers that joined are not told. *)
ResolveMutant(d, v) ==
    /\ pc' = [pc EXCEPT ![d] = "answered"]
    /\ reply' = [reply EXCEPT ![d] = v]
    /\ inFlight' = [inFlight EXCEPT ![eventOf[d]] = IF @ = d THEN None ELSE @]

(* The promise of d resolves with v: the shared callers get v as well, and *)
(* the finally of handle() forgets the call.                               *)
Resolve(d, v) ==
    LET sharing == {c \in Deliveries : c = d \/ (pc[c] = "joined" /\ joined[c] = d)}
    IN  /\ pc' = [c \in Deliveries |-> IF c \in sharing THEN "answered" ELSE pc[c]]
        /\ reply' = [c \in Deliveries |-> IF c \in sharing THEN v ELSE reply[c]]
        /\ inFlight' = [inFlight EXCEPT ![eventOf[d]] = IF @ = d THEN None ELSE @]

(* handle(): join the call in flight ... *)
Join(d) ==
    /\ pc[d] = "new"
    /\ inFlight[eventOf[d]] # None
    /\ joined' = [joined EXCEPT ![d] = inFlight[eventOf[d]]]
    /\ Goto(d, "joined")
    /\ UNCHANGED <<eventOf, inFlight, store, reply, retry, sent, outcome>>

(* Mutant: the call is registered only once it has claimed its event. *)
HandleMutant(d) ==
    /\ pc[d] = "new"
    /\ inFlight[eventOf[d]] = None
    /\ Goto(d, "claiming")
    /\ UNCHANGED <<eventOf, inFlight, joined, store, reply, retry, sent, outcome>>

(* ... or become it. *)
Handle(d) ==
    /\ pc[d] = "new"
    /\ inFlight[eventOf[d]] = None
    /\ inFlight' = [inFlight EXCEPT ![eventOf[d]] = d]
    /\ Goto(d, "claiming")
    /\ UNCHANGED <<eventOf, joined, store, reply, retry, sent, outcome>>

(* claimEvent answers completed or processing. *)
Replayed(d) ==
    /\ pc[d] = "claiming"
    /\ store[eventOf[d]].state # "none"
    /\ Resolve(d, IF store[eventOf[d]].state = "completed" THEN store[eventOf[d]].reply
                                                           ELSE "error")
    /\ UNCHANGED <<eventOf, joined, store, retry, sent, outcome>>

(* Mutant: a completed event is claimed again. *)
ClaimMutant(d) ==
    /\ pc[d] = "claiming"
    /\ store[eventOf[d]].state # "processing"
    /\ SetRecord(d, [store[eventOf[d]] EXCEPT !.state = "processing"])
    /\ Goto(d, "queued")
    /\ UNCHANGED <<eventOf, inFlight, joined, reply, retry, sent, outcome>>

(* claimEvent answers new. *)
Claim(d) ==
    /\ pc[d] = "claiming"
    /\ store[eventOf[d]].state = "none"
    /\ SetRecord(d, [state |-> "processing", reply |-> None])
    /\ Goto(d, "queued")
    /\ UNCHANGED <<eventOf, inFlight, joined, reply, retry, sent, outcome>>

(* The call has a reply and goes on to store it, or to release the claim. *)
Build(d, v, again) ==
    /\ reply' = [reply EXCEPT ![d] = v]
    /\ retry' = [retry EXCEPT ![d] = again]
    /\ Goto(d, "storing")
    /\ UNCHANGED <<eventOf, inFlight, joined, store, sent, outcome>>

(* QueueAdmissionError of the fair queue: the error is the reply. *)
NotAdmitted(d) == pc[d] = "queued" /\ Build(d, "error", FALSE)

(* A group that is not enabled, or a message that does not mention the bot. *)
NotForBot(d) == pc[d] = "queued" /\ Build(d, "ignored", FALSE)

(* An event that validateEvent rejects, the plain errors of the serial     *)
(* queue (queue_capacity_exceeded, queue_wait_timeout), or the state store *)
(* failing: the outer catch answers without touching the claim.            *)
Rejected(d) ==
    /\ pc[d] \in {"claiming", "queued", "storing"}
    /\ Resolve(d, "error")
    /\ UNCHANGED <<eventOf, joined, store, retry, sent, outcome>>

Send(d) ==
    /\ pc[d] = "queued"
    /\ sent' = sent \cup {eventOf[d]}
    /\ Goto(d, "sending")
    /\ UNCHANGED <<eventOf, inFlight, joined, store, reply, retry, outcome>>

(* RyanAI records an outcome for an event that was sent to it, whether or  *)
(* not a delivery is still waiting for it.                                 *)
Decide(e, v) ==
    /\ e \in sent
    /\ outcome[e] = None
    /\ outcome' = [outcome EXCEPT ![e] = v]
    /\ UNCHANGED <<eventOf, pc, inFlight, joined, store, reply, retry, sent>>

Answered(d) ==
    /\ pc[d] = "sending"
    /\ outcome[eventOf[d]] # None
    /\ Build(d, outcome[eventOf[d]], FALSE)

(* RyanAiTransportError: retryable (timeout, network, 408, 425, 429, 5xx)  *)
(* or not (other status, malformed or oversized response).                 *)
SendFails(d, retryable) == pc[d] = "sending" /\ Build(d, "error", retryable)

(* 409 stale_fence: the event is dropped here, its new owner redelivers.   *)
StaleFence(d) == pc[d] = "sending" /\ Build(d, "ignored", FALSE)

(* Mutant: the reply is returned and stored later. *)
StoreMutant(d) ==
    /\ pc[d] = "storing"
    /\ UNCHANGED store
    /\ Resolve(d, reply[d])
    /\ UNCHANGED <<eventOf, joined, retry, sent, outcome>>

(* Mutant: a retryable failure is stored as the reply. *)
StoreError(d) ==
    /\ pc[d] = "storing"
    /\ SetRecord(d, [state |-> "completed", reply |-> reply[d]])
    /\ Resolve(d, reply[d])
    /\ UNCHANGED <<eventOf, joined, retry, sent, outcome>>

(* releaseEvent deletes a record under processing; completeEvent updates   *)
(* the record, if there still is one.                                      *)
Store(d) ==
    LET record == store[eventOf[d]]
    IN  /\ pc[d] = "storing"
        /\ IF retry[d]
           THEN SetRecord(d, IF record.state = "processing" THEN NoRecord ELSE record)
           ELSE SetRecord(d, IF record.state = "none" THEN NoRecord
                             ELSE [state |-> "completed", reply |-> reply[d]])
        /\ Resolve(d, reply[d])
        /\ UNCHANGED <<eventOf, joined, retry, sent, outcome>>

(* Mutant: claims are purged regardless of their lease. *)
ExpireMutant(e) ==
    /\ store[e].state # "none"
    /\ store' = [store EXCEPT ![e] = NoRecord]
    /\ UNCHANGED <<eventOf, pc, inFlight, joined, reply, retry, sent, outcome>>

(* purgeExpired: the lease of a claim or the retention of a reply is over. *)
Expire(e) ==
    /\ store[e].state # "none"
    /\ (LeaseCovers /\ store[e].state = "processing") => inFlight[e] = None
    /\ store' = [store EXCEPT ![e] = NoRecord]
    /\ UNCHANGED <<eventOf, pc, inFlight, joined, reply, retry, sent, outcome>>

(* The gateway process dies and restarts; the table is on disk. *)
Crash ==
    /\ \E d \in Deliveries : pc[d] \in Working
    /\ pc' = [d \in Deliveries |-> IF pc[d] \in Working \cup {"joined"} THEN "lost" ELSE pc[d]]
    /\ inFlight' = [e \in Events |-> None]
    /\ UNCHANGED <<eventOf, joined, store, reply, retry, sent, outcome>>

Step(d) ==
    \/ Replayed(d) \/ Claim(d) \/ NotAdmitted(d) \/ NotForBot(d) \/ Rejected(d) \/ Send(d)
    \/ Answered(d) \/ (\E b \in BOOLEAN : SendFails(d, b)) \/ StaleFence(d) \/ Store(d)

Next ==
    \/ \E d \in Deliveries : \/ Join(d) \/ Handle(d) \/ Step(d)
    \/ \E e \in Events : \/ Expire(e)
                         \/ \E v \in Replies \cup {"ignored"} : Decide(e, v)
    \/ Crash

Spec == Init /\ [][Next]_vars

(* The queues and the request have time limits, so a live call goes on. *)
FairSpec == Spec /\ \A d \in Deliveries : WF_vars(Step(d))
-----------------------------------------------------------------------------
(* One call at a time works on an event, and it is the one that later      *)
(* deliveries join.                                                        *)
OneCallPerEvent ==
    \A c, d \in Deliveries :
        (pc[c] \in Working /\ pc[d] \in Working /\ eventOf[c] = eventOf[d]) => c = d

(* A request is made only under a claim, so an event whose reply is stored *)
(* is not sent to RyanAI again before the reply expires.                   *)
SentUnderClaim ==
    LeaseCovers => \A d \in Deliveries :
        pc[d] \in {"queued", "sending", "storing"} => store[eventOf[d]].state = "processing"

ReturnsStored ==
    \A d \in Deliveries :
      (pc[d] = "storing" /\ pc'[d] = "answered" /\ reply'[d] # "error")
          => store'[eventOf[d]] = [state |-> "completed", reply |-> reply'[d]]

(* README: "later replays use the persisted result without a second RyanAI *)
(* call": a reply that may be repeated is in the table when it is returned. *)
StoredBeforeReturned == [][ReturnsStored]_vars

(* A delivery whose request failed for a reason that may pass ... *)
ReturnsReleased ==
    \A d \in Deliveries :
      (pc[d] = "storing" /\ retry[d] /\ pc'[d] = "answered")
          => store'[eventOf[d]].state # "completed"

(* The reply of a request that failed for a reason that may pass is never  *)
(* stored: the next delivery of the event tries again.                     *)
RetryableIsReleased == [][ReturnsReleased]_vars

(* Every delivery is answered, or lost in a crash. *)
DeliveryAnswered ==
    \A d \in Deliveries : pc[d] \in Working \cup {"joined"} ~> pc[d] \in {"answered", "lost"}
=============================================================================
