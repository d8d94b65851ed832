---------------------------- MODULE EventLedger ----------------------------
(* How RyanAI answers one bot event exactly once: receive_event and        *)
(* _run_chat of routers/bot_gateway.py over the bot_gateway_event table of *)
(* models/bot_gateway.py.                                                  *)
(*                                                                         *)
(* A member of Requests is one delivery (one HTTP request with its own     *)
(* nonce) of an event to one worker process.  All events belong to one     *)
(* conversation: deliveries of different conversations share neither rows  *)
(* nor locks.                                                              *)
(*                                                                         *)
(*   new -> fenced -> claimed -> locked -> fresh -> targeted -> calling    *)
(*       -> called -> recorded -> answered                                 *)
(*                                                                         *)
(* is the path of a chat message through validate_event_fence,             *)
(* claim_event, _conversation_lock, _recover_persisted_reply,              *)
(* set_event_target, the chat handler and complete_event.  Every await     *)
(* between them is a place where the other deliveries, a lapse of the      *)
(* lease, an exception or a crash may come in.                             *)
(*                                                                         *)
(* Rows are kept for 30 days (cleanup_expired_records) and the gateway     *)
(* refuses events older than a day, so no delivery outlives its row and    *)
(* the removal of rows is left out.                                        *)
EXTENDS Naturals, FiniteSets

CONSTANTS Requests, Events, Workers,
          None,       \* absent value
          Direct,     \* a reply that needs no model: ignored, notice, command
          LockSpans,  \* the conversation lock orders all workers: the advisory
                      \* lock of PostgreSQL, or a single worker
          MaxEpoch    \* bound on fail-overs of the shard lease

ASSUME EventLedgerAssumption ==
    /\ None \notin Requests \cup {Direct}
    /\ Direct \notin Requests
    /\ LockSpans \in BOOLEAN
    /\ MaxEpoch \in Nat

VARIABLES eventOf, workerOf,  \* the event and the worker of a delivery
          epochOf,            \* the lease epoch it carries
          epoch,              \* the current epoch of the shard lease
          row,                \* the event's row
          pc,
          record,             \* the copy of the row that claim_event returned
          message,            \* message[r]: the assistant message r asks for
          answer,             \* answer[r]: the body of r's 200 response
          moved               \* the sender was bound to another account or
                              \* the chat deleted since the first delivery

vars == <<eventOf, workerOf, epochOf, epoch, row, pc, record, message, answer, moved>>
delivery == <<eventOf, workerOf, epochOf, epoch, moved>>

Replies == Requests \cup {Direct}

(* A persisted assistant message: not there or not done, done with its     *)
(* whole text, done with no text, cut short by a cancellation with or      *)
(* without some text, or done with an error.                               *)
MessageStates == {"absent", "text", "empty", "partial", "blank", "error"}

Row == [status : {"none", "processing", "completed", "failed"},
        nonce : Requests \cup {None},
        hash : 0 .. MaxEpoch,
        target : Requests \cup {None},
        response : Replies \cup {None},
        lapsed : BOOLEAN]   \* updated_at is older than the event lease

Leased == {"claimed", "locked", "fresh", "targeted", "calling",
           "called", "recorded"}
Holding == Leased \ {"claimed"}
Ended == {"answered", "ignored", "refused", "failed", "dead"}

TypeOK ==
    /\ eventOf \in [Requests -> Events]
    /\ workerOf \in [Requests -> Workers]
    /\ epochOf \in [Requests -> 0 .. MaxEpoch]
    /\ epoch \in 0 .. MaxEpoch
    /\ row \in [Events -> Row]
    /\ pc \in [Requests -> {"new", "fenced", "failing"} \cup Leased \cup Ended]
    /\ record \in [Requests -> Requests \cup {None}]
    /\ message \in [Requests -> MessageStates]
    /\ answer \in [Requests -> Replies \cup {None}]
    /\ moved \in BOOLEAN
    /\ \A e \in Events : row[e].status = "completed" <=> row[e].response # None

NoRow == [status |-> "none", nonce |-> None, hash |-> 0, target |-> None,
          response |-> None, lapsed |-> FALSE]

Init ==
    /\ eventOf \in [Requests -> Events]
    /\ workerOf \in [Requests -> Workers]
    /\ epochOf = [r \in Requests |-> 0]
    /\ epoch = 0
    /\ row = [e \in Events |-> NoRow]
    /\ pc = [r \in Requests |-> "new"]
    /\ record = [r \in Requests |-> None]
    /\ message = [r \in Requests |-> "absent"]
    /\ answer = [r \in Requests |-> None]
    /\ moved = FALSE

RowOf(r) == row[eventOf[r]]

(* The WHERE clause of renew_event_lease, set_event_target, complete_event *)
(* and fail_event.                                                         *)
Owns(r) == RowOf(r).status = "processing" /\ RowOf(r).nonce = r

Goto(r, l) == pc' = [pc EXCEPT ![r] = l]

SetRow(r, new) == row' = [row EXCEPT ![eventOf[r]] = new]

(* The shard's lease passes to another holder. *)
FailOver ==
    /\ epoch < MaxEpoch
    /\ epoch' = epoch + 1
    /\ UNCHANGED <<eventOf, workerOf, epochOf, row, pc, record, message, answer, moved>>

(* The sender's binding or the chat changes under the event. *)
Move ==
    /\ moved' = TRUE
    /\ UNCHANGED <<eventOf, workerOf, epochOf, epoch, row, pc, record, message, answer>>

(* receive_event up to validate_event_fence, which finds the epoch that    *)
(* the event carries current ...                                           *)
Admit(r) ==
    /\ pc[r] = "new"
    /\ epochOf' = [epochOf EXCEPT ![r] = epoch]
    /\ Goto(r, "fenced")
    /\ UNCHANGED <<eventOf, workerOf, epoch, row, record, message, answer, moved>>

(* ... or stale: 409. *)
StaleFence(r) ==
    /\ pc[r] = "new"
    /\ epoch > 0
    /\ Goto(r, "refused")
    /\ UNCHANGED <<delivery, row, record, message, answer>>

(* The gateway's policy is switched off: 200 "ignored", and no row. *)
IgnoredByPolicy(r) ==
    /\ pc[r] = "fenced"
    /\ Goto(r, "ignored")
    /\ UNCHANGED <<delivery, row, record, message, answer>>

(* Mutant: every row that is not in progress is taken over. *)
ClaimableMutant(r) ==
    \/ RowOf(r).status = "none"
    \/ /\ RowOf(r).hash = epochOf[r]
       /\ RowOf(r).status # "processing" \/ RowOf(r).lapsed

(* claim_event.  The hash covers the whole event model, the epoch included *)
(* (semantic_json).  A new row is inserted; a failed row and one whose     *)
(* lease lapsed are taken over.                                            *)
Claimable(r) ==
    \/ RowOf(r).status = "none"
    \/ /\ RowOf(r).hash = epochOf[r]
       /\ RowOf(r).status = "failed" \/ (RowOf(r).status = "processing" /\ RowOf(r).lapsed)

Claim(r) ==
    /\ pc[r] = "fenced"
    /\ Claimable(r)
    /\ SetRow(r, [RowOf(r) EXCEPT !.status = "processing", !.nonce = r,
                                  !.hash = epochOf[r], !.lapsed = FALSE])
    /\ record' = [record EXCEPT ![r] = RowOf(r).target]
    /\ Goto(r, "claimed")
    /\ UNCHANGED <<delivery, message, answer>>

(* A completed event is answered from its row. *)
Replay(r) ==
    /\ pc[r] = "fenced"
    /\ RowOf(r).status = "completed"
    /\ RowOf(r).hash = epochOf[r]
    /\ answer' = [answer EXCEPT ![r] = RowOf(r).response]
    /\ Goto(r, "answered")
    /\ UNCHANGED <<delivery, row, record, message>>

(* 409: the hash differs, or another delivery is being processed. *)
Refuse(r) ==
    /\ pc[r] = "fenced"
    /\ RowOf(r).status # "none"
    /\ RowOf(r).hash # epochOf[r] \/ (RowOf(r).status = "processing" /\ ~RowOf(r).lapsed)
    /\ Goto(r, "refused")
    /\ UNCHANGED <<delivery, row, record, message, answer>>

(* Mutant: the lock is looked up under a key of its own per delivery. *)
LockFreeMutant(r) == pc[r] \notin Holding

(* _conversation_lock: free among the deliveries it orders. *)
LockFree(r) ==
    \A s \in Requests : pc[s] \in Holding => ~(LockSpans \/ workerOf[s] = workerOf[r])

Acquire(r) ==
    /\ pc[r] = "claimed"
    /\ LockFree(r)
    /\ Goto(r, "locked")
    /\ UNCHANGED <<delivery, row, record, message, answer>>

(* _ConversationLockTimeoutError *)
LockTimeout(r) ==
    /\ pc[r] = "claimed"
    /\ Goto(r, "failing")
    /\ UNCHANGED <<delivery, row, record, message, answer>>

(* Mutant: complete_event does not compare the nonce. *)
CompleteMutant(r, reply) ==
    /\ SetRow(r, [RowOf(r) EXCEPT !.status = "completed", !.response = reply])
    /\ answer' = [answer EXCEPT ![r] = reply]
    /\ Goto(r, "recorded")

(* _complete(): the reply is recorded if the delivery still owns the row;  *)
(* otherwise 409.                                                          *)
Complete(r, reply) ==
    IF Owns(r)
    THEN /\ SetRow(r, [RowOf(r) EXCEPT !.status = "completed", !.response = reply,
                                      !.lapsed = FALSE])
         /\ answer' = [answer EXCEPT ![r] = reply]
         /\ Goto(r, "recorded")
    ELSE /\ Goto(r, "failing")
         /\ UNCHANGED <<row, answer>>

(* The exits of receive_event that complete without a chat: connection     *)
(* disabled, group not allowed, sender not trusted or not bound, command,  *)
(* account unavailable.  What they depend on may change between attempts.  *)
AnswerDirectly(r) ==
    /\ pc[r] \in {"locked", "fresh"}
    /\ Complete(r, Direct)
    /\ UNCHANGED <<delivery, record, message>>

(* _recover_persisted_reply on the target in the claimed copy of the row:  *)
(* a done message with text is the reply, one with an error fails the      *)
(* delivery, and anything else leads to a new chat turn.                   *)
(* After a rebinding or the deletion of the chat there is nothing to read. *)
Recovered(r) == record[r] # None /\ message[record[r]] \in {"text", "partial"}

RecoveredError(r) == record[r] # None /\ message[record[r]] = "error"

Recover(r) ==
    /\ pc[r] = "locked"
    /\ Recovered(r)
    /\ Complete(r, record[r])
    /\ UNCHANGED <<delivery, record, message>>

RecoverError(r) ==
    /\ pc[r] = "locked"
    /\ RecoveredError(r)
    /\ Goto(r, "failing")
    /\ UNCHANGED <<delivery, row, record, message, answer>>

NothingToRecover(r) ==
    /\ pc[r] = "locked"
    /\ moved \/ (~Recovered(r) /\ ~RecoveredError(r))
    /\ Goto(r, "fresh")
    /\ UNCHANGED <<delivery, row, record, message, answer>>

(* _run_chat: _prepare_chat and set_event_target. *)
SetTarget(r) ==
    /\ pc[r] = "fresh"
    /\ IF Owns(r)
       THEN /\ SetRow(r, [RowOf(r) EXCEPT !.target = r, !.lapsed = FALSE])
            /\ Goto(r, "targeted")
       ELSE Goto(r, "failing") /\ UNCHANGED row
    /\ UNCHANGED <<delivery, record, message, answer>>

(* renew_event_lease, then the chat handler is called. *)
BeginCall(r) ==
    /\ pc[r] = "targeted"
    /\ IF Owns(r)
       THEN SetRow(r, [RowOf(r) EXCEPT !.lapsed = FALSE]) /\ Goto(r, "calling")
       ELSE Goto(r, "failing") /\ UNCHANGED row
    /\ UNCHANGED <<delivery, record, message, answer>>

(* The handler returns with a message it has persisted, with a message     *)
(* that holds an error, or without one.                                    *)
EndCall(r, m) ==
    /\ pc[r] = "calling"
    /\ message' = [message EXCEPT ![r] = m]
    /\ Goto(r, IF m \in {"text", "empty"} THEN "called" ELSE "failing")
    /\ UNCHANGED <<delivery, row, record, answer>>

CompleteChat(r) ==
    /\ pc[r] = "called"
    /\ Complete(r, r)
    /\ UNCHANGED <<delivery, record, message>>

(* The lock and the lease are left and the response is sent. *)
Return(r) ==
    /\ pc[r] = "recorded"
    /\ Goto(r, "answered")
    /\ UNCHANGED <<delivery, row, record, message, answer>>

(* _event_lease: the heartbeat renews the lease. *)
Heartbeat(r) ==
    /\ pc[r] \in Leased
    /\ Owns(r)
    /\ SetRow(r, [RowOf(r) EXCEPT !.lapsed = FALSE])
    /\ UNCHANGED <<delivery, pc, record, message, answer>>

(* The delivery is unwound: the heartbeat could not renew (the row was     *)
(* taken over, the database failed, or the event has just been completed)  *)
(* and cancels it, the server cancels it, or a step of it raises.  The     *)
(* lock is released.                                                       *)
(* Cancelled inside the chat handler, what was streamed so far is saved    *)
(* as a done message.                                                      *)
Interrupt(r) ==
    /\ pc[r] \in Leased
    /\ Goto(r, "failing")
    /\ IF pc[r] = "calling"
       THEN \E m \in {"partial", "blank"} : message' = [message EXCEPT ![r] = m]
       ELSE UNCHANGED message
    /\ UNCHANGED <<delivery, row, record, answer>>

(* Mutant: fail_event compares only the nonce, not the status. *)
FailEventMutant(r) ==
    /\ pc[r] = "failing"
    /\ IF RowOf(r).nonce = r THEN SetRow(r, [RowOf(r) EXCEPT !.status = "failed"])
                             ELSE UNCHANGED row
    /\ Goto(r, "failed")
    /\ UNCHANGED <<delivery, record, message, answer>>

(* Mutant: fail_event is retried until it changes the row. *)
FailEventRetried(r) ==
    /\ pc[r] = "failing"
    /\ Owns(r)
    /\ SetRow(r, [RowOf(r) EXCEPT !.status = "failed"])
    /\ Goto(r, "failed")
    /\ UNCHANGED <<delivery, record, message, answer>>

(* fail_event in the except clauses, after the lock was released. *)
FailEvent(r) ==
    /\ pc[r] = "failing"
    /\ IF Owns(r) THEN SetRow(r, [RowOf(r) EXCEPT !.status = "failed", !.lapsed = FALSE])
                  ELSE UNCHANGED row
    /\ Goto(r, "failed")
    /\ UNCHANGED <<delivery, record, message, answer>>

(* Three minutes without a renewal. *)
Lapse(e) ==
    /\ row[e].status = "processing"
    /\ ~row[e].lapsed
    /\ row' = [row EXCEPT ![e].lapsed = TRUE]
    /\ UNCHANGED <<delivery, pc, record, message, answer>>

(* A worker process dies with everything it was doing; PostgreSQL releases *)
(* its advisory locks with its connections.                                *)
Crash(w) ==
    /\ \E r \in Requests : workerOf[r] = w /\ pc[r] \in Leased \cup {"fenced", "failing"}
    /\ pc' = [r \in Requests |-> IF workerOf[r] = w /\ pc[r] \in Leased \cup {"fenced", "failing"}
                                 THEN "dead" ELSE pc[r]]
    /\ UNCHANGED <<delivery, row, record, message, answer>>

(* The steps a live worker takes sooner or later; the chat handler's own   *)
(* time limits are part of it.                                             *)
Progress(r) ==
    \/ IgnoredByPolicy(r) \/ Claim(r) \/ Replay(r) \/ Refuse(r)
    \/ Acquire(r) \/ LockTimeout(r)
    \/ AnswerDirectly(r) \/ Recover(r) \/ RecoverError(r) \/ NothingToRecover(r)
    \/ SetTarget(r) \/ BeginCall(r)
    \/ \E m \in {"text", "empty", "error", "absent"} : EndCall(r, m)
    \/ CompleteChat(r) \/ Return(r) \/ FailEvent(r)

Next ==
    \/ \E r \in Requests : \/ Admit(r) \/ StaleFence(r) \/ Progress(r)
                           \/ Heartbeat(r) \/ Interrupt(r)
    \/ \E e \in Events : Lapse(e)
    \/ \E w \in Workers : Crash(w)
    \/ FailOver \/ Move

Spec == Init /\ [][Next]_vars

FairSpec == Spec /\ \A r \in Requests : WF_vars(Progress(r))
-----------------------------------------------------------------------------
(* A delivery that was answered was answered with the recorded reply, so   *)
(* all deliveries of an event that are answered get the same reply.        *)
StableReply ==
    \A r \in Requests :
        pc[r] = "answered" => /\ RowOf(r).status = "completed"
                              /\ answer[r] = RowOf(r).response

(* A reply that was generated and persisted in full is never generated a   *)
(* second time, whatever lapses, retries and crashes come in between,      *)
(* provided that the conversation lock orders all workers and the sender   *)
(* keeps binding and chat.                                                 *)
NoSecondFullReply ==
    (LockSpans /\ ~moved) =>
        \A r, s \in Requests :
            (eventOf[r] = eventOf[s] /\ message[r] = "text" /\ message[s] = "text")
                => r = s

(* The docstring of _recover_persisted_reply: "Recover a reply persisted   *)
(* before a worker died, avoiding a second model call."                    *)
NoSecondModelReply ==
    (LockSpans /\ ~moved) =>
        \A r, s \in Requests :
            (/\ eventOf[r] = eventOf[s]
             /\ message[r] \in {"text", "empty"}
             /\ message[s] \in {"text", "empty"})
                => r = s

(* A completed row never changes again: neither a late fail_event or       *)
(* renewal of a delivery that lost its lease nor a redelivery touches it.  *)
CompletedIsFinal ==
    [][\A e \in Events : row[e].status = "completed" => row'[e] = row[e]]_vars

(* Every delivery that passed the fence ends, whoever holds the lock. *)
DeliveryEnds == \A r \in Requests : pc[r] = "fenced" ~> pc[r] \in Ended

(* claim_event raises "Event ID was reused with a different payload"; every *)
(* delivery of an event carries the same payload, so a completed event     *)
(* must be answered, never refused.                                        *)
CompletedIsReplayed ==
    [][\A r \in Requests :
         (pc[r] = "fenced" /\ RowOf(r).status = "completed") => pc'[r] # "refused"]_vars

(* The endpoint implements its contract. *)
Once == INSTANCE EventOnce
            WITH outcome <- [e \in Events |-> row[e].response],
                 answer <- [r \in Requests |-> IF pc[r] = "answered" THEN answer[r] ELSE None],
                 NoReply <- None

ImplementsEventOnce == Once!Spec
=============================================================================
