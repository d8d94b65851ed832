------------------------- MODULE Deliveries_proofs --------------------------
(***************************************************************************)
(* Proofs about what is delivered once, or in time: the answers of the bot *)
(* gateway to deliveries it has seen before, and the alerts of an event,   *)
(* which every instance sends on its own.                                  *)
(* A component after the first is an instance, and a theorem speaks of the *)
(* variables of its own component only.                                    *)
(***************************************************************************)
EXTENDS GatewayReplay, Integers, TLAPS

CONSTANTS Instances, Starts, Leads, Poll, Jitter, TimerPoll, Slack, Work, MaxClock, MaxEdits,
          MaxMetaEdits, MaxCrashes

VARIABLES clock, ev, inst, form, emitted, since, edits, metaEdits, crashes

(* What the provers may take for a step, on a busy machine. *)
USE ZenonT(3), SMTT(30), ZenonT(30)

-----------------------------------------------------------------------------
(* Proofs about GatewayReplay, for every set of deliveries, events and     *)
(* replies, every number of crashes and every expiry of the table.         *)

(* A call that works on an event is the one inFlightEvents names for it,   *)
(* and the map names no other.                                             *)
InFlightInv ==
    /\ \A d \in Deliveries : pc[d] \in Working => inFlight[eventOf[d]] = d
    /\ \A e \in Events : inFlight[e] # None =>
           pc[inFlight[e]] \in Working /\ eventOf[inFlight[e]] = e

(* A delivery that shares a promise shares that of a call which still works *)
(* on the same event, and which therefore tells it its reply.               *)
JoinedIsServed ==
    \A d \in Deliveries : pc[d] = "joined" =>
        /\ joined[d] \in Deliveries
        /\ pc[joined[d]] \in Working
        /\ eventOf[joined[d]] = eventOf[d]

(* A call that stores has a reply, and only an error is released instead. *)
BuiltInv ==
    \A d \in Deliveries : pc[d] = "storing" =>
        reply[d] # None /\ (retry[d] => reply[d] = "error")

(* The inductive invariant. *)
ReplayIInv ==
    /\ TypeOK
    /\ InFlightInv
    /\ JoinedIsServed
    /\ BuiltInv
    /\ SentUnderClaim

-----------------------------------------------------------------------------
(* Two calls that work on one event would both be the call of the map. *)
LEMMA IInvOneCall == ReplayIInv => OneCallPerEvent
  BY DEF ReplayIInv, InFlightInv, OneCallPerEvent

LEMMA InitReplay == GatewayReplayAssumption /\ Init => ReplayIInv
  BY DEF GatewayReplayAssumption, Init, ReplayIInv, TypeOK, InFlightInv, JoinedIsServed, BuiltInv,
         SentUnderClaim, Working, Record, NoRecord, Answers

(* A call ends with a reply: it leaves the map together with those that    *)
(* share its promise.  Only the record of its own event may change.        *)
LEMMA ResolveIInv ==
    ASSUME GatewayReplayAssumption, ReplayIInv,
           NEW d \in Deliveries, pc[d] \in Working,
           NEW v \in Answers, Resolve(d, v),
           store' \in [Events -> Record],
           \A e \in Events : store'[e].state = "completed" <=> store'[e].reply # None,
           \A e \in Events : e # eventOf[d] => store'[e] = store[e],
           UNCHANGED <<eventOf, joined, retry, sent, outcome>>
    PROVE  ReplayIInv'
<1> USE DEF GatewayReplayAssumption, Resolve
<1>1. TypeOK'
  BY DEF ReplayIInv, TypeOK
<1>2. \A c \in Deliveries : pc'[c] \in Working => pc[c] = pc'[c] /\ c # d
  BY DEF ReplayIInv, TypeOK, Working
<1>3. \A c \in Deliveries : pc'[c] \in Working => eventOf[c] # eventOf[d]
  BY <1>2 DEF ReplayIInv, InFlightInv
<1>4. InFlightInv'
  <2>1. \A c \in Deliveries : pc'[c] \in Working => inFlight'[eventOf'[c]] = c
    BY <1>2, <1>3 DEF ReplayIInv, TypeOK, InFlightInv
  <2>2. ASSUME NEW e \in Events, inFlight'[e] # None
        PROVE  pc'[inFlight'[e]] \in Working /\ eventOf'[inFlight'[e]] = e
    <3>1. inFlight'[e] = inFlight[e] /\ e # eventOf[d]
      BY <2>2 DEF ReplayIInv, TypeOK, InFlightInv
    <3>2. /\ inFlight[e] \in Deliveries /\ eventOf[inFlight[e]] = e
          /\ pc[inFlight[e]] \in Working /\ inFlight[e] # d
      BY <2>2, <3>1 DEF ReplayIInv, TypeOK, InFlightInv
    <3>3. pc[inFlight[e]] # "joined"
      BY <3>2 DEF Working
    <3> QED
      BY <3>1, <3>2, <3>3
  <2> QED
    BY <2>1, <2>2 DEF InFlightInv
<1>5. JoinedIsServed'
  <2> SUFFICES ASSUME NEW c \in Deliveries, pc'[c] = "joined"
               PROVE  /\ joined'[c] \in Deliveries
                      /\ pc'[joined'[c]] \in Working
                      /\ eventOf'[joined'[c]] = eventOf'[c]
    BY DEF JoinedIsServed
  <2>1. pc[c] = "joined" /\ joined[c] # d
    BY DEF ReplayIInv, TypeOK
  <2>2. joined[c] \in Deliveries /\ pc[joined[c]] \in Working /\ eventOf[joined[c]] = eventOf[c]
    BY <2>1 DEF ReplayIInv, JoinedIsServed
  <2>3. pc[joined[c]] # "joined"
    BY <2>2 DEF Working
  <2> QED
    BY <2>1, <2>2, <2>3
<1>6. BuiltInv'
  BY DEF ReplayIInv, TypeOK, BuiltInv
<1>7. SentUnderClaim'
  BY <1>2, <1>3 DEF ReplayIInv, TypeOK, SentUnderClaim, Working
<1> QED
  BY <1>1, <1>4, <1>5, <1>6, <1>7 DEF ReplayIInv

(* A call that goes on from one step to the next keeps its place in the    *)
(* map.                                                                    *)
LEMMA BuildIInv ==
    ASSUME GatewayReplayAssumption, ReplayIInv,
           NEW d \in Deliveries, pc[d] \in {"queued", "sending"},
           NEW v \in Answers, NEW again \in BOOLEAN, again => v = "error",
           Build(d, v, again)
    PROVE  ReplayIInv'
<1> USE DEF GatewayReplayAssumption, Build, Goto
<1>1. TypeOK'
  BY DEF ReplayIInv, TypeOK, Working
<1>2. InFlightInv'
  BY DEF ReplayIInv, TypeOK, InFlightInv, Working
<1>3. JoinedIsServed'
  BY DEF ReplayIInv, TypeOK, JoinedIsServed, Working
<1>4. BuiltInv'
  BY DEF ReplayIInv, TypeOK, BuiltInv, Answers
<1>5. SentUnderClaim'
  BY DEF ReplayIInv, TypeOK, SentUnderClaim
<1> QED
  BY <1>1, <1>2, <1>3, <1>4, <1>5 DEF ReplayIInv

(* Every step keeps the invariant. *)
LEMMA NextReplay == GatewayReplayAssumption /\ ReplayIInv /\ [Next]_vars => ReplayIInv'
<1> SUFFICES ASSUME GatewayReplayAssumption, ReplayIInv, [Next]_vars PROVE ReplayIInv'
  OBVIOUS
<1> USE DEF GatewayReplayAssumption
<1>1. ASSUME NEW d \in Deliveries, Join(d) PROVE ReplayIInv'
  <2> USE <1>1 DEF Join, Goto
  <2>1. TypeOK'
    BY DEF ReplayIInv, TypeOK
  <2>2. InFlightInv'
    BY DEF ReplayIInv, TypeOK, InFlightInv, Working
  <2>3. JoinedIsServed'
    BY DEF ReplayIInv, TypeOK, InFlightInv, JoinedIsServed, Working
  <2>4. BuiltInv' /\ SentUnderClaim'
    BY DEF ReplayIInv, TypeOK, BuiltInv, SentUnderClaim
  <2> QED
    BY <2>1, <2>2, <2>3, <2>4 DEF ReplayIInv
<1>2. ASSUME NEW d \in Deliveries, Handle(d) PROVE ReplayIInv'
  <2> USE <1>2 DEF Handle, Goto
  <2>1. TypeOK'
    BY DEF ReplayIInv, TypeOK, Working
  <2>2. InFlightInv'
    BY DEF ReplayIInv, TypeOK, InFlightInv, Working
  <2>3. JoinedIsServed'
    BY DEF ReplayIInv, TypeOK, JoinedIsServed, Working
  <2>4. BuiltInv' /\ SentUnderClaim'
    BY DEF ReplayIInv, TypeOK, BuiltInv, SentUnderClaim
  <2> QED
    BY <2>1, <2>2, <2>3, <2>4 DEF ReplayIInv
<1>3. ASSUME NEW d \in Deliveries, Replayed(d) PROVE ReplayIInv'
  <2> DEFINE record == store[eventOf[d]]
             v == IF record.state = "completed" THEN record.reply ELSE "error"
  <2>1. v \in Answers
    BY DEF ReplayIInv, TypeOK, Record, Answers
  <2>2. Resolve(d, v) /\ pc[d] \in Working /\ UNCHANGED <<eventOf, joined, store, retry, sent, outcome>>
    BY <1>3 DEF Replayed, Working
  <2> HIDE DEF v
  <2> QED
    BY <2>1, <2>2, ResolveIInv DEF ReplayIInv, TypeOK
<1>4. ASSUME NEW d \in Deliveries, Claim(d) PROVE ReplayIInv'
  <2> USE <1>4 DEF Claim, Goto, SetRecord
  <2>1. TypeOK'
    BY DEF ReplayIInv, TypeOK, Working, Record
  <2>2. InFlightInv' /\ JoinedIsServed'
    BY DEF ReplayIInv, TypeOK, InFlightInv, JoinedIsServed, Working
  <2>3. BuiltInv' /\ SentUnderClaim'
    BY DEF ReplayIInv, TypeOK, BuiltInv, SentUnderClaim, Record
  <2> QED
    BY <2>1, <2>2, <2>3 DEF ReplayIInv
<1>5. ASSUME NEW d \in Deliveries, NotAdmitted(d) \/ NotForBot(d) \/ StaleFence(d) PROVE ReplayIInv'
  BY <1>5, BuildIInv DEF NotAdmitted, NotForBot, StaleFence, Answers
<1>6. ASSUME NEW d \in Deliveries, Rejected(d) PROVE ReplayIInv'
  <2>1. pc[d] \in Working /\ "error" \in Answers
    BY <1>6 DEF Rejected, Working, Answers
  <2> QED
    BY <1>6, <2>1, ResolveIInv DEF Rejected, ReplayIInv, TypeOK
<1>7. ASSUME NEW d \in Deliveries, Send(d) PROVE ReplayIInv'
  <2> USE <1>7 DEF Send, Goto
  <2>1. TypeOK'
    BY DEF ReplayIInv, TypeOK, Working
  <2>2. InFlightInv' /\ JoinedIsServed'
    BY DEF ReplayIInv, TypeOK, InFlightInv, JoinedIsServed, Working
  <2>3. BuiltInv' /\ SentUnderClaim'
    BY DEF ReplayIInv, TypeOK, BuiltInv, SentUnderClaim
  <2> QED
    BY <2>1, <2>2, <2>3 DEF ReplayIInv
<1>8. ASSUME NEW d \in Deliveries, Answered(d) PROVE ReplayIInv'
  <2>1. outcome[eventOf[d]] \in Answers
    BY <1>8 DEF Answered, ReplayIInv, TypeOK, Answers
  <2> QED
    BY <1>8, <2>1, BuildIInv DEF Answered
<1>9. ASSUME NEW d \in Deliveries, NEW b \in BOOLEAN, SendFails(d, b) PROVE ReplayIInv'
  BY <1>9, BuildIInv DEF SendFails, Answers
<1>10. ASSUME NEW d \in Deliveries, Store(d) PROVE ReplayIInv'
  <2>1. pc[d] \in Working /\ Resolve(d, reply[d]) /\ UNCHANGED <<eventOf, joined, retry, sent, outcome>>
    BY <1>10 DEF Store, Working
  <2>2. store' \in [Events -> Record] /\ \A e \in Events : e # eventOf[d] => store'[e] = store[e]
    BY <1>10 DEF Store, SetRecord, ReplayIInv, TypeOK, Record, NoRecord
  <2>3. reply[d] # None /\ reply[d] \in Answers
    BY <1>10 DEF Store, ReplayIInv, TypeOK, BuiltInv
  <2>4. \A e \in Events : store'[e].state = "completed" <=> store'[e].reply # None
    <3>1. store'[eventOf[d]].state = "completed" <=> store'[eventOf[d]].reply # None
      BY <1>10, <2>3 DEF Store, SetRecord, ReplayIInv, TypeOK, Record, NoRecord
    <3> QED
      BY <2>2, <3>1 DEF ReplayIInv, TypeOK
  <2> QED
    BY <2>1, <2>2, <2>3, <2>4, ResolveIInv
<1>11. ASSUME NEW e \in Events, Expire(e) PROVE ReplayIInv'
  <2> USE <1>11 DEF Expire
  <2>1. TypeOK'
    BY DEF ReplayIInv, TypeOK, Record, NoRecord
  <2>2. InFlightInv' /\ JoinedIsServed' /\ BuiltInv'
    BY DEF ReplayIInv, TypeOK, InFlightInv, JoinedIsServed, BuiltInv
  <2>3. SentUnderClaim'
    BY DEF ReplayIInv, TypeOK, InFlightInv, SentUnderClaim, Working
  <2> QED
    BY <2>1, <2>2, <2>3 DEF ReplayIInv
<1>12. ASSUME NEW e \in Events, NEW v \in Replies \cup {"ignored"}, Decide(e, v) PROVE ReplayIInv'
  BY <1>12 DEF Decide, ReplayIInv, TypeOK, InFlightInv, JoinedIsServed, BuiltInv, SentUnderClaim
<1>13. ASSUME Crash PROVE ReplayIInv'
  <2> USE <1>13 DEF Crash
  <2>1. TypeOK'
    BY DEF ReplayIInv, TypeOK
  <2>2. InFlightInv' /\ JoinedIsServed' /\ BuiltInv' /\ SentUnderClaim'
    BY DEF ReplayIInv, TypeOK, InFlightInv, JoinedIsServed, BuiltInv, SentUnderClaim, Working
  <2> QED
    BY <2>1, <2>2 DEF ReplayIInv
<1>14. CASE UNCHANGED vars
  BY <1>14 DEF vars, ReplayIInv, TypeOK, InFlightInv, JoinedIsServed, BuiltInv, SentUnderClaim
<1> QED
  BY <1>1, <1>2, <1>3, <1>4, <1>5, <1>6, <1>7, <1>8, <1>9, <1>10, <1>11, <1>12, <1>13, <1>14
  DEF Next, Step

(* The step that returns a reply has put it into the table: the only way   *)
(* from "storing" to a reply that is no error is completeEvent, and the    *)
(* claim it updates is still there.                                        *)
LEMMA StepReturnsStored ==
    GatewayReplayAssumption /\ LeaseCovers /\ ReplayIInv /\ [Next]_vars => ReturnsStored
<1> SUFFICES ASSUME GatewayReplayAssumption, LeaseCovers, ReplayIInv, [Next]_vars,
                    NEW d \in Deliveries,
                    pc[d] = "storing", pc'[d] = "answered", reply'[d] # "error"
             PROVE  store'[eventOf[d]] = [state |-> "completed", reply |-> reply'[d]]
  BY DEF ReturnsStored
<1>1. ASSUME NEW c \in Deliveries, Store(c)
      PROVE  store'[eventOf[d]] = [state |-> "completed", reply |-> reply'[d]]
  <2>1. c = d
    BY <1>1 DEF Store, Resolve, ReplayIInv, TypeOK
  <2>2. reply'[d] = reply[d] /\ ~retry[d]
    BY <1>1, <2>1 DEF Store, Resolve, ReplayIInv, TypeOK, BuiltInv
  <2>3. store[eventOf[d]].state = "processing"
    BY DEF ReplayIInv, SentUnderClaim
  <2> QED
    BY <1>1, <2>1, <2>2, <2>3 DEF Store, SetRecord, ReplayIInv, TypeOK
<1>2. ASSUME NEW c \in Deliveries, Replayed(c) \/ Rejected(c) PROVE FALSE
  BY <1>2 DEF Replayed, Rejected, Resolve, ReplayIInv, TypeOK
<1>3. ASSUME NEW c \in Deliveries,
             \/ Join(c) \/ Handle(c) \/ Claim(c) \/ NotAdmitted(c) \/ NotForBot(c) \/ Send(c)
             \/ Answered(c) \/ (\E b \in BOOLEAN : SendFails(c, b)) \/ StaleFence(c)
      PROVE  FALSE
  BY <1>3 DEF Join, Handle, Claim, NotAdmitted, NotForBot, Send, Answered, SendFails, StaleFence,
              Build, Goto, ReplayIInv, TypeOK
<1>4. ASSUME \/ \E e \in Events : Expire(e) \/ \E v \in Replies \cup {"ignored"} : Decide(e, v)
             \/ Crash
             \/ UNCHANGED vars
      PROVE  FALSE
  BY <1>4 DEF Expire, Decide, Crash, Working, vars, ReplayIInv, TypeOK
<1> QED
  BY <1>1, <1>2, <1>3, <1>4 DEF Next, Step

(* A reply that asks for another attempt is never left in the table. *)
LEMMA StepReleases ==
    GatewayReplayAssumption /\ LeaseCovers /\ ReplayIInv /\ [Next]_vars => ReturnsReleased
<1> SUFFICES ASSUME GatewayReplayAssumption, LeaseCovers, ReplayIInv, [Next]_vars,
                    NEW d \in Deliveries,
                    pc[d] = "storing", retry[d], pc'[d] = "answered"
             PROVE  store'[eventOf[d]].state # "completed"
  BY DEF ReturnsReleased
<1>1. store[eventOf[d]].state = "processing"
  BY DEF ReplayIInv, SentUnderClaim
<1>2. ASSUME NEW c \in Deliveries, Store(c) PROVE store'[eventOf[d]].state # "completed"
  <2>1. c = d
    BY <1>2 DEF Store, Resolve, ReplayIInv, TypeOK
  <2> QED
    BY <1>1, <1>2, <2>1 DEF Store, SetRecord, NoRecord, ReplayIInv, TypeOK
<1>3. ASSUME NEW c \in Deliveries, Replayed(c) \/ Rejected(c)
      PROVE  store'[eventOf[d]].state # "completed"
  BY <1>1, <1>3 DEF Replayed, Rejected
<1>4. ASSUME NEW c \in Deliveries,
             \/ Join(c) \/ Handle(c) \/ Claim(c) \/ NotAdmitted(c) \/ NotForBot(c) \/ Send(c)
             \/ Answered(c) \/ (\E b \in BOOLEAN : SendFails(c, b)) \/ StaleFence(c)
      PROVE  FALSE
  BY <1>4 DEF Join, Handle, Claim, NotAdmitted, NotForBot, Send, Answered, SendFails, StaleFence,
              Build, Goto, ReplayIInv, TypeOK
<1>5. ASSUME \/ \E e \in Events : Expire(e) \/ \E v \in Replies \cup {"ignored"} : Decide(e, v)
             \/ Crash
             \/ UNCHANGED vars
      PROVE  FALSE
  BY <1>5 DEF Expire, Decide, Crash, Working, vars, ReplayIInv, TypeOK
<1> QED
  BY <1>2, <1>3, <1>4, <1>5 DEF Next, Step

-----------------------------------------------------------------------------
(* The invariant holds in every reachable state of handle() and the table. *)
THEOREM ReplayInv ==
    ASSUME GatewayReplayAssumption
    PROVE  Spec => []ReplayIInv
<1>1. Init => ReplayIInv
  BY InitReplay
<1>2. ReplayIInv /\ [Next]_vars => ReplayIInv'
  BY NextReplay
<1> QED
  BY <1>1, <1>2, PTL DEF Spec

(* handle(): one call at a time works on an event, whatever crashes or     *)
(* expires, even when the lease is shorter than the call.                  *)
THEOREM ReplayOneCall ==
    ASSUME GatewayReplayAssumption
    PROVE  Spec => []OneCallPerEvent
  BY ReplayInv, IInvOneCall, PTL

(* handle(): a delivery that shares a promise is never left behind by the  *)
(* call that owns it.                                                      *)
THEOREM ReplayJoinedServed ==
    ASSUME GatewayReplayAssumption
    PROVE  Spec => []JoinedIsServed
<1>1. ReplayIInv => JoinedIsServed
  BY DEF ReplayIInv
<1> QED
  BY <1>1, ReplayInv, PTL

(* claimEvent: RyanAI is asked only under the claim of the event. *)
THEOREM ReplaySentUnderClaim ==
    ASSUME GatewayReplayAssumption
    PROVE  Spec => []SentUnderClaim
<1>1. ReplayIInv => SentUnderClaim
  BY DEF ReplayIInv
<1> QED
  BY <1>1, ReplayInv, PTL

(* completeEvent: a reply that may be repeated is stored before it is      *)
(* returned, provided the lease of a claim outlasts the call.              *)
THEOREM ReplayStoredBeforeReturned ==
    ASSUME GatewayReplayAssumption, LeaseCovers
    PROVE  Spec => StoredBeforeReturned
<1>1. ReplayIInv /\ [Next]_vars => [ReturnsStored]_vars
  BY StepReturnsStored
<1> QED
  BY <1>1, ReplayInv, PTL DEF Spec, StoredBeforeReturned

(* releaseEvent: a retryable failure never becomes the stored reply of its *)
(* event, under the same premise.                                          *)
THEOREM ReplayRetryableIsReleased ==
    ASSUME GatewayReplayAssumption, LeaseCovers
    PROVE  Spec => RetryableIsReleased
<1>1. ReplayIInv /\ [Next]_vars => [ReturnsReleased]_vars
  BY StepReleases
<1> QED
  BY <1>1, ReplayInv, PTL DEF Spec, RetryableIsReleased

-----------------------------------------------------------------------------
K == INSTANCE CalendarAlerts

(* The alerts of calendar events. *)

(* The slack of the grace window covers the jitter, the loop's own sleep and *)
(* the automations; the start is moved at most once, so that no earlier mark *)
(* names it; and a restart does not have the automations to wait for again.  *)
AlertsFit ==
    /\ Instances # {} /\ Jitter + TimerPoll + Work <= Slack
    /\ MaxEdits <= 1 /\ (MaxCrashes = 0 \/ Work = 0)

Meta  == [lead : Int, alerted : Int]
Event == [there : BOOLEAN, start : Starts, cancelled : BOOLEAN, meta : Meta]
Loop  == [pc : {"boot", "sleep", "work", "emit", "mark", "write"},
          next : Nat, until : Nat, start : Nat, meta : Meta]

AlertTypes ==
    /\ clock \in Nat /\ since \in Nat /\ edits \in Nat /\ crashes \in Nat
    /\ ev \in Event /\ form \in Meta /\ emitted \in [Starts -> Nat]
    /\ inst \in [Instances -> Loop]

(* A poll sets the next one when it begins, and ends within Work. *)
AlertTimes ==
    \A i \in Instances :
        /\ inst[i].next <= clock + Poll + Jitter
        /\ inst[i].pc = "work" => clock <= inst[i].until /\ inst[i].until <= clock + Work

(* A mark that names the present start was made by an alert for it. *)
Known(m) ==
    /\ m.alerted = ev.start => emitted[ev.start] > 0
    /\ edits = 0 => m.alerted \in {-1, -2, ev.start}

(* So was the mark that an instance is about to make, unless the event was   *)
(* moved into the future in between.                                         *)
Marking(i) ==
    /\ inst[i].start \in Starts
    /\ edits = 0 => inst[i].start = ev.start
    /\ inst[i].start = ev.start \/ clock <= ev.start
    /\ inst[i].pc # "emit" /\ inst[i].start = ev.start => emitted[ev.start] > 0

AlertMarks ==
    /\ Known(ev.meta) /\ Known(form)
    /\ \A i \in Instances :
          Known(inst[i].meta) /\ (inst[i].pc \in {"emit", "mark", "write"} => Marking(i))

(* The event has begun and its alert is still owed: *)
Owed ==
    /\ ev.there /\ ~ev.cancelled /\ ev.meta.lead >= 0 /\ since <= ev.start
    /\ ev.start < clock /\ emitted[ev.start] = 0

(* then every instance looks again before the window closes. *)
InTime(i) ==
    /\ inst[i].pc = "boot" => clock + Work <= ev.start + Poll + Slack
    /\ inst[i].pc = "sleep" => /\ inst[i].next <= ev.start + Poll + Jitter
                              /\ clock <= inst[i].next + TimerPoll
    /\ inst[i].pc = "work" => inst[i].until <= ev.start + Poll + Slack
    /\ inst[i].pc = "emit" => clock <= ev.start + Poll + Slack

AlertInv == AlertTypes /\ AlertTimes /\ AlertMarks /\ (Owed => \A i \in Instances : InTime(i))

(* AlertInv holds at the start: no instance has looked, nothing is marked. *)
LEMMA AlertInit == K!CalendarAlertsAssumption /\ K!Init => AlertInv
  BY DEF K!CalendarAlertsAssumption, K!Init, K!Boot, K!Unread, K!Never, K!NoAlert, AlertInv,
         AlertTypes,
       AlertTimes, AlertMarks, Known, Marking, Owed, InTime, Meta, Event, Loop

(* What the types say of the event, and of the loop of an instance. *)
LEMMA AlertEvent ==
  ASSUME K!CalendarAlertsAssumption, AlertInv
  PROVE  /\ clock \in Nat /\ since \in Nat /\ ev.start \in Starts /\ ev.start \in Nat
         /\ ev.meta \in Meta /\ emitted[ev.start] \in Nat
  <1>1. clock \in Nat /\ since \in Nat /\ ev \in Event /\ emitted \in [Starts -> Nat]
    BY DEF AlertInv, AlertTypes
  <1>2. ev.start \in Starts /\ ev.meta \in Meta
    BY <1>1 DEF Event
  <1>3. \A s \in Starts : s \in Nat /\ emitted[s] \in Nat
    BY <1>1 DEF K!CalendarAlertsAssumption
  <1>4. QED
    BY <1>1, <1>2, <1>3, Zenon

LEMMA AlertLoop ==
  ASSUME AlertInv, NEW i \in Instances
  PROVE  /\ inst \in [Instances -> Loop] /\ inst[i] \in Loop
         /\ inst[i].pc \in {"boot", "sleep", "work", "emit", "mark", "write"}
         /\ inst[i].next \in Nat /\ inst[i].until \in Nat /\ inst[i].start \in Nat
         /\ inst[i].meta \in Meta
  <1>1. inst \in [Instances -> Loop] /\ inst[i] \in Loop
    BY DEF AlertInv, AlertTypes
  <1>2. QED
    BY <1>1 DEF Loop

(* What a step of one instance does to its loop. *)
LEMMA AlertMoves ==
  ASSUME NEW i \in Instances, NEW c, NEW u \in Nat, NEW m \in Meta, inst \in [Instances -> Loop],
         c \in {"boot", "sleep", "work", "emit", "mark", "write"}, K!Moves(i, c, u, m)
  PROVE  /\ inst' \in [Instances -> Loop]
         /\ \A k \in Instances : k # i => inst'[k] = inst[k]
         /\ inst'[i] = [pc |-> c, next |-> inst[i].next, until |-> inst[i].until, start |-> u, meta |-> m]
  BY DEF K!Moves, Loop

(* A step of one instance leaves what is known of the others' marks. *)
LEMMA MarksHold ==
  ASSUME AlertMarks, NEW i \in Instances, UNCHANGED <<clock, ev, form, emitted, edits>>,
         \A k \in Instances : k # i => inst'[k] = inst[k],
         Known(inst[i].meta)', inst'[i].pc \in {"emit", "mark", "write"} => Marking(i)'
  PROVE  AlertMarks'
  <1>1. Known(ev.meta)' /\ Known(form)'
    BY DEF AlertMarks, Known
  <1>2. ASSUME NEW k \in Instances, k # i
        PROVE  Known(inst[k].meta)' /\ (inst'[k].pc \in {"emit", "mark", "write"} => Marking(k)')
    <2>1. inst'[k] = inst[k]
      BY <1>2
    <2>2. Known(inst[k].meta)'
      BY <2>1 DEF AlertMarks, Known
    <2>3. ASSUME inst'[k].pc \in {"emit", "mark", "write"} PROVE Marking(k)'
      <3>1. Marking(k)
        BY <2>1, <2>3 DEF AlertMarks
      <3>2. QED
        BY <2>1, <3>1 DEF Marking
    <2>4. QED
      BY <2>2, <2>3
  <1>3. QED
    BY <1>1, <1>2 DEF AlertMarks

(* Every step keeps AlertInv. *)
LEMMA AlertNext ==
  ASSUME K!CalendarAlertsAssumption, AlertsFit, AlertInv, [K!Next]_K!vars
  PROVE  AlertInv'
  <1> USE DEF K!CalendarAlertsAssumption, AlertsFit
  <1>1. CASE K!Tick
    <2>1. AlertTypes'
      BY <1>1 DEF AlertInv, AlertTypes, Meta, Event, Loop, K!Tick
    <2>2. AlertTimes'
      BY <1>1 DEF AlertInv, AlertTypes, AlertTimes, Meta, Loop, K!Tick
    <2>3. AlertMarks'
      BY <1>1 DEF AlertInv, AlertTypes, Meta, Event, Loop, AlertMarks, Known, Marking, K!Tick
    <2>4. Owed' => \A k \in Instances : InTime(k)'
      <3> SUFFICES ASSUME NEW k \in Instances, Owed'
                   PROVE  InTime(k)'
        OBVIOUS
      <3>1. /\ clock \in Nat /\ ev.start \in Nat /\ inst[k] \in Loop
            /\ inst[k].next \in Nat /\ inst[k].until \in Nat
        BY AlertEvent, AlertLoop
      <3>2. clock' = clock + 1 /\ UNCHANGED <<ev, inst, emitted, since>>
        BY <1>1 DEF K!Tick
      <3>3. \/ inst[k].pc = "sleep" /\ clock < inst[k].next + TimerPoll
            \/ inst[k].pc = "work" /\ clock < inst[k].until
        BY <1>1 DEF K!Tick
      <3>4. /\ inst[k].next <= clock + Poll + Jitter
            /\ inst[k].pc = "work" => inst[k].until <= clock + Work
        BY DEF AlertInv, AlertTimes
      <3>5. CASE Owed
        <4>1. InTime(k)
          BY <3>5 DEF AlertInv
        <4>2. QED
          BY <3>1, <3>2, <3>3, <4>1 DEF InTime
      <3>6. CASE ~Owed
        <4>1. ev.start = clock
          BY <3>1, <3>2, <3>6 DEF Owed
        <4>2. QED
          BY <3>1, <3>2, <3>3, <3>4, <4>1 DEF InTime
      <3>7. QED
        BY <3>5, <3>6
    <2>5. QED
      BY <2>1, <2>2, <2>3, <2>4 DEF AlertInv
  <1>2. CASE K!Cancel
    <2>1. AlertTypes'
      <3>1. ev' \in Event
        BY <1>2, Zenon DEF AlertInv, AlertTypes, Event, K!Cancel
      <3>2. QED
        BY <1>2, <3>1 DEF AlertInv, AlertTypes, K!Cancel, K!Edit
    <2>2. AlertTimes'
      BY <1>2 DEF AlertInv, AlertTypes, AlertTimes, Meta, Loop, K!Cancel, K!Edit
    <2>3. AlertMarks'
      BY <1>2 DEF AlertInv, AlertTypes, Meta, Event, Loop, AlertMarks, Known, Marking, K!Cancel,
             K!Edit
    <2>4. Owed' => \A k \in Instances : InTime(k)'
      BY <1>2 DEF AlertInv, AlertTypes, Meta, Event, Loop, AlertTimes, AlertMarks, Known, Marking,
             Owed, InTime, K!Cancel, K!Edit
    <2>5. QED
      BY <2>1, <2>2, <2>3, <2>4 DEF AlertInv
  <1>3. CASE K!Delete
    <2>1. AlertTypes'
      <3>1. ev' \in Event
        BY <1>3, Zenon DEF AlertInv, AlertTypes, Event, K!Delete
      <3>2. QED
        BY <1>3, <3>1 DEF AlertInv, AlertTypes, K!Delete, K!Edit
    <2>2. AlertTimes'
      BY <1>3 DEF AlertInv, AlertTypes, AlertTimes, Meta, Loop, K!Delete, K!Edit
    <2>3. AlertMarks'
      BY <1>3 DEF AlertInv, AlertTypes, Meta, Event, Loop, AlertMarks, Known, Marking, K!Delete,
             K!Edit
    <2>4. Owed' => \A k \in Instances : InTime(k)'
      BY <1>3 DEF AlertInv, AlertTypes, Meta, Event, Loop, AlertTimes, AlertMarks, Known, Marking,
             Owed, InTime, K!Delete, K!Edit
    <2>5. QED
      BY <2>1, <2>2, <2>3, <2>4 DEF AlertInv
  <1>4. CASE K!EditMetaRead
    <2>1. AlertTypes'
      BY <1>4 DEF AlertInv, AlertTypes, Meta, Event, Loop, K!EditMetaRead
    <2>2. AlertTimes'
      BY <1>4 DEF AlertInv, AlertTypes, AlertTimes, Meta, Loop, K!EditMetaRead
    <2>3. AlertMarks'
      BY <1>4 DEF AlertInv, AlertTypes, Meta, Event, Loop, AlertMarks, Known, Marking,
             K!EditMetaRead
    <2>4. Owed' => \A k \in Instances : InTime(k)'
      BY <1>4 DEF AlertInv, AlertTypes, Meta, Event, Loop, AlertTimes, AlertMarks, Known, Marking,
             Owed, InTime, K!EditMetaRead
    <2>5. QED
      BY <2>1, <2>2, <2>3, <2>4 DEF AlertInv
  <1>5. CASE K!EditMetaWrite
    <2>1. AlertTypes'
      BY <1>5 DEF AlertInv, AlertTypes, Meta, Event, Loop, K!EditMetaWrite, K!Unread, K!NoAlert
    <2>2. AlertTimes'
      BY <1>5 DEF AlertInv, AlertTypes, AlertTimes, Meta, Loop, K!EditMetaWrite, K!Unread, K!NoAlert
    <2>3. AlertMarks'
      BY <1>5 DEF AlertInv, AlertTypes, Meta, Event, Loop, AlertMarks, Known, Marking,
             K!EditMetaWrite, K!Unread, K!NoAlert
    <2>4. Owed' => \A k \in Instances : InTime(k)'
      BY <1>5 DEF AlertInv, AlertTypes, Meta, Event, Loop, AlertTimes, AlertMarks, Known, Marking,
             Owed, InTime, K!EditMetaWrite, K!Unread, K!NoAlert
    <2>5. QED
      BY <2>1, <2>2, <2>3, <2>4 DEF AlertInv
  <1>6. ASSUME NEW s \in Starts, K!EditStart(s)
       PROVE  AlertInv'
    <2>1. AlertTypes'
      BY <1>6 DEF AlertInv, AlertTypes, Meta, Event, Loop, K!EditStart, K!Edit
    <2>2. AlertTimes'
      BY <1>6 DEF AlertInv, AlertTypes, AlertTimes, Meta, Loop, K!EditStart, K!Edit
    <2>3. AlertMarks'
      <3>1. edits = 0 /\ edits' = 1 /\ ev.start \in Nat /\ s \in Nat /\ s # ev.start
        BY <1>6 DEF AlertInv, AlertTypes, Event, K!EditStart, K!Edit
      <3>2. ev'.start = s /\ ev'.meta = ev.meta /\ s > clock /\ UNCHANGED <<clock, inst, form>>
        BY <1>6 DEF AlertInv, AlertTypes, Event, K!EditStart
      <3>3. \A m : Known(m) => m.alerted # s
        BY <3>1 DEF Known
      <3>4. Known(ev.meta)' /\ Known(form)'
        BY <3>1, <3>2, <3>3 DEF AlertInv, AlertMarks, Known
      <3>5. ASSUME NEW i \in Instances
            PROVE  Known(inst[i].meta)' /\ (inst[i].pc \in {"emit", "mark", "write"} => Marking(i))'
        <4>1. Known(inst[i].meta)'
          BY <3>1, <3>2, <3>3 DEF AlertInv, AlertMarks, Known
        <4>2. CASE inst[i].pc \in {"emit", "mark", "write"}
          <5>1. Marking(i) /\ clock \in Nat
            BY <4>2, AlertEvent DEF AlertInv, AlertMarks
          <5>2. QED
            BY <3>1, <3>2, <4>1, <4>2, <5>1 DEF Marking
        <4>3. QED
          BY <3>2, <4>1, <4>2
      <3>6. QED
        BY <3>4, <3>5 DEF AlertMarks
    <2>4. Owed' => \A k \in Instances : InTime(k)'
      BY <1>6 DEF AlertInv, AlertTypes, Meta, Event, Loop, AlertTimes, AlertMarks, Known, Marking,
             Owed, InTime, K!EditStart, K!Edit
    <2>5. QED
      BY <2>1, <2>2, <2>3, <2>4 DEF AlertInv
  <1>7. ASSUME NEW i \in Instances, K!PollDue(i)
       PROVE  AlertInv'
    <2>1. AlertTypes'
      BY <1>7 DEF AlertInv, AlertTypes, Meta, Event, Loop, K!PollDue, K!Unread
    <2>2. AlertTimes'
      BY <1>7 DEF AlertInv, AlertTypes, AlertTimes, Meta, Loop, K!PollDue, K!Unread
    <2>3. AlertMarks'
      <3>1. UNCHANGED <<clock, ev, form, emitted, edits>> /\ \A k \in Instances : k # i => inst'[k] = inst[k]
        BY <1>7, AlertLoop DEF AlertInv, AlertTypes, K!PollDue
      <3>2. inst'[i].pc = "work" /\ inst'[i].meta = K!Unread
        BY <1>7 DEF AlertInv, AlertTypes, K!PollDue
      <3>3. Known(inst[i].meta)'
        BY <3>1, <3>2, AlertEvent DEF Known, K!Unread
      <3>4. QED
        BY <3>1, <3>2, <3>3, MarksHold DEF AlertInv
    <2>4. Owed' => \A k \in Instances : InTime(k)'
      <3> SUFFICES ASSUME NEW k \in Instances, Owed'
                   PROVE  InTime(k)'
        OBVIOUS
      <3>1. UNCHANGED <<clock, ev, emitted, since>>
        BY <1>7 DEF K!PollDue
      <3>2. Owed /\ InTime(k) /\ InTime(i)
        BY <3>1 DEF AlertInv, Owed
      <3>3. /\ clock \in Nat /\ ev.start \in Nat /\ inst[i].next \in Nat /\ inst[i].until \in Nat
            /\ inst[i].pc \in {"boot", "sleep", "work", "emit", "mark", "write"}
        BY AlertEvent, AlertLoop
      <3>4. PICK j \in 0 .. Jitter, w \in 0 .. Work :
              inst' = [inst EXCEPT ![i] = [pc |-> "work", next |-> clock + Poll + j, until |-> clock + w,
                                           start |-> 0, meta |-> K!Unread]]
        BY <1>7, Zenon DEF K!PollDue
      <3>5. CASE k # i
        <4>1. inst'[k] = inst[k]
          BY <3>4, <3>5 DEF AlertInv, AlertTypes
        <4>2. QED
          BY <3>1, <3>2, <4>1 DEF InTime
      <3>6. CASE k = i
        <4>1. inst'[i].pc = "work" /\ inst'[i].until = clock + w
          BY <3>4 DEF AlertInv, AlertTypes
        <4>2. clock + Work <= ev.start + Poll + Slack
          BY <1>7, <3>2, <3>3 DEF InTime, K!PollDue
        <4>3. QED
          BY <3>1, <3>3, <3>6, <4>1, <4>2 DEF InTime
      <3>7. QED
        BY <3>5, <3>6
    <2>5. QED
      BY <2>1, <2>2, <2>3, <2>4 DEF AlertInv
  <1>8. ASSUME NEW i \in Instances, K!Check(i)
       PROVE  AlertInv'
    <2>1. AlertTypes'
      <3>1. ev.start \in Nat /\ inst[i].start \in Nat /\ inst[i].meta \in Meta /\ inst \in [Instances -> Loop]
        BY AlertEvent, AlertLoop
      <3>2. inst' \in [Instances -> Loop]
        <4>1. CASE K!Moves(i, "emit", ev.start, inst[i].meta)
          <5> DEFINE u == ev.start
                     m == inst[i].meta
          <5>1. u \in Nat /\ m \in Meta /\ K!Moves(i, "emit", u, m)
            BY <3>1, <4>1
          <5> HIDE DEF u, m
          <5>2. QED
            BY <3>1, <5>1, AlertMoves, Zenon
        <4>2. CASE K!Moves(i, "sleep", inst[i].start, inst[i].meta)
          <5> DEFINE u == inst[i].start
                     m == inst[i].meta
          <5>1. u \in Nat /\ m \in Meta /\ K!Moves(i, "sleep", u, m)
            BY <3>1, <4>2
          <5> HIDE DEF u, m
          <5>2. QED
            BY <3>1, <5>1, AlertMoves, Zenon
        <4>3. QED
          BY <1>8, <4>1, <4>2 DEF K!Check
      <3>3. QED
        BY <1>8, <3>2 DEF AlertInv, AlertTypes, K!Check
    <2>2. AlertTimes'
      <3>1. /\ clock' = clock /\ \A k \in Instances : k # i => inst'[k] = inst[k]
            /\ inst'[i].next = inst[i].next /\ inst'[i].pc # "work"
        BY <1>8, AlertLoop DEF K!Check, K!Moves
      <3>2. QED
        BY <3>1 DEF AlertInv, AlertTimes
    <2>3. AlertMarks'
      <3>1. UNCHANGED <<clock, ev, form, emitted, edits>> /\ \A k \in Instances : k # i => inst'[k] = inst[k]
        BY <1>8, AlertLoop DEF K!Check, K!Moves
      <3>2. /\ inst'[i].meta = inst[i].meta
            /\ inst'[i].pc = "sleep" \/ (inst'[i].pc = "emit" /\ inst'[i].start = ev.start)
        <4>1. CASE K!Moves(i, "emit", ev.start, inst[i].meta)
          BY <4>1, AlertLoop DEF K!Moves
        <4>2. CASE K!Moves(i, "sleep", inst[i].start, inst[i].meta)
          BY <4>2, AlertLoop DEF K!Moves
        <4>3. QED
          BY <1>8, <4>1, <4>2 DEF K!Check
      <3>3. Known(inst[i].meta)'
        BY <3>1, <3>2 DEF AlertInv, AlertMarks, Known
      <3>4. inst'[i].pc \in {"emit", "mark", "write"} => Marking(i)'
        BY <3>1, <3>2, AlertEvent DEF Marking
      <3>5. QED
        BY <3>1, <3>3, <3>4, MarksHold DEF AlertInv
    <2>4. Owed' => \A k \in Instances : InTime(k)'
      <3> SUFFICES ASSUME NEW k \in Instances, Owed'
                   PROVE  InTime(k)'
        OBVIOUS
      <3>1. UNCHANGED <<clock, ev, emitted, since>>
        BY <1>8 DEF K!Check
      <3>2. Owed /\ InTime(k) /\ InTime(i)
        BY <3>1 DEF AlertInv, Owed
      <3>3. /\ clock \in Nat /\ ev.start \in Nat /\ inst[i].next \in Nat /\ inst[i].until \in Nat
            /\ inst[i].pc \in {"boot", "sleep", "work", "emit", "mark", "write"}
        BY AlertEvent, AlertLoop
      <3>4. inst[i].start \in Nat /\ inst[i].meta \in Meta /\ inst \in [Instances -> Loop] /\ ev.meta \in Meta
        BY AlertEvent, AlertLoop
      <3>5. clock <= ev.start + Poll + Slack
        BY <1>8, <3>2, <3>3 DEF InTime, K!Check
      <3>6. K!Upcoming
        BY <3>2, <3>3, <3>4, <3>5 DEF Owed, Meta, K!Upcoming, K!Grace
      <3>7. ev.meta.alerted # ev.start
        BY <3>2 DEF AlertInv, AlertMarks, Known, Owed
      <3>8. K!Moves(i, "emit", ev.start, inst[i].meta)
        BY <1>8, <3>6, <3>7 DEF K!Check
      <3>9. (k # i => inst'[k] = inst[k]) /\ inst'[i].pc = "emit"
        <4> DEFINE u == ev.start
                   m == inst[i].meta
        <4>1. u \in Nat /\ m \in Meta /\ K!Moves(i, "emit", u, m)
          BY <3>3, <3>4, <3>8
        <4> HIDE DEF u, m
        <4>2. /\ \A l \in Instances : l # i => inst'[l] = inst[l]
              /\ inst'[i] = [pc |-> "emit", next |-> inst[i].next, until |-> inst[i].until,
                             start |-> u, meta |-> m]
          BY <3>4, <4>1, AlertMoves
        <4>3. QED
          BY <4>2
      <3>10. QED
        BY <3>1, <3>2, <3>5, <3>9 DEF InTime
    <2>5. QED
      BY <2>1, <2>2, <2>3, <2>4 DEF AlertInv
  <1>9. ASSUME NEW i \in Instances, K!Emit(i)
       PROVE  AlertInv'
    <2>1. AlertTypes'
      <3>1. inst[i].start \in Nat /\ inst[i].meta \in Meta /\ inst \in [Instances -> Loop]
        BY AlertLoop
      <3>2. inst' \in [Instances -> Loop]
        <4>1. K!Moves(i, "mark", inst[i].start, inst[i].meta)
          BY <1>9 DEF K!Emit
        <4>2. QED
          <5> DEFINE u == inst[i].start
                     m == inst[i].meta
          <5>1. u \in Nat /\ m \in Meta /\ K!Moves(i, "mark", u, m)
            BY <3>1, <4>1
          <5> HIDE DEF u, m
          <5>2. QED
            BY <3>1, <5>1, AlertMoves, Zenon
      <3>3. inst[i].start \in Starts
        BY <1>9 DEF AlertInv, AlertMarks, Marking, K!Emit
      <3>4. emitted' \in [Starts -> Nat]
        <4>1. emitted \in [Starts -> Nat]
          BY DEF AlertInv, AlertTypes
        <4>2. QED
          <5> DEFINE u == inst[i].start
          <5>1. u \in Starts /\ emitted' = [emitted EXCEPT ![u] = emitted[u] + 1]
            BY <1>9, <3>3 DEF K!Emit
          <5> HIDE DEF u
          <5>2. QED
            BY <4>1, <5>1
      <3>5. QED
        BY <1>9, <3>2, <3>4 DEF AlertInv, AlertTypes, K!Emit
    <2>2. AlertTimes'
      BY <1>9 DEF AlertInv, AlertTypes, AlertTimes, Meta, Loop, K!Emit, K!Moves
    <2>a. /\ \A k \in Instances : k # i => inst'[k] = inst[k]
          /\ inst'[i].pc = "mark" /\ inst'[i].start = inst[i].start /\ inst'[i].meta = inst[i].meta
      BY <1>9, AlertLoop DEF K!Emit, K!Moves
    <2>b. UNCHANGED <<clock, ev, form, since, edits>> /\ Marking(i)
      BY <1>9 DEF AlertInv, AlertMarks, K!Emit
    <2>c. /\ emitted[ev.start] \in Nat /\ inst[i].start \in Starts
          /\ inst[i].start = ev.start => emitted'[ev.start] > 0
          /\ inst[i].start # ev.start => emitted'[ev.start] = emitted[ev.start]
      <3>1. emitted \in [Starts -> Nat] /\ ev.start \in Starts /\ inst[i].start \in Starts
        BY <2>b, AlertEvent DEF AlertInv, AlertTypes, Marking
      <3>2. emitted' = [emitted EXCEPT ![inst[i].start] = emitted[inst[i].start] + 1]
        BY <1>9 DEF K!Emit
      <3>3. emitted[ev.start] \in Nat
        BY <3>1
      <3>4. CASE inst[i].start = ev.start
        <4>1. emitted'[ev.start] = emitted[ev.start] + 1
          BY <3>1, <3>2, <3>4
        <4>2. emitted'[ev.start] > 0
          BY <3>3, <4>1
        <4>3. QED
          BY <3>1, <3>3, <3>4, <4>2
      <3>5. CASE inst[i].start # ev.start
        BY <3>1, <3>2, <3>3, <3>5
      <3>6. QED
        BY <3>4, <3>5
    <2>d. emitted[ev.start] > 0 => emitted'[ev.start] > 0
      BY <2>c
    <2>3. AlertMarks'
      <3>1. Known(ev.meta)' /\ Known(form)'
        BY <2>b, <2>d DEF AlertInv, AlertMarks, Known
      <3>2. ASSUME NEW k \in Instances PROVE Known(inst[k].meta)'
        <4>1. inst'[k].meta = inst[k].meta
          BY <2>a
        <4>2. QED
          BY <2>b, <2>d, <4>1 DEF AlertInv, AlertMarks, Known
      <3>3. Marking(i)'
        BY <2>a, <2>b, <2>c DEF Marking
      <3>4. ASSUME NEW k \in Instances, k # i, inst'[k].pc \in {"emit", "mark", "write"}
            PROVE  Marking(k)'
        <4>1. Marking(k) /\ inst'[k] = inst[k]
          BY <2>a, <3>4 DEF AlertInv, AlertMarks
        <4>2. QED
          BY <2>b, <2>d, <4>1 DEF Marking
      <3>5. QED
        BY <3>1, <3>2, <3>3, <3>4 DEF AlertMarks
    <2>4. Owed' => \A k \in Instances : InTime(k)'
      <3> SUFFICES ASSUME NEW k \in Instances, Owed'
                   PROVE  InTime(k)'
        OBVIOUS
      <3>1. ev'.start = ev.start /\ emitted'[ev.start] = 0
        BY <2>b DEF Owed
      <3>2. emitted[ev.start] = 0
        BY <2>c, <3>1
      <3>3. Owed
        BY <2>b, <3>2 DEF Owed
      <3>4. CASE k = i
        BY <2>a, <3>4 DEF InTime
      <3>5. CASE k # i
        BY <2>a, <2>b, <3>3, <3>5 DEF AlertInv, InTime
      <3>6. QED
        BY <3>4, <3>5
    <2>5. QED
      BY <2>1, <2>2, <2>3, <2>4 DEF AlertInv
  <1>10. ASSUME NEW i \in Instances, K!MarkRead(i)
       PROVE  AlertInv'
    <2>1. AlertTypes'
      BY <1>10 DEF AlertInv, AlertTypes, Meta, Event, Loop, K!MarkRead, K!Moves
    <2>2. AlertTimes'
      BY <1>10 DEF AlertInv, AlertTypes, AlertTimes, Meta, Loop, K!MarkRead, K!Moves
    <2>3. AlertMarks'
      <3>1. UNCHANGED <<clock, ev, form, emitted, edits>> /\ \A k \in Instances : k # i => inst'[k] = inst[k]
        BY <1>10, AlertLoop DEF K!MarkRead, K!Moves
      <3>2. /\ inst'[i].pc \in {"write", "sleep"} /\ inst'[i].start = inst[i].start
            /\ inst'[i].meta \in {ev.meta, inst[i].meta} /\ inst[i].pc = "mark"
        BY <1>10, AlertLoop DEF K!MarkRead, K!Moves
      <3>3. Known(inst[i].meta)'
        BY <3>1, <3>2 DEF AlertInv, AlertMarks, Known
      <3>4. Marking(i)
        BY <3>2 DEF AlertInv, AlertMarks
      <3>5. Marking(i)'
        BY <3>1, <3>2, <3>4 DEF Marking
      <3>6. QED
        BY <3>1, <3>3, <3>5, MarksHold DEF AlertInv
    <2>4. Owed' => \A k \in Instances : InTime(k)'
      <3> SUFFICES ASSUME NEW k \in Instances, Owed'
                   PROVE  InTime(k)'
        OBVIOUS
      <3>1. UNCHANGED <<clock, ev, emitted, since>>
        BY <1>10 DEF K!MarkRead
      <3>2. Owed /\ ev.there
        BY <3>1 DEF Owed
      <3>3. inst'[i].pc = "write" /\ (k # i => inst'[k] = inst[k])
        BY <1>10, <3>2, AlertLoop DEF K!MarkRead, K!Moves
      <3>4. CASE k = i
        BY <3>3, <3>4 DEF InTime
      <3>5. CASE k # i
        BY <3>1, <3>2, <3>3, <3>5 DEF AlertInv, InTime
      <3>6. QED
        BY <3>4, <3>5
    <2>5. QED
      BY <2>1, <2>2, <2>3, <2>4 DEF AlertInv
  <1>11. ASSUME NEW i \in Instances, K!MarkWrite(i)
       PROVE  AlertInv'
    <2>1. AlertTypes'
      BY <1>11 DEF AlertInv, AlertTypes, Meta, Event, Loop, K!MarkWrite, K!Moves, K!Unread
    <2>2. AlertTimes'
      BY <1>11 DEF AlertInv, AlertTypes, AlertTimes, Meta, Loop, K!MarkWrite, K!Moves, K!Unread
    <2>3. AlertMarks'
      BY <1>11 DEF AlertInv, AlertTypes, Meta, Event, Loop, AlertMarks, Known, Marking,
             K!MarkWrite, K!Moves, K!Unread
    <2>4. Owed' => \A k \in Instances : InTime(k)'
      BY <1>11 DEF AlertInv, AlertTypes, Meta, Event, Loop, AlertTimes, AlertMarks, Known,
             Marking, Owed, InTime, K!MarkWrite, K!Moves, K!Unread
    <2>5. QED
      BY <2>1, <2>2, <2>3, <2>4 DEF AlertInv
  <1>12. ASSUME NEW i \in Instances, K!Restart(i)
       PROVE  AlertInv'
    <2>1. AlertTypes'
      BY <1>12 DEF AlertInv, AlertTypes, Meta, Event, Loop, K!Restart, K!Boot, K!Unread
    <2>2. AlertTimes'
      BY <1>12 DEF AlertInv, AlertTypes, AlertTimes, Meta, Loop, K!Restart, K!Boot, K!Unread
    <2>3. AlertMarks'
      <3>1. UNCHANGED <<clock, ev, form, emitted, edits>> /\ \A k \in Instances : k # i => inst'[k] = inst[k]
        BY <1>12, AlertLoop DEF K!Restart
      <3>2. inst'[i].pc = "boot" /\ inst'[i].meta = K!Unread
        BY <1>12, AlertLoop DEF K!Restart, K!Boot
      <3>3. Known(inst[i].meta)'
        BY <3>1, <3>2, AlertEvent DEF Known, K!Unread
      <3>4. QED
        BY <3>1, <3>2, <3>3, MarksHold DEF AlertInv
    <2>4. Owed' => \A k \in Instances : InTime(k)'
      <3> SUFFICES ASSUME NEW k \in Instances, Owed'
                   PROVE  InTime(k)'
        OBVIOUS
      <3>1. UNCHANGED <<clock, ev, emitted, since>>
        BY <1>12 DEF K!Restart
      <3>2. Owed /\ InTime(k) /\ InTime(i)
        BY <3>1 DEF AlertInv, Owed
      <3>3. /\ clock \in Nat /\ ev.start \in Nat /\ inst[i].next \in Nat /\ inst[i].until \in Nat
            /\ inst[i].pc \in {"boot", "sleep", "work", "emit", "mark", "write"}
        BY AlertEvent, AlertLoop
      <3>4. Work = 0
        BY <1>12 DEF AlertInv, AlertTypes, K!Restart
      <3>5. (k # i => inst'[k] = inst[k]) /\ inst'[i].pc = "boot"
        BY <1>12 DEF AlertInv, AlertTypes, K!Restart, K!Boot
      <3>6. inst[i].pc \notin {"mark", "write"}
        <4> SUFFICES ASSUME inst[i].pc \in {"mark", "write"} PROVE FALSE
          OBVIOUS
        <4>1. Marking(i) /\ emitted[ev.start] = 0 /\ ev.start < clock
          BY <3>2 DEF AlertInv, AlertMarks, Owed
        <4>2. QED
          BY <3>3, <4>1 DEF Marking
      <3>7. clock <= ev.start + Poll + Slack
        <4>1. inst[i].pc = "work" => clock <= inst[i].until
          BY DEF AlertInv, AlertTimes
        <4>2. QED
          BY <3>2, <3>3, <3>6, <4>1 DEF InTime
      <3>8. CASE k = i
        <4>1. clock' + Work <= ev'.start + Poll + Slack
          BY <3>1, <3>3, <3>4, <3>7
        <4>2. QED
          BY <3>5, <3>8, <4>1 DEF InTime
      <3>9. CASE k # i
        BY <3>1, <3>2, <3>5, <3>9 DEF InTime
      <3>10. QED
        BY <3>8, <3>9
    <2>5. QED
      BY <2>1, <2>2, <2>3, <2>4 DEF AlertInv
  <1>13. CASE UNCHANGED K!vars
    <2>1. UNCHANGED <<clock, ev, inst, form, emitted, since, edits, crashes>>
      BY <1>13 DEF K!vars
    <2>2. AlertTypes' /\ AlertTimes'
      BY <2>1 DEF AlertInv, AlertTypes, AlertTimes
    <2>3. AlertMarks' /\ (Owed => \A i \in Instances : InTime(i))'
      BY <2>1 DEF AlertInv, AlertMarks, Known, Marking, Owed, InTime
    <2>4. QED
      BY <2>2, <2>3 DEF AlertInv
  <1>14. QED
    BY <1>1, <1>2, <1>3, <1>4, <1>5, <1>6, <1>7, <1>8, <1>9, <1>10, <1>11, <1>12, <1>13 DEF K!Next

(* _check_calendar_alerts: "Grace window covers one poll cycle + jitter so   *)
(* 'At time of event' alerts are not missed" holds for any intervals whose   *)
(* slack also covers the loop's own sleep and the automations that come      *)
(* first, for any number of instances, of restarts and of edits of meta.     *)
THEOREM AlertsNotMissed ==
  ASSUME K!CalendarAlertsAssumption, AlertsFit
  PROVE  K!Spec => []K!NotMissed
  <1>1. AlertInv /\ [K!Next]_K!vars => AlertInv'
    BY AlertNext
  <1>2. AlertInv => K!NotMissed
    <2> SUFFICES ASSUME AlertInv, ev.there, ~ev.cancelled, ev.meta.lead >= 0, since <= ev.start,
                        clock > ev.start + K!Grace, ~(emitted[ev.start] > 0)
                 PROVE  FALSE
      BY DEF K!NotMissed
    <2>1. clock \in Nat /\ ev.start \in Nat /\ emitted[ev.start] \in Nat
      BY AlertEvent
    <2>2. PICK i \in Instances : TRUE
      BY DEF AlertsFit
    <2>3. Owed
      BY <2>1 DEF Owed, K!Grace, K!CalendarAlertsAssumption
    <2>4. InTime(i)
      BY <2>2, <2>3 DEF AlertInv
    <2>5. /\ inst[i].pc \in {"boot", "sleep", "work", "emit", "mark", "write"}
          /\ inst[i].next \in Nat /\ inst[i].until \in Nat
      BY AlertLoop
    <2>6. inst[i].pc \notin {"mark", "write"}
      BY <2>1, <2>3 DEF AlertInv, AlertMarks, Marking, Owed, K!CalendarAlertsAssumption
    <2>7. inst[i].pc = "work" => clock <= inst[i].until
      BY DEF AlertInv, AlertTimes
    <2>8. QED
      BY <2>1, <2>4, <2>5, <2>6, <2>7 DEF InTime, K!Grace, K!CalendarAlertsAssumption, AlertsFit
  <1>3. QED
    BY <1>1, <1>2, AlertInit, PTL DEF K!Spec
=============================================================================
