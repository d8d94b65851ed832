------------------------ MODULE EventLedger_proofs ------------------------
(* Proofs about EventLedger, for every set of deliveries, events and       *)
(* workers and every number of fail-overs.                                 *)
EXTENDS EventLedger, TLAPS

(* What the provers may take for a step, on a busy machine. *)
USE ZenonT(3), SMTT(30), ZenonT(30)

(* What a delivery has recorded or answered is the row's response. *)
AnsweredInv ==
    \A r \in Requests :
        pc[r] \in {"recorded", "answered"} => /\ RowOf(r).status = "completed"
                                              /\ answer[r] = RowOf(r).response

(* The conversation lock has one holder. *)
LockInv ==
    LockSpans => \A r, s \in Requests :
                     (pc[r] \in Holding /\ pc[s] \in Holding) => r = s

(* The copy of the row a delivery works with is current while it owns it. *)
RecordInv ==
    \A r \in Requests :
        (Owns(r) /\ pc[r] \in {"claimed", "locked", "fresh"}) => record[r] = RowOf(r).target

(* The row points at the message that is being generated ... *)
TargetInv ==
    LockSpans => \A r \in Requests :
                     pc[r] \in {"targeted", "calling", "called"} => RowOf(r).target = r

(* ... and at one that was generated in full. *)
TextInv ==
    (LockSpans /\ ~moved) => \A r \in Requests :
                                 message[r] = "text" => RowOf(r).target = r

(* Only a delivery whose event has no full reply goes on to the model. *)
FreshInv ==
    (LockSpans /\ ~moved) =>
        \A r, s \in Requests :
            (pc[s] = "fresh" /\ Owns(s) /\ eventOf[r] = eventOf[s]) => message[r] # "text"

(* A message is written by the call that generates it, at its end. *)
AbsentInv ==
    \A r \in Requests :
        pc[r] \in {"new", "fenced", "claimed", "locked", "fresh", "targeted", "calling"}
            => message[r] = "absent"

(* The inductive invariant. *)
IInv ==
    /\ TypeOK
    /\ AnsweredInv
    /\ LockInv
    /\ RecordInv
    /\ TargetInv
    /\ TextInv
    /\ FreshInv
    /\ AbsentInv

-----------------------------------------------------------------------------
(* A full reply is the row's target, so an event has one. *)
LEMMA IInvNoSecond == IInv => NoSecondFullReply
  BY DEF IInv, TypeOK, TextInv, NoSecondFullReply, RowOf

LEMMA IInvStable == IInv => StableReply
  BY DEF IInv, AnsweredInv, StableReply

(* The initial states satisfy the invariant. *)
LEMMA InitIInv == Init => IInv
<1> SUFFICES ASSUME Init PROVE IInv
  OBVIOUS
<1> USE EventLedgerAssumption DEF Init
<1>1. NoRow \in Row
  BY DEF NoRow, Row, Replies
<1>2. TypeOK
  <2>1. row \in [Events -> Row]
    BY <1>1
  <2>2. \A e \in Events : row[e].status = "completed" <=> row[e].response # None
    BY DEF NoRow
  <2>3. /\ epochOf \in [Requests -> 0 .. MaxEpoch]
        /\ epoch \in 0 .. MaxEpoch
    BY DEF EventLedgerAssumption
  <2>4. pc \in [Requests -> {"new", "fenced", "failing"} \cup Leased \cup Ended]
    OBVIOUS
  <2>5. /\ record \in [Requests -> Requests \cup {None}]
        /\ message \in [Requests -> MessageStates]
        /\ answer \in [Requests -> Replies \cup {None}]
    BY DEF MessageStates
  <2> QED
    BY <2>1, <2>2, <2>3, <2>4, <2>5 DEF TypeOK
<1>3. AnsweredInv /\ LockInv /\ RecordInv /\ TargetInv /\ TextInv /\ FreshInv /\ AbsentInv
  BY DEF AnsweredInv, LockInv, RecordInv, TargetInv, TextInv, FreshInv, AbsentInv,
         Holding, Leased
<1> QED
  BY <1>2, <1>3 DEF IInv

(* A delivery that leaves the protocol changes nothing but its own place.  *)
LEMMA LeaveIInv ==
    ASSUME IInv, NEW r \in Requests,
           NEW l \in {"failing", "failed", "refused", "ignored"},
           Goto(r, l), UNCHANGED <<delivery, row, record, message, answer>>
    PROVE  IInv'
<1> USE DEF Goto, delivery
<1>1. TypeOK'
  BY DEF IInv, TypeOK, Leased, Ended
<1>2. AnsweredInv'
  BY DEF IInv, TypeOK, AnsweredInv, RowOf
<1>3. LockInv'
  BY DEF IInv, TypeOK, LockInv, Holding, Leased
<1>4. RecordInv'
  BY DEF IInv, TypeOK, RecordInv, RowOf, Owns
<1>5. TargetInv'
  BY DEF IInv, TypeOK, TargetInv, RowOf
<1>6. TextInv'
  BY DEF IInv, TypeOK, TextInv, RowOf
<1>7. FreshInv'
  BY DEF IInv, TypeOK, FreshInv, RowOf, Owns
<1>8. AbsentInv'
  BY DEF IInv, TypeOK, AbsentInv
<1> QED
  BY <1>1, <1>2, <1>3, <1>4, <1>5, <1>6, <1>7, <1>8 DEF IInv



(* An action that writes the row of its event leaves the others alone. *)
LEMMA RowUpdate ==
    ASSUME TypeOK, NEW e \in Events, NEW new \in Row,
           row' = [row EXCEPT ![e] = new]
    PROVE  /\ row' \in [Events -> Row]
           /\ row'[e] = new
           /\ \A f \in Events \ {e} : row'[f] = row[f]
  BY DEF TypeOK

(* The age of a row is of no concern to the invariant. *)
LEMMA AgeIInv ==
    ASSUME IInv, NEW e \in Events, NEW b \in BOOLEAN,
           row' = [row EXCEPT ![e] = [row[e] EXCEPT !.lapsed = b]],
           UNCHANGED <<delivery, pc, record, message, answer>>
    PROVE  IInv'
<1> DEFINE new == [row[e] EXCEPT !.lapsed = b]
<1>1. /\ new \in Row
      /\ new.status = row[e].status
      /\ new.nonce = row[e].nonce
      /\ new.target = row[e].target
      /\ new.response = row[e].response
  <2>1. row[e] \in Row
    BY DEF IInv, TypeOK
  <2> QED
    BY <2>1 DEF Row
<1>2. /\ row' \in [Events -> Row]
      /\ \A f \in Events \ {e} : row'[f] = row[f]
      /\ row'[e].status = row[e].status
      /\ row'[e].nonce = row[e].nonce
      /\ row'[e].target = row[e].target
      /\ row'[e].response = row[e].response
  <2>1. row' = [row EXCEPT ![e] = new]
    BY <1>1 
  <2> HIDE DEF new
  <2> QED
    BY <1>1, <2>1, RowUpdate DEF IInv
<1>3. /\ UNCHANGED <<eventOf, workerOf, epochOf, epoch, moved, pc, record, message, answer>>
  BY DEF delivery
<1>4. TypeOK'
  <2>1. \A f \in Events : row'[f].status = "completed" <=> row'[f].response # None
    BY <1>2, <1>3, EventLedgerAssumption DEF IInv, TypeOK, RowOf, Owns, Replies
  <2>2. pc' \in [Requests -> {"new", "fenced", "failing"} \cup Leased \cup Ended]
    BY <1>3 DEF IInv, TypeOK, Leased, Ended
  <2>3. UNCHANGED <<record, answer, message>>
    BY <1>3
  <2> QED
    BY <1>2, <1>3, <2>1, <2>2, <2>3 DEF IInv, TypeOK
<1>5. AnsweredInv'
  BY <1>2, <1>3 DEF IInv, TypeOK, AnsweredInv, RowOf, Owns
<1>6. LockInv'
  BY <1>2, <1>3 DEF IInv, TypeOK, LockInv, Holding, Leased
<1>7. RecordInv'
  BY <1>2, <1>3 DEF IInv, TypeOK, RecordInv, RowOf, Owns
<1>8. TargetInv'
  BY <1>2, <1>3 DEF IInv, TypeOK, TargetInv, RowOf, Holding, Leased, LockInv
<1>9. TextInv'
  BY <1>2, <1>3 DEF IInv, TypeOK, TextInv, RowOf
<1>10. FreshInv'
  BY <1>2, <1>3 DEF IInv, TypeOK, FreshInv, RowOf, Owns
<1>11. AbsentInv'
  BY <1>2, <1>3 DEF IInv, TypeOK, AbsentInv
<1> QED
  BY <1>4, <1>5, <1>6, <1>7, <1>8, <1>9, <1>10, <1>11 DEF IInv

(* A delivery that set the target still points at its message when it calls. *)
LEMMA BeginCallIInv ==
    ASSUME IInv, NEW r \in Requests, BeginCall(r), Owns(r)
    PROVE  IInv'
<1>0. PICK e \in Events : e = eventOf[r]
  BY DEF IInv, TypeOK
<1> DEFINE new == [row[e] EXCEPT !.lapsed = FALSE]
<1>1. /\ new \in Row
      /\ new.status = row[e].status
      /\ new.nonce = row[e].nonce
      /\ new.target = row[e].target
      /\ new.response = row[e].response
  <2>1. row[e] \in Row
    BY DEF IInv, TypeOK
  <2> QED
    BY <2>1 DEF Row
<1>2. /\ row' \in [Events -> Row]
      /\ \A f \in Events \ {e} : row'[f] = row[f]
      /\ row'[e].status = row[e].status
      /\ row'[e].nonce = row[e].nonce
      /\ row'[e].target = row[e].target
      /\ row'[e].response = row[e].response
  <2>1. row' = [row EXCEPT ![e] = new]
    BY <1>0, <1>1 DEF SetRow, RowOf, Owns, BeginCall
  <2> HIDE DEF new
  <2> QED
    BY <1>1, <2>1, RowUpdate DEF IInv
<1>3. /\ pc' = [pc EXCEPT ![r] = "calling"]
      /\ UNCHANGED <<eventOf, workerOf, epochOf, epoch, moved, record, message, answer>>
      /\ Owns(r) /\ pc[r] = "targeted"
  BY DEF Goto, Owns, delivery, BeginCall
<1>4. TypeOK'
  <2>1. \A f \in Events : row'[f].status = "completed" <=> row'[f].response # None
    BY <1>0, <1>2, <1>3, EventLedgerAssumption DEF IInv, TypeOK, RowOf, Owns, Replies
  <2>2. pc' \in [Requests -> {"new", "fenced", "failing"} \cup Leased \cup Ended]
    BY <1>3 DEF IInv, TypeOK, Leased, Ended
  <2>3. UNCHANGED <<record, answer, message>>
    BY <1>3
  <2> QED
    BY <1>2, <1>3, <2>1, <2>2, <2>3 DEF IInv, TypeOK
<1>5. AnsweredInv'
  BY <1>0, <1>2, <1>3 DEF IInv, TypeOK, AnsweredInv, RowOf, Owns
<1>6. LockInv'
  BY <1>0, <1>2, <1>3 DEF IInv, TypeOK, LockInv, Holding, Leased
<1>7. RecordInv'
  BY <1>0, <1>2, <1>3 DEF IInv, TypeOK, RecordInv, RowOf, Owns
<1>8. TargetInv'
  BY <1>0, <1>2, <1>3 DEF IInv, TypeOK, TargetInv, RowOf, Holding, Leased, LockInv
<1>9. TextInv'
  BY <1>0, <1>2, <1>3 DEF IInv, TypeOK, TextInv, RowOf
<1>10. FreshInv'
  BY <1>0, <1>2, <1>3 DEF IInv, TypeOK, FreshInv, RowOf, Owns
<1>11. AbsentInv'
  BY <1>0, <1>2, <1>3 DEF IInv, TypeOK, AbsentInv
<1> QED
  BY <1>4, <1>5, <1>6, <1>7, <1>8, <1>9, <1>10, <1>11 DEF IInv

(* Recording a reply: only the owner does. *)
LEMMA CompleteIInv ==
    ASSUME IInv, NEW r \in Requests, NEW v \in Replies,
           pc[r] \in {"locked", "fresh", "called"}, Owns(r), Complete(r, v),
           UNCHANGED <<delivery, record, message>>
    PROVE  IInv'
<1>0. PICK e \in Events : e = eventOf[r]
  BY DEF IInv, TypeOK
<1> DEFINE new == [row[e] EXCEPT !.status = "completed", !.response = v, !.lapsed = FALSE]
<1>1. /\ new \in Row
      /\ new.status = "completed"
      /\ new.nonce = row[e].nonce
      /\ new.target = row[e].target
      /\ new.response = v
  <2>1. row[e] \in Row
    BY DEF IInv, TypeOK
  <2> QED
    BY <2>1 DEF Row
<1>2. /\ row' \in [Events -> Row]
      /\ \A f \in Events \ {e} : row'[f] = row[f]
      /\ row'[e].status = "completed"
      /\ row'[e].nonce = row[e].nonce
      /\ row'[e].target = row[e].target
      /\ row'[e].response = v
  <2>1. row' = [row EXCEPT ![e] = new]
    BY <1>0, <1>1 DEF SetRow, RowOf, Owns, Complete
  <2> HIDE DEF new
  <2> QED
    BY <1>1, <2>1, RowUpdate DEF IInv
<1>3. /\ pc' = [pc EXCEPT ![r] = "recorded"]
      /\ answer' = [answer EXCEPT ![r] = v]
      /\ UNCHANGED <<eventOf, workerOf, epochOf, epoch, moved, record, message>>
      /\ Owns(r)
  BY DEF Goto, Owns, delivery, Complete
<1>4. TypeOK'
  <2>1. \A f \in Events : row'[f].status = "completed" <=> row'[f].response # None
    BY <1>0, <1>2, <1>3, EventLedgerAssumption DEF IInv, TypeOK, RowOf, Owns, Replies
  <2>2. pc' \in [Requests -> {"new", "fenced", "failing"} \cup Leased \cup Ended]
    BY <1>3 DEF IInv, TypeOK, Leased, Ended
  <2>3. answer' \in [Requests -> Replies \cup {None}]
    BY <1>3 DEF IInv, TypeOK
  <2> QED
    BY <1>2, <1>3, <2>1, <2>2, <2>3 DEF IInv, TypeOK
<1>5. AnsweredInv'
  BY <1>0, <1>2, <1>3 DEF IInv, TypeOK, AnsweredInv, RowOf, Owns
<1>6. LockInv'
  BY <1>0, <1>2, <1>3 DEF IInv, TypeOK, LockInv, Holding, Leased
<1>7. RecordInv'
  BY <1>0, <1>2, <1>3 DEF IInv, TypeOK, RecordInv, RowOf, Owns
<1>8. TargetInv'
  BY <1>0, <1>2, <1>3 DEF IInv, TypeOK, TargetInv, RowOf, Holding, Leased, LockInv
<1>9. TextInv'
  BY <1>0, <1>2, <1>3 DEF IInv, TypeOK, TextInv, RowOf
<1>10. FreshInv'
  BY <1>0, <1>2, <1>3 DEF IInv, TypeOK, FreshInv, RowOf, Owns
<1>11. AbsentInv'
  BY <1>0, <1>2, <1>3 DEF IInv, TypeOK, AbsentInv
<1> QED
  BY <1>4, <1>5, <1>6, <1>7, <1>8, <1>9, <1>10, <1>11 DEF IInv

(* Failing an event that the delivery owns. *)
LEMMA FailIInv ==
    ASSUME IInv, NEW r \in Requests, FailEvent(r), Owns(r)
    PROVE  IInv'
<1>0. PICK e \in Events : e = eventOf[r]
  BY DEF IInv, TypeOK
<1> DEFINE new == [row[e] EXCEPT !.status = "failed", !.lapsed = FALSE]
<1>1. /\ new \in Row
      /\ new.status = "failed"
      /\ new.nonce = row[e].nonce
      /\ new.target = row[e].target
      /\ new.response = row[e].response
  <2>1. row[e] \in Row
    BY DEF IInv, TypeOK
  <2> QED
    BY <2>1 DEF Row
<1>2. /\ row' \in [Events -> Row]
      /\ \A f \in Events \ {e} : row'[f] = row[f]
      /\ row'[e].status = "failed"
      /\ row'[e].nonce = row[e].nonce
      /\ row'[e].target = row[e].target
      /\ row'[e].response = row[e].response
  <2>1. row' = [row EXCEPT ![e] = new]
    BY <1>0, <1>1 DEF SetRow, RowOf, Owns, FailEvent
  <2> HIDE DEF new
  <2> QED
    BY <1>1, <2>1, RowUpdate DEF IInv
<1>3. /\ pc' = [pc EXCEPT ![r] = "failed"]
      /\ UNCHANGED <<eventOf, workerOf, epochOf, epoch, moved, record, message, answer>>
      /\ Owns(r) /\ pc[r] = "failing"
  BY DEF Goto, Owns, delivery, FailEvent
<1>4. TypeOK'
  <2>1. \A f \in Events : row'[f].status = "completed" <=> row'[f].response # None
    BY <1>0, <1>2, <1>3, EventLedgerAssumption DEF IInv, TypeOK, RowOf, Owns, Replies
  <2>2. pc' \in [Requests -> {"new", "fenced", "failing"} \cup Leased \cup Ended]
    BY <1>3 DEF IInv, TypeOK, Leased, Ended
  <2>3. UNCHANGED <<record, answer, message>>
    BY <1>3
  <2> QED
    BY <1>2, <1>3, <2>1, <2>2, <2>3 DEF IInv, TypeOK
<1>5. AnsweredInv'
  BY <1>0, <1>2, <1>3 DEF IInv, TypeOK, AnsweredInv, RowOf, Owns
<1>6. LockInv'
  BY <1>0, <1>2, <1>3 DEF IInv, TypeOK, LockInv, Holding, Leased
<1>7. RecordInv'
  BY <1>0, <1>2, <1>3 DEF IInv, TypeOK, RecordInv, RowOf, Owns
<1>8. TargetInv'
  BY <1>0, <1>2, <1>3 DEF IInv, TypeOK, TargetInv, RowOf, Holding, Leased, LockInv
<1>9. TextInv'
  BY <1>0, <1>2, <1>3 DEF IInv, TypeOK, TextInv, RowOf
<1>10. FreshInv'
  BY <1>0, <1>2, <1>3 DEF IInv, TypeOK, FreshInv, RowOf, Owns
<1>11. AbsentInv'
  BY <1>0, <1>2, <1>3 DEF IInv, TypeOK, AbsentInv
<1> QED
  BY <1>4, <1>5, <1>6, <1>7, <1>8, <1>9, <1>10, <1>11 DEF IInv

(* Claiming: the owner's copy of the row is current. *)
LEMMA ClaimIInv ==
    ASSUME IInv, NEW r \in Requests, Claim(r)
    PROVE  IInv'
<1>0. PICK e \in Events : e = eventOf[r]
  BY DEF IInv, TypeOK
<1> DEFINE new == [row[e] EXCEPT !.status = "processing", !.nonce = r,
                                !.hash = epochOf[r], !.lapsed = FALSE]
<1>1. /\ new \in Row
      /\ new.status = "processing"
      /\ new.nonce = r
      /\ new.target = row[e].target
      /\ new.response = row[e].response
  <2>1. row[e] \in Row /\ epochOf[r] \in 0 .. MaxEpoch
    BY DEF IInv, TypeOK
  <2> QED
    BY <2>1 DEF Row
<1>2. /\ row' \in [Events -> Row]
      /\ \A f \in Events \ {e} : row'[f] = row[f]
      /\ row'[e].status = "processing"
      /\ row'[e].nonce = r
      /\ row'[e].target = row[e].target
      /\ row'[e].response = row[e].response
  <2>1. row' = [row EXCEPT ![e] = new]
    BY <1>0, <1>1 DEF SetRow, RowOf, Owns, Claim, Claimable
  <2> HIDE DEF new
  <2> QED
    BY <1>1, <2>1, RowUpdate DEF IInv
<1>3. /\ pc' = [pc EXCEPT ![r] = "claimed"]
      /\ record' = [record EXCEPT ![r] = RowOf(r).target]
      /\ UNCHANGED <<eventOf, workerOf, epochOf, epoch, moved, message, answer>>
      /\ pc[r] = "fenced" /\ RowOf(r).status # "completed"
  BY DEF Goto, Owns, delivery, Claim, Claimable
<1>4. TypeOK'
  <2>1. \A f \in Events : row'[f].status = "completed" <=> row'[f].response # None
    BY <1>0, <1>2, <1>3, EventLedgerAssumption DEF IInv, TypeOK, RowOf, Owns, Replies
  <2>2. pc' \in [Requests -> {"new", "fenced", "failing"} \cup Leased \cup Ended]
    BY <1>3 DEF IInv, TypeOK, Leased, Ended
  <2>3. record' \in [Requests -> Requests \cup {None}]
    <3>1. row[e] \in Row
      BY DEF IInv, TypeOK
    <3>2. row[e].target \in Requests \cup {None}
      BY <3>1 DEF Row
    <3> QED
      BY <1>0, <1>3, <3>2 DEF IInv, TypeOK, RowOf
  <2> QED
    BY <1>2, <1>3, <2>1, <2>2, <2>3 DEF IInv, TypeOK
<1>5. AnsweredInv'
  BY <1>0, <1>2, <1>3 DEF IInv, TypeOK, AnsweredInv, RowOf, Owns
<1>6. LockInv'
  BY <1>0, <1>2, <1>3 DEF IInv, TypeOK, LockInv, Holding, Leased
<1>7. RecordInv'
  BY <1>0, <1>2, <1>3 DEF IInv, TypeOK, RecordInv, RowOf, Owns
<1>8. TargetInv'
  BY <1>0, <1>2, <1>3 DEF IInv, TypeOK, TargetInv, RowOf, Holding, Leased, LockInv
<1>9. TextInv'
  BY <1>0, <1>2, <1>3 DEF IInv, TypeOK, TextInv, RowOf
<1>10. FreshInv'
  BY <1>0, <1>2, <1>3 DEF IInv, TypeOK, FreshInv, RowOf, Owns
<1>11. AbsentInv'
  BY <1>0, <1>2, <1>3 DEF IInv, TypeOK, AbsentInv
<1> QED
  BY <1>4, <1>5, <1>6, <1>7, <1>8, <1>9, <1>10, <1>11 DEF IInv

(* Setting the target: there is no full reply it could displace. *)
LEMMA SetTargetIInv ==
    ASSUME IInv, NEW r \in Requests, SetTarget(r), Owns(r)
    PROVE  IInv'
<1>0. PICK e \in Events : e = eventOf[r]
  BY DEF IInv, TypeOK
<1> DEFINE new == [row[e] EXCEPT !.target = r, !.lapsed = FALSE]
<1>1. /\ new \in Row
      /\ new.status = row[e].status
      /\ new.nonce = row[e].nonce
      /\ new.target = r
      /\ new.response = row[e].response
  <2>1. row[e] \in Row
    BY DEF IInv, TypeOK
  <2> QED
    BY <2>1 DEF Row
<1>2. /\ row' \in [Events -> Row]
      /\ \A f \in Events \ {e} : row'[f] = row[f]
      /\ row'[e].status = row[e].status
      /\ row'[e].nonce = row[e].nonce
      /\ row'[e].target = r
      /\ row'[e].response = row[e].response
  <2>1. row' = [row EXCEPT ![e] = new]
    BY <1>0, <1>1 DEF SetRow, RowOf, Owns, SetTarget
  <2> HIDE DEF new
  <2> QED
    BY <1>1, <2>1, RowUpdate DEF IInv
<1>3. /\ pc' = [pc EXCEPT ![r] = "targeted"]
      /\ UNCHANGED <<eventOf, workerOf, epochOf, epoch, moved, record, message, answer>>
      /\ Owns(r) /\ pc[r] = "fresh"
  BY DEF Goto, Owns, delivery, SetTarget
<1>4. TypeOK'
  <2>1. \A f \in Events : row'[f].status = "completed" <=> row'[f].response # None
    BY <1>0, <1>2, <1>3, EventLedgerAssumption DEF IInv, TypeOK, RowOf, Owns, Replies
  <2>2. pc' \in [Requests -> {"new", "fenced", "failing"} \cup Leased \cup Ended]
    BY <1>3 DEF IInv, TypeOK, Leased, Ended
  <2>3. UNCHANGED <<record, answer, message>>
    BY <1>3
  <2> QED
    BY <1>2, <1>3, <2>1, <2>2, <2>3 DEF IInv, TypeOK
<1>5. AnsweredInv'
  BY <1>0, <1>2, <1>3 DEF IInv, TypeOK, AnsweredInv, RowOf, Owns
<1>6. LockInv'
  BY <1>0, <1>2, <1>3 DEF IInv, TypeOK, LockInv, Holding, Leased
<1>7. RecordInv'
  BY <1>0, <1>2, <1>3 DEF IInv, TypeOK, RecordInv, RowOf, Owns
<1>8. TargetInv'
  BY <1>0, <1>2, <1>3 DEF IInv, TypeOK, TargetInv, RowOf, Holding, Leased, LockInv
<1>9. TextInv'
  BY <1>0, <1>2, <1>3 DEF IInv, TypeOK, TextInv, FreshInv, RowOf
<1>10. FreshInv'
  BY <1>0, <1>2, <1>3 DEF IInv, TypeOK, FreshInv, RowOf, Owns
<1>11. AbsentInv'
  BY <1>0, <1>2, <1>3 DEF IInv, TypeOK, AbsentInv
<1> QED
  BY <1>4, <1>5, <1>6, <1>7, <1>8, <1>9, <1>10, <1>11 DEF IInv

(* The end of a call: the row points at the message that is written, and *)
(* no other delivery is past the lock.                                    *)
LEMMA MessageIInv ==
    ASSUME IInv, NEW r \in Requests, NEW m \in MessageStates, NEW l \in {"called", "failing"},
           pc[r] = "calling", Goto(r, l), message' = [message EXCEPT ![r] = m],
           UNCHANGED <<delivery, row, record, answer>>
    PROVE  IInv'
<1> USE DEF Goto, delivery
<1>1. TypeOK'
  BY DEF IInv, TypeOK, Leased, Ended
<1>2. AnsweredInv'
  BY DEF IInv, TypeOK, AnsweredInv, RowOf
<1>3. LockInv'
  BY DEF IInv, TypeOK, LockInv, Holding, Leased
<1>4. RecordInv'
  BY DEF IInv, TypeOK, RecordInv, RowOf, Owns
<1>5. TargetInv'
  BY DEF IInv, TypeOK, TargetInv, RowOf
<1>6. TextInv'
  BY DEF IInv, TypeOK, TextInv, TargetInv, RowOf
<1>7. FreshInv'
  BY DEF IInv, TypeOK, FreshInv, LockInv, Holding, Leased, RowOf, Owns
<1>8. AbsentInv'
  BY DEF IInv, TypeOK, AbsentInv
<1> QED
  BY <1>1, <1>2, <1>3, <1>4, <1>5, <1>6, <1>7, <1>8 DEF IInv

(* The lock is taken when nobody holds it. *)
LEMMA AcquireIInv ==
    ASSUME IInv, NEW r \in Requests, Acquire(r)
    PROVE  IInv'
<1> USE DEF Acquire, Goto, delivery
<1>1. TypeOK'
  BY DEF IInv, TypeOK, Leased, Ended
<1>2. AnsweredInv'
  BY DEF IInv, TypeOK, AnsweredInv, RowOf
<1>3. LockInv'
  BY DEF IInv, TypeOK, LockInv, LockFree, Holding, Leased
<1>4. RecordInv'
  BY DEF IInv, TypeOK, RecordInv, RowOf, Owns
<1>5. TargetInv'
  BY DEF IInv, TypeOK, TargetInv, RowOf
<1>6. TextInv'
  BY DEF IInv, TypeOK, TextInv, RowOf
<1>7. FreshInv'
  BY DEF IInv, TypeOK, FreshInv, RowOf, Owns
<1>8. AbsentInv'
  BY DEF IInv, TypeOK, AbsentInv
<1> QED
  BY <1>1, <1>2, <1>3, <1>4, <1>5, <1>6, <1>7, <1>8 DEF IInv

(* Nothing to recover: were there a full reply, the current copy of the  *)
(* row would point at it.                                                *)
LEMMA NothingIInv ==
    ASSUME IInv, NEW r \in Requests, NothingToRecover(r)
    PROVE  IInv'
<1> USE DEF NothingToRecover, Goto, delivery
<1>1. TypeOK'
  BY DEF IInv, TypeOK, Leased, Ended
<1>2. AnsweredInv'
  BY DEF IInv, TypeOK, AnsweredInv, RowOf
<1>3. LockInv'
  BY DEF IInv, TypeOK, LockInv, Holding, Leased
<1>4. RecordInv'
  BY DEF IInv, TypeOK, RecordInv, RowOf, Owns
<1>5. TargetInv'
  BY DEF IInv, TypeOK, TargetInv, RowOf
<1>6. TextInv'
  BY DEF IInv, TypeOK, TextInv, RowOf
<1>7. FreshInv'
  <2> SUFFICES ASSUME LockSpans, ~moved, NEW q \in Requests, Owns(r),
                      eventOf[q] = eventOf[r], message[q] = "text"
               PROVE  FALSE
    BY DEF IInv, TypeOK, FreshInv, RowOf, Owns
  <2>1. RowOf(r).target = q
    BY DEF IInv, TextInv, RowOf
  <2>2. record[r] = q
    BY <2>1 DEF IInv, RecordInv
  <2>3. q # None
    BY EventLedgerAssumption
  <2> QED
    BY <2>2, <2>3 DEF Recovered
<1>8. AbsentInv'
  BY DEF IInv, TypeOK, AbsentInv
<1> QED
  BY <1>1, <1>2, <1>3, <1>4, <1>5, <1>6, <1>7, <1>8 DEF IInv

(* The fence. *)
LEMMA AdmitIInv ==
    ASSUME IInv, NEW r \in Requests, Admit(r)
    PROVE  IInv'
<1> USE DEF Admit, Goto
<1>1. TypeOK'
  BY DEF IInv, TypeOK, Leased, Ended
<1>2. AnsweredInv'
  BY DEF IInv, TypeOK, AnsweredInv, RowOf
<1>3. LockInv'
  BY DEF IInv, TypeOK, LockInv, Holding, Leased
<1>4. RecordInv'
  BY DEF IInv, TypeOK, RecordInv, RowOf, Owns
<1>5. TargetInv'
  BY DEF IInv, TypeOK, TargetInv, RowOf
<1>6. TextInv'
  BY DEF IInv, TypeOK, TextInv, RowOf
<1>7. FreshInv'
  BY DEF IInv, TypeOK, FreshInv, RowOf, Owns
<1>8. AbsentInv'
  BY DEF IInv, TypeOK, AbsentInv
<1> QED
  BY <1>1, <1>2, <1>3, <1>4, <1>5, <1>6, <1>7, <1>8 DEF IInv

(* The response is sent. *)
LEMMA ReturnIInv ==
    ASSUME IInv, NEW r \in Requests, Return(r)
    PROVE  IInv'
<1> USE DEF Return, Goto, delivery
<1>1. TypeOK'
  BY DEF IInv, TypeOK, Leased, Ended
<1>2. AnsweredInv'
  BY DEF IInv, TypeOK, AnsweredInv, RowOf
<1>3. LockInv'
  BY DEF IInv, TypeOK, LockInv, Holding, Leased
<1>4. RecordInv'
  BY DEF IInv, TypeOK, RecordInv, RowOf, Owns
<1>5. TargetInv'
  BY DEF IInv, TypeOK, TargetInv, RowOf
<1>6. TextInv'
  BY DEF IInv, TypeOK, TextInv, RowOf
<1>7. FreshInv'
  BY DEF IInv, TypeOK, FreshInv, RowOf, Owns
<1>8. AbsentInv'
  BY DEF IInv, TypeOK, AbsentInv
<1> QED
  BY <1>1, <1>2, <1>3, <1>4, <1>5, <1>6, <1>7, <1>8 DEF IInv

(* The recorded response is sent. *)
LEMMA ReplayIInv ==
    ASSUME IInv, NEW r \in Requests, Replay(r)
    PROVE  IInv'
<1> USE DEF Replay, Goto, delivery
<1>1. TypeOK'
  BY DEF IInv, TypeOK, Row, RowOf, Leased, Ended
<1>2. AnsweredInv'
  BY DEF IInv, TypeOK, AnsweredInv, RowOf
<1>3. LockInv'
  BY DEF IInv, TypeOK, LockInv, Holding, Leased
<1>4. RecordInv'
  BY DEF IInv, TypeOK, RecordInv, RowOf, Owns
<1>5. TargetInv'
  BY DEF IInv, TypeOK, TargetInv, RowOf
<1>6. TextInv'
  BY DEF IInv, TypeOK, TextInv, RowOf
<1>7. FreshInv'
  BY DEF IInv, TypeOK, FreshInv, RowOf, Owns
<1>8. AbsentInv'
  BY DEF IInv, TypeOK, AbsentInv
<1> QED
  BY <1>1, <1>2, <1>3, <1>4, <1>5, <1>6, <1>7, <1>8 DEF IInv

(* A worker dies. *)
LEMMA CrashIInv ==
    ASSUME IInv, NEW w \in Workers, Crash(w)
    PROVE  IInv'
<1> USE DEF Crash, delivery
<1>1. TypeOK'
  BY DEF IInv, TypeOK, Leased, Ended
<1>2. AnsweredInv'
  BY DEF IInv, TypeOK, AnsweredInv, RowOf
<1>3. LockInv'
  BY DEF IInv, TypeOK, LockInv, Holding, Leased
<1>4. RecordInv'
  BY DEF IInv, TypeOK, RecordInv, RowOf, Owns
<1>5. TargetInv'
  BY DEF IInv, TypeOK, TargetInv, RowOf
<1>6. TextInv'
  BY DEF IInv, TypeOK, TextInv, RowOf
<1>7. FreshInv'
  BY DEF IInv, TypeOK, FreshInv, RowOf, Owns
<1>8. AbsentInv'
  BY DEF IInv, TypeOK, AbsentInv
<1> QED
  BY <1>1, <1>2, <1>3, <1>4, <1>5, <1>6, <1>7, <1>8 DEF IInv

(* The lease changes hands, or the sender moves. *)
LEMMA OutsideIInv ==
    ASSUME IInv, FailOver \/ Move
    PROVE  IInv'
<1> USE DEF FailOver, Move
<1>1. TypeOK'
  <2>1. epoch' \in 0 .. MaxEpoch
    BY EventLedgerAssumption DEF IInv, TypeOK
  <2>2. moved' \in BOOLEAN
    BY Zenon DEF IInv, TypeOK
  <2>3. UNCHANGED <<eventOf, workerOf, epochOf, row, pc, record, message, answer>>
    OBVIOUS
  <2> QED
    BY <2>1, <2>2, <2>3 DEF IInv, TypeOK
<1>2. AnsweredInv'
  BY DEF IInv, TypeOK, AnsweredInv, RowOf
<1>3. LockInv'
  BY DEF IInv, TypeOK, LockInv, Holding, Leased
<1>4. RecordInv'
  BY DEF IInv, TypeOK, RecordInv, RowOf, Owns
<1>5. TargetInv'
  BY DEF IInv, TypeOK, TargetInv, RowOf
<1>6. TextInv'
  BY DEF IInv, TypeOK, TextInv, RowOf
<1>7. FreshInv'
  BY DEF IInv, TypeOK, FreshInv, RowOf, Owns
<1>8. AbsentInv'
  BY DEF IInv, TypeOK, AbsentInv
<1> QED
  BY <1>1, <1>2, <1>3, <1>4, <1>5, <1>6, <1>7, <1>8 DEF IInv

-----------------------------------------------------------------------------
(* Every step of a delivery preserves the invariant. *)
LEMMA ProgressIInv ==
    ASSUME IInv, NEW r \in Requests, Progress(r)
    PROVE  IInv'
<1>1. CASE IgnoredByPolicy(r) \/ Refuse(r) \/ LockTimeout(r) \/ RecoverError(r)
  BY <1>1, LeaveIInv DEF IgnoredByPolicy, Refuse, LockTimeout, RecoverError
<1>2. CASE Claim(r)
  BY <1>2, ClaimIInv
<1>3. CASE Replay(r)
  BY <1>3, ReplayIInv
<1>4. CASE Acquire(r)
  BY <1>4, AcquireIInv
<1>5. ASSUME NEW v \in Replies, pc[r] \in {"locked", "fresh", "called"},
             Complete(r, v), UNCHANGED <<delivery, record, message>>
      PROVE  IInv'
  <2>1. CASE Owns(r)
    BY <1>5, <2>1, CompleteIInv
  <2>2. CASE ~Owns(r)
    BY <1>5, <2>2, LeaveIInv DEF Complete
  <2> QED
    BY <2>1, <2>2
<1>6. CASE AnswerDirectly(r)
  BY <1>5, <1>6 DEF AnswerDirectly, Replies
<1>7. CASE Recover(r)
  <2>1. record[r] \in Replies
    BY <1>7 DEF Recover, Recovered, IInv, TypeOK, Replies
  <2> QED
    BY <1>5, <1>7, <2>1 DEF Recover
<1>8. CASE NothingToRecover(r)
  BY <1>8, NothingIInv
<1>9. CASE SetTarget(r)
  BY <1>9, SetTargetIInv, LeaveIInv DEF SetTarget
<1>10. CASE BeginCall(r)
  BY <1>10, BeginCallIInv, LeaveIInv DEF BeginCall
<1>11. ASSUME NEW m \in {"text", "empty", "error", "absent"}, EndCall(r, m)
       PROVE  IInv'
  BY <1>11, MessageIInv DEF EndCall, MessageStates
<1>12. CASE CompleteChat(r)
  BY <1>5, <1>12 DEF CompleteChat, Replies
<1>13. CASE Return(r)
  BY <1>13, ReturnIInv
<1>14. CASE FailEvent(r)
  BY <1>14, FailIInv, LeaveIInv DEF FailEvent
<1> QED
  BY <1>1, <1>2, <1>3, <1>4, <1>6, <1>7, <1>8, <1>9, <1>10, <1>11, <1>12, <1>13, <1>14
     DEF Progress

(* The invariant is inductive. *)
LEMMA NextIInv == IInv /\ [Next]_vars => IInv'
<1> SUFFICES ASSUME IInv, [Next]_vars PROVE IInv'
  OBVIOUS
<1>1. ASSUME NEW r \in Requests, Admit(r) PROVE IInv'
  BY <1>1, AdmitIInv
<1>2. ASSUME NEW r \in Requests, StaleFence(r) PROVE IInv'
  BY <1>2, LeaveIInv DEF StaleFence
<1>3. ASSUME NEW r \in Requests, Progress(r) PROVE IInv'
  BY <1>3, ProgressIInv
<1>4. ASSUME NEW r \in Requests, Heartbeat(r) PROVE IInv'
  <2>1. eventOf[r] \in Events
    BY DEF IInv, TypeOK
  <2>2. row' = [row EXCEPT ![eventOf[r]] = [row[eventOf[r]] EXCEPT !.lapsed = FALSE]]
    BY <1>4 DEF Heartbeat, SetRow, RowOf
  <2>3. UNCHANGED <<delivery, pc, record, message, answer>>
    BY <1>4 DEF Heartbeat
  <2> QED
    BY <2>1, <2>2, <2>3, AgeIInv
<1>5. ASSUME NEW r \in Requests, Interrupt(r) PROVE IInv'
  <2>1. CASE pc[r] = "calling"
    BY <1>5, <2>1, MessageIInv DEF Interrupt, MessageStates
  <2>2. CASE pc[r] # "calling"
    BY <1>5, <2>2, LeaveIInv DEF Interrupt
  <2> QED
    BY <2>1, <2>2
<1>6. ASSUME NEW e \in Events, Lapse(e) PROVE IInv'
  <2>1. row' = [row EXCEPT ![e] = [row[e] EXCEPT !.lapsed = TRUE]]
    BY <1>6 DEF Lapse
  <2>2. UNCHANGED <<delivery, pc, record, message, answer>>
    BY <1>6 DEF Lapse
  <2> QED
    BY <2>1, <2>2, AgeIInv
<1>7. ASSUME NEW w \in Workers, Crash(w) PROVE IInv'
  BY <1>7, CrashIInv
<1>8. CASE FailOver \/ Move
  BY <1>8, OutsideIInv
<1>9. CASE UNCHANGED vars
  BY <1>9 DEF vars, IInv, TypeOK, AnsweredInv, LockInv, RecordInv, TargetInv, TextInv,
              FreshInv, AbsentInv, RowOf, Owns
<1> QED
  BY <1>1, <1>2, <1>3, <1>4, <1>5, <1>6, <1>7, <1>8, <1>9 DEF Next

LEMMA IInvAlways == Spec => []IInv
  BY InitIInv, NextIInv, PTL DEF Spec

(* Type correctness, and a response is stored exactly with status          *)
(* completed.                                                              *)
THEOREM LedgerTypeCorrect == Spec => []TypeOK
<1>1. IInv => TypeOK
  BY DEF IInv
<1> QED
  BY <1>1, IInvAlways, PTL

(* All answered deliveries of an event get the recorded reply. *)
THEOREM LedgerStable == Spec => []StableReply
  BY IInvStable, IInvAlways, PTL

(* No reply is generated in full a second time where the lock orders the   *)
(* workers and the sender keeps binding and chat.                          *)
THEOREM LedgerNoSecondReply == Spec => []NoSecondFullReply
  BY IInvNoSecond, IInvAlways, PTL

(* What a step may do to a row: a completed row stays as it is, and a      *)
(* response appears only together with the status completed.               *)
LEMMA StepRow ==
    ASSUME IInv, [Next]_vars, NEW e \in Events
    PROVE  /\ row[e].status = "completed" => row'[e] = row[e]
           /\ row'[e].response # row[e].response => row[e].response = None
<1>1. CASE UNCHANGED row
  BY <1>1
<1>2. ASSUME NEW r \in Requests, NEW new, RowOf(r).status # "completed", SetRow(r, new)
      PROVE  row[e].status = "completed" => row'[e] = row[e]
  BY <1>2 DEF IInv, TypeOK, SetRow, RowOf
<1>3. row[e].status = "completed" => row'[e] = row[e]
  <2>1. ASSUME NEW r \in Requests, Progress(r) \/ Heartbeat(r)
        PROVE  row[e].status = "completed" => row'[e] = row[e]
    <3>1. CASE Claim(r)
      BY <1>2, <3>1 DEF Claim, Claimable
    <3>2. CASE AnswerDirectly(r) \/ Recover(r) \/ CompleteChat(r)
      BY <1>1, <1>2, <3>2 DEF AnswerDirectly, Recover, CompleteChat, Complete, Owns
    <3>3. CASE SetTarget(r) \/ BeginCall(r) \/ FailEvent(r) \/ Heartbeat(r)
      BY <1>1, <1>2, <3>3 DEF SetTarget, BeginCall, FailEvent, Heartbeat, Owns
    <3>4. CASE UNCHANGED row
      BY <1>1, <3>4
    <3> QED
      BY <2>1, <3>1, <3>2, <3>3, <3>4
         DEF Progress, IgnoredByPolicy, Replay, Refuse, Acquire, LockTimeout, RecoverError,
             NothingToRecover, EndCall, Return
  <2>2. ASSUME NEW f \in Events, Lapse(f)
        PROVE  row[e].status = "completed" => row'[e] = row[e]
    BY <2>2 DEF Lapse, IInv, TypeOK
  <2>3. CASE UNCHANGED row
    BY <2>3
  <2> QED
    BY <2>1, <2>2, <2>3 DEF Next, vars, Admit, StaleFence, Interrupt, Crash, FailOver, Move
<1> QED
  BY <1>3 DEF IInv, TypeOK

(* A completed row never changes again. *)
THEOREM LedgerFinal == Spec => CompletedIsFinal
<1>1. IInv /\ [Next]_vars
        => [\A e \in Events : row[e].status = "completed" => row'[e] = row[e]]_vars
  BY StepRow
<1> QED
  BY <1>1, IInvAlways, PTL DEF Spec, CompletedIsFinal

-----------------------------------------------------------------------------
(* The refinement: a step that leaves responses and answered deliveries    *)
(* alone is a stuttering step of EventOnce.                                *)
LEMMA Stutters ==
    ASSUME \A e \in Events : row'[e].response = row[e].response,
           \A r \in Requests : pc'[r] = "answered" <=> pc[r] = "answered",
           \A r \in Requests : pc[r] = "answered" => answer'[r] = answer[r],
           UNCHANGED eventOf
    PROVE  UNCHANGED Once!vars
<1>1. [e \in Events |-> row'[e].response] = [e \in Events |-> row[e].response]
  OBVIOUS
<1>2. [r \in Requests |-> IF pc'[r] = "answered" THEN answer'[r] ELSE None]
        = [r \in Requests |-> IF pc[r] = "answered" THEN answer[r] ELSE None]
  OBVIOUS
<1> QED
  BY <1>1, <1>2 DEF Once!vars

(* Most steps of a delivery move it between places that are not answered.  *)
LEMMA QuietStep ==
    ASSUME IInv, NEW r \in Requests, NEW l, l # "answered", Goto(r, l),
           pc[r] # "answered", UNCHANGED <<eventOf, answer>>,
           \A e \in Events : row'[e].response = row[e].response
    PROVE  UNCHANGED Once!vars
<1>1. \A q \in Requests : pc'[q] = "answered" <=> pc[q] = "answered"
  BY DEF Goto, IInv, TypeOK
<1> QED
  BY <1>1, Stutters

(* Recording a reply decides the event. *)
LEMMA CompleteDecides ==
    ASSUME IInv, NEW r \in Requests, NEW v \in Replies, pc[r] # "answered",
           Owns(r), Complete(r, v), UNCHANGED delivery
    PROVE  Once!Next
<1>0. PICK e \in Events : e = eventOf[r]
  BY DEF IInv, TypeOK
<1>1. row[e].response = None
  BY <1>0 DEF IInv, TypeOK, Owns, RowOf
<1>2. row[e] \in Row
  BY DEF IInv, TypeOK
<1> DEFINE new == [row[e] EXCEPT !.status = "completed", !.response = v, !.lapsed = FALSE]
<1>3. new.response = v
  BY <1>2 DEF Row
<1>4. row' = [row EXCEPT ![e] = new]
  BY <1>0 DEF Complete, SetRow, RowOf
<1> HIDE DEF new
<1>5. [f \in Events |-> row'[f].response]
        = [[f \in Events |-> row[f].response] EXCEPT ![e] = v]
  BY <1>3, <1>4 DEF IInv, TypeOK
<1>6. [q \in Requests |-> IF pc'[q] = "answered" THEN answer'[q] ELSE None]
        = [q \in Requests |-> IF pc[q] = "answered" THEN answer[q] ELSE None]
  BY DEF Complete, Goto, IInv, TypeOK
<1>7. Once!Decide(e, v)
  BY <1>1, <1>5, <1>6 DEF Once!Decide, delivery
<1> QED
  BY <1>7 DEF Once!Next

(* A response that is sent is the recorded one. *)
LEMMA SendAnswers ==
    ASSUME IInv, NEW r \in Requests, pc[r] # "answered", Goto(r, "answered"),
           RowOf(r).status = "completed",
           answer' = [answer EXCEPT ![r] = RowOf(r).response],
           UNCHANGED <<delivery, row>>
    PROVE  Once!Next
<1>1. RowOf(r).response # None
  BY DEF IInv, TypeOK, RowOf
<1>2. [q \in Requests |-> IF pc'[q] = "answered" THEN answer'[q] ELSE None]
        = [[q \in Requests |-> IF pc[q] = "answered" THEN answer[q] ELSE None]
             EXCEPT ![r] = RowOf(r).response]
  BY DEF Goto, IInv, TypeOK
<1>3. eventOf[r] \in Events
  BY DEF IInv, TypeOK
<1>4. Once!Answer(r)
  BY <1>1, <1>2, <1>3 DEF Once!Answer, delivery, RowOf
<1> QED
  BY <1>4 DEF Once!Next

(* An owner's write to its row that is not a completion keeps the response. *)
LEMMA KeepsResponse ==
    ASSUME IInv, NEW e \in Events, NEW new, new.response = row[e].response,
           row' = [row EXCEPT ![e] = new]
    PROVE  \A f \in Events : row'[f].response = row[f].response
  BY DEF IInv, TypeOK

(* Every step is a step of EventOnce or a stuttering step. *)
LEMMA StepImplements ==
    ASSUME IInv, [Next]_vars
    PROVE  [Once!Next]_(Once!vars)
<1>1. ASSUME NEW r \in Requests, NEW v \in Replies, pc[r] \in {"locked", "fresh", "called"},
             Complete(r, v), UNCHANGED delivery
      PROVE  [Once!Next]_(Once!vars)
  <2>1. CASE Owns(r)
    BY <1>1, <2>1, CompleteDecides
  <2>2. CASE ~Owns(r)
    BY <1>1, <2>2, QuietStep DEF Complete, delivery
  <2> QED
    BY <2>1, <2>2
<1>2. ASSUME NEW r \in Requests, Claim(r)
      PROVE  UNCHANGED Once!vars
  <2>1. eventOf[r] \in Events /\ RowOf(r) \in Row
    BY DEF IInv, TypeOK, RowOf
  <2> DEFINE new == [RowOf(r) EXCEPT !.status = "processing", !.nonce = r,
                                     !.hash = epochOf[r], !.lapsed = FALSE]
  <2>2. new.response = row[eventOf[r]].response
    BY <2>1 DEF Row, RowOf
  <2>3. row' = [row EXCEPT ![eventOf[r]] = new]
    BY <1>2 DEF Claim, SetRow
  <2> HIDE DEF new
  <2> QED
    BY <1>2, <2>1, <2>2, <2>3, KeepsResponse, QuietStep DEF Claim, delivery
<1>3. ASSUME NEW r \in Requests, SetTarget(r)
      PROVE  UNCHANGED Once!vars
  <2>1. eventOf[r] \in Events /\ RowOf(r) \in Row
    BY DEF IInv, TypeOK, RowOf
  <2> DEFINE new == [RowOf(r) EXCEPT !.target = r, !.lapsed = FALSE]
  <2>2. new.response = row[eventOf[r]].response
    BY <2>1 DEF Row, RowOf
  <2>3. row' = [row EXCEPT ![eventOf[r]] = new] \/ UNCHANGED row
    BY <1>3 DEF SetTarget, SetRow
  <2> HIDE DEF new
  <2> QED
    BY <1>3, <2>1, <2>2, <2>3, KeepsResponse, QuietStep DEF SetTarget, delivery
<1>4. ASSUME NEW r \in Requests, BeginCall(r) \/ Heartbeat(r)
      PROVE  UNCHANGED Once!vars
  <2>1. eventOf[r] \in Events /\ RowOf(r) \in Row
    BY DEF IInv, TypeOK, RowOf
  <2> DEFINE new == [RowOf(r) EXCEPT !.lapsed = FALSE]
  <2>2. new.response = row[eventOf[r]].response
    BY <2>1 DEF Row, RowOf
  <2>3. row' = [row EXCEPT ![eventOf[r]] = new] \/ UNCHANGED row
    BY <1>4 DEF BeginCall, Heartbeat, SetRow
  <2> HIDE DEF new
  <2>4. \A f \in Events : row'[f].response = row[f].response
    BY <2>1, <2>2, <2>3, KeepsResponse
  <2>5. CASE BeginCall(r)
    BY <2>4, <2>5, QuietStep DEF BeginCall, delivery
  <2>6. CASE Heartbeat(r)
    BY <2>4, <2>6, Stutters DEF Heartbeat, delivery
  <2> QED
    BY <1>4, <2>5, <2>6
<1>5. ASSUME NEW r \in Requests, FailEvent(r)
      PROVE  UNCHANGED Once!vars
  <2>1. eventOf[r] \in Events /\ RowOf(r) \in Row
    BY DEF IInv, TypeOK, RowOf
  <2> DEFINE new == [RowOf(r) EXCEPT !.status = "failed", !.lapsed = FALSE]
  <2>2. new.response = row[eventOf[r]].response
    BY <2>1 DEF Row, RowOf
  <2>3. row' = [row EXCEPT ![eventOf[r]] = new] \/ UNCHANGED row
    BY <1>5 DEF FailEvent, SetRow
  <2> HIDE DEF new
  <2> QED
    BY <1>5, <2>1, <2>2, <2>3, KeepsResponse, QuietStep DEF FailEvent, delivery
<1>6. ASSUME NEW r \in Requests, Return(r) \/ Replay(r)
      PROVE  Once!Next
  <2>1. CASE Replay(r)
    BY <2>1, SendAnswers DEF Replay
  <2>2. CASE Return(r)
    <3>1. RowOf(r).status = "completed" /\ answer[r] = RowOf(r).response
      BY <2>2 DEF Return, IInv, AnsweredInv
    <3>2. answer' = [answer EXCEPT ![r] = RowOf(r).response]
      BY <2>2, <3>1 DEF Return, IInv, TypeOK
    <3> QED
      BY <2>2, <3>1, <3>2, SendAnswers DEF Return
  <2> QED
    BY <1>6, <2>1, <2>2
<1>7. ASSUME NEW r \in Requests, Progress(r)
      PROVE  [Once!Next]_(Once!vars)
  <2>1. CASE AnswerDirectly(r) \/ CompleteChat(r)
    BY <1>1, <2>1 DEF AnswerDirectly, CompleteChat, Replies
  <2>2. CASE Recover(r)
    <3>1. record[r] \in Replies
      BY <2>2 DEF Recover, Recovered, IInv, TypeOK, Replies
    <3> QED
      BY <1>1, <2>2, <3>1 DEF Recover
  <2>3. CASE IgnoredByPolicy(r) \/ Refuse(r) \/ Acquire(r) \/ LockTimeout(r)
             \/ RecoverError(r) \/ NothingToRecover(r)
    BY <2>3, QuietStep DEF IgnoredByPolicy, Refuse, Acquire, LockTimeout, RecoverError,
                           NothingToRecover, delivery
  <2>4. ASSUME NEW m \in {"text", "empty", "error", "absent"}, EndCall(r, m)
        PROVE  UNCHANGED Once!vars
    BY <2>4, QuietStep DEF EndCall, delivery
  <2> QED
    BY <1>2, <1>3, <1>4, <1>5, <1>6, <1>7, <2>1, <2>2, <2>3, <2>4 DEF Progress
<1>8. ASSUME NEW r \in Requests, Admit(r) \/ StaleFence(r) \/ Interrupt(r)
      PROVE  UNCHANGED Once!vars
  BY <1>8, QuietStep DEF Admit, StaleFence, Interrupt, Leased, delivery
<1>9. ASSUME NEW e \in Events, Lapse(e)
      PROVE  UNCHANGED Once!vars
  <2>1. row[e] \in Row
    BY DEF IInv, TypeOK
  <2> DEFINE new == [row[e] EXCEPT !.lapsed = TRUE]
  <2>2. new.response = row[e].response
    BY <2>1 DEF Row
  <2>3. row' = [row EXCEPT ![e] = new]
    BY <1>9 DEF Lapse
  <2> HIDE DEF new
  <2> QED
    BY <1>9, <2>2, <2>3, KeepsResponse, Stutters DEF Lapse, delivery
<1>10. ASSUME NEW w \in Workers, Crash(w)
       PROVE  UNCHANGED Once!vars
  BY <1>10, Stutters DEF Crash, Leased, delivery
<1>11. CASE FailOver \/ Move \/ UNCHANGED vars
  BY <1>11, Stutters DEF FailOver, Move, vars
<1> QED
  BY <1>4, <1>7, <1>8, <1>9, <1>10, <1>11 DEF Next

(* The endpoint implements its contract: one recorded outcome per event,   *)
(* and every answer is that outcome.                                       *)
THEOREM LedgerImplementsOnce == Spec => ImplementsEventOnce
<1>1. Init => Once!Init
  BY EventLedgerAssumption DEF Init, Once!Init, NoRow
<1>2. IInv /\ [Next]_vars => [Once!Next]_(Once!vars)
  BY StepImplements
<1> QED
  BY <1>1, <1>2, IInvAlways, PTL DEF Spec, Once!Spec, ImplementsEventOnce
=============================================================================
