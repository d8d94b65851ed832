------------------------------ MODULE EventOnce ------------------------------
(* What POST /internal/bot-gateway/events promises the gateway: an event   *)
(* gets at most one recorded outcome, and every delivery that is answered  *)
(* at all is answered with it.                                             *)
CONSTANTS Events, Requests, Replies, NoReply

VARIABLES eventOf,   \* the event a delivery carries
          outcome,   \* outcome[e]: the recorded reply of e
          answer     \* answer[r]: what delivery r was answered with

vars == <<eventOf, outcome, answer>>

Init ==
    /\ eventOf \in [Requests -> Events]
    /\ outcome = [e \in Events |-> NoReply]
    /\ answer = [r \in Requests |-> NoReply]

Decide(e, v) ==
    /\ outcome[e] = NoReply
    /\ outcome' = [outcome EXCEPT ![e] = v]
    /\ UNCHANGED <<eventOf, answer>>

Answer(r) ==
    /\ outcome[eventOf[r]] # NoReply
    /\ answer[r] = NoReply
    /\ answer' = [answer EXCEPT ![r] = outcome[eventOf[r]]]
    /\ UNCHANGED <<eventOf, outcome>>

Next ==
    \/ \E e \in Events, v \in Replies : Decide(e, v)
    \/ \E r \in Requests : Answer(r)

Spec == Init /\ [][Next]_vars
=============================================================================
