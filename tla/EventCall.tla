------------------------------ MODULE EventCall ------------------------------
(***************************************************************************)
(* get_event_call of socket/main.py: the pipeline asks the user something  *)
(* in a browser tab and waits for the answer.  When the session it asked   *)
(* disappears from the session pool, it looks for another session of the   *)
(* user in the same chat and asks there.                                   *)
(***************************************************************************)
EXTENDS Naturals, FiniteSets

CONSTANTS Tabs, None,
          MaxConnects,  \* connections of each tab
          CanResume     \* a question in a saved chat

VARIABLES sid,     \* sid[t]: the number of t's connection, 0 when it has none
          made,    \* made[t]: connections t has made
          pool,    \* session pool: the sessions <<t, n>> in the chat
          shown,   \* tabs that show the question
          call     \* the call: where it is, the session it asks, its result

vars == <<sid, made, pool, shown, call>>
Session(t) == <<t, sid[t]>>

Init ==
    /\ sid = [t \in Tabs |-> 1] /\ made = sid
    /\ pool = {Session(t) : t \in Tabs}
    /\ shown = {}
    /\ \E t \in Tabs : call = [at |-> "send", to |-> <<t, 1>>, result |-> None]

(* sio.call: the question reaches the tab if the session is still its own. *)
Ask ==
    /\ call.at = "send"
    /\ shown' = shown \cup {t \in Tabs : Session(t) = call.to}
    /\ call' = [call EXCEPT !.at = "wait"]
    /\ UNCHANGED <<sid, made, pool>>

(* The user answers; the acknowledgement counts for the session that was asked. *)
Answer(t) ==
    /\ t \in shown /\ sid[t] # 0
    /\ shown' = shown \ {t}
    /\ call' = IF call.at = "wait" /\ call.to = Session(t)
                 THEN [call EXCEPT !.at = "done", !.result = "answer"] ELSE call
    /\ UNCHANGED <<sid, made, pool>>

(* Mutant: a session that is gone is only noticed by the timeout. *)
NoticeMutant ==
    /\ call.at = "wait" /\ call.to \notin pool /\ ~CanResume
    /\ call' = [call EXCEPT !.at = "end", !.result = "disconnected"]
    /\ UNCHANGED <<sid, made, pool, shown>>

Notice ==
    /\ call.at = "wait" /\ call.to \notin pool
    /\ call' = IF CanResume THEN [call EXCEPT !.at = "find"]
               ELSE [call EXCEPT !.at = "end", !.result = "disconnected"]
    /\ UNCHANGED <<sid, made, pool, shown>>

(* get_user_chat_session_id: any session of the user in the chat. *)
Resume ==
    /\ call.at = "find"
    /\ \E s \in pool : call' = [call EXCEPT !.at = "send", !.to = s]
    /\ UNCHANGED <<sid, made, pool, shown>>

(* No session came back within a minute, or the whole call took too long. *)
TimeOut ==
    /\ call.at \in {"wait", "find"}
    /\ call' = [call EXCEPT !.at = "end", !.result = "timeout"]
    /\ UNCHANGED <<sid, made, pool, shown>>

(* The finally block takes the question from the session asked last. *)
Finish ==
    /\ call.at \in {"done", "end"}
    /\ shown' = {t \in shown : Session(t) # call.to}
    /\ call' = [call EXCEPT !.at = "over"]
    /\ UNCHANGED <<sid, made, pool>>

Disconnect(t) ==
    /\ sid[t] # 0
    /\ sid' = [sid EXCEPT ![t] = 0]
    /\ UNCHANGED <<made, pool, shown, call>>

(* The disconnect handler or the reaper removes the entry of a session. *)
PoolDelete(s) ==
    /\ s \in pool /\ sid[s[1]] # s[2]
    /\ pool' = pool \ {s}
    /\ UNCHANGED <<sid, made, shown, call>>

Reconnect(t) ==
    /\ sid[t] = 0 /\ made[t] < MaxConnects
    /\ made' = [made EXCEPT ![t] = @ + 1]
    /\ sid' = [sid EXCEPT ![t] = made[t] + 1]
    /\ pool' = pool \cup {<<t, made[t] + 1>>}
    /\ UNCHANGED <<shown, call>>

Caller == Ask \/ Notice \/ Resume \/ Finish

Next ==
    \/ Caller \/ TimeOut
    \/ \E t \in Tabs : Answer(t) \/ Disconnect(t) \/ Reconnect(t)
    \/ \E s \in pool : PoolDelete(s)

Spec == Init /\ [][Next]_vars

(* The caller looks at the pool every second and the pool forgets sessions
   that are gone. *)
LiveSpec ==
    /\ Spec /\ WF_vars(Caller)
    /\ \A s \in Tabs \X (1..MaxConnects) : WF_vars(PoolDelete(s))

-----------------------------------------------------------------------------
Reaches(t) == t \in shown /\ Session(t) = call.to

(* A user who has the chat open somewhere sees the question, whatever happened
   to the session that was asked first, unless the call has ended. *)
QuestionReaches ==
    \A t \in Tabs : <>[](sid[t] # 0) => <>(call.at = "over" \/ \E u \in Tabs : Reaches(u))
=============================================================================
