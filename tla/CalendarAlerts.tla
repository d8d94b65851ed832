--------------------------- MODULE CalendarAlerts ---------------------------
(* Alerts for calendar events: _check_calendar_alerts in                   *)
(* utils/automations.py, which scheduler_worker_loop calls on every        *)
(* instance, over get_upcoming_events and update_event_by_id of            *)
(* models/calendar.py, while the owner edits the event.  There is one      *)
(* event and the clock counts in units of a few seconds.                   *)
EXTENDS Integers, FiniteSets

CONSTANTS Instances,    \* processes that run the scheduler
          Starts,       \* times the event may start at
          Leads,        \* values of meta.alert_minutes other than "no alert"
          Poll,         \* SCHEDULER_POLL_INTERVAL
          Jitter,       \* upper end of random.uniform(0, 2)
          TimerPoll,    \* TIMER_POLL_INTERVAL: how often the loop looks
          Slack,        \* what the grace window adds to Poll
          Work,         \* longest the automations keep the loop busy
          MaxClock,     \* bound on the clock
          MaxEdits,     \* bound on edits of start_at and is_cancelled
          MaxMetaEdits, \* bound on edits of meta
          MaxCrashes    \* bound on restarts of instances

CalendarAlertsAssumption ==
    /\ Starts \subseteq Nat /\ Leads \subseteq Nat /\ Poll \in Nat /\ Jitter \in Nat
    /\ TimerPoll \in Nat /\ Slack \in Nat /\ Work \in Nat /\ MaxClock \in Nat
    /\ MaxEdits \in Nat /\ MaxMetaEdits \in Nat /\ MaxCrashes \in Nat

VARIABLES clock, ev,    \* the row: there, start, cancelled, meta
          inst,         \* the loop of an instance
          form,         \* the meta an editing request has read, or Unread
          emitted,      \* alerts sent for a start since it was last edited
          since,        \* when the event was last edited
          edits, metaEdits, crashes

vars == <<clock, ev, inst, form, emitted, since, edits, metaEdits, crashes>>

Unread == [lead |-> -1, alerted |-> -2]   \* no meta has been read
Never  == -1                               \* there is no alerted_at
NoAlert == -1                              \* alert_minutes < 0
Grace  == Poll + Slack
Boot(t) == [pc |-> "boot", next |-> t, until |-> 0, start |-> 0, meta |-> Unread]

TypeOK ==
    /\ clock \in 0..MaxClock /\ ev.start \in Starts /\ ev.there \in BOOLEAN
    /\ \A i \in Instances : inst[i].pc \in {"boot", "sleep", "work", "emit", "mark", "write"}

Init ==
    /\ clock = 0
    /\ \E s \in Starts, l \in Leads \cup {NoAlert} :
          ev = [there |-> TRUE, start |-> s, cancelled |-> FALSE, meta |-> [lead |-> l, alerted |-> Never]]
    /\ inst = [i \in Instances |-> Boot(0)] /\ form = Unread
    /\ emitted = [s \in Starts |-> 0] /\ since = 0
    /\ edits = 0 /\ metaEdits = 0 /\ crashes = 0

-----------------------------------------------------------------------------
(* The owner. *)
Edit == edits < MaxEdits /\ edits' = edits + 1 /\ since' = clock

EditStart(s) ==
    /\ ev.there /\ s # ev.start /\ s > clock /\ Edit
    /\ ev' = [ev EXCEPT !.start = s] /\ emitted' = [t \in Starts |-> 0]
    /\ UNCHANGED <<clock, inst, form, metaEdits, crashes>>

Cancel ==
    /\ ev.there /\ Edit /\ ev' = [ev EXCEPT !.cancelled = ~@]
    /\ UNCHANGED <<clock, inst, form, emitted, metaEdits, crashes>>

Delete ==
    /\ ev.there /\ Edit /\ ev' = [ev EXCEPT !.there = FALSE]
    /\ UNCHANGED <<clock, inst, form, emitted, metaEdits, crashes>>

(* An edit of alert_minutes merges the form into the meta it has read *)
EditMetaRead ==
    /\ ev.there /\ form = Unread /\ metaEdits < MaxMetaEdits /\ metaEdits' = metaEdits + 1
    /\ form' = ev.meta
    /\ UNCHANGED <<clock, ev, inst, emitted, since, edits, crashes>>

(* and writes the whole column. *)
EditMetaWrite ==
    /\ form # Unread /\ form' = Unread
    /\ \E l \in Leads \cup {NoAlert} :
          ev' = IF ev.there THEN [ev EXCEPT !.meta = [form EXCEPT !.lead = l]] ELSE ev
    /\ since' = clock
    /\ UNCHANGED <<clock, inst, emitted, edits, metaEdits, crashes>>

-----------------------------------------------------------------------------
(* scheduler_worker_loop: the next poll is set when this one begins, and   *)
(* claiming automations comes before the calendar.                         *)
PollDue(i) ==
    /\ inst[i].pc \in {"boot", "sleep"} /\ clock >= inst[i].next
    /\ \E j \in 0..Jitter, w \in 0..Work :
          inst' = [inst EXCEPT ![i] = [pc |-> "work", next |-> clock + Poll + j, until |-> clock + w,
                                       start |-> 0, meta |-> Unread]]
    /\ UNCHANGED <<clock, ev, form, emitted, since, edits, metaEdits, crashes>>

(* Mutant: no grace window. *)
UpcomingMutant ==
    /\ ev.there /\ ~ev.cancelled /\ ev.meta.lead >= 0
    /\ ev.start >= clock
    /\ ev.start <= clock + ev.meta.lead

(* get_upcoming_events: a negative alert_minutes is no alert at all. *)
Upcoming ==
    /\ ev.there /\ ~ev.cancelled /\ ev.meta.lead >= 0
    /\ ev.start + Grace >= clock
    /\ ev.start <= clock + ev.meta.lead

Moves(i, pc, start, meta) ==
    inst' = [inst EXCEPT ![i] = [pc |-> pc, next |-> @.next, until |-> @.until,
                                 start |-> start, meta |-> meta]]

Check(i) ==
    /\ inst[i].pc = "work" /\ clock = inst[i].until
    /\ IF Upcoming /\ ev.meta.alerted # ev.start
       THEN Moves(i, "emit", ev.start, inst[i].meta)
       ELSE Moves(i, "sleep", inst[i].start, inst[i].meta)
    /\ UNCHANGED <<clock, ev, form, emitted, since, edits, metaEdits, crashes>>

Emit(i) ==
    /\ inst[i].pc = "emit" /\ Moves(i, "mark", inst[i].start, inst[i].meta)
    /\ emitted' = [emitted EXCEPT ![inst[i].start] = @ + 1]
    /\ UNCHANGED <<clock, ev, form, since, edits, metaEdits, crashes>>

(* update_event_by_id: the event is read again, *)
MarkRead(i) ==
    /\ inst[i].pc = "mark"
    /\ IF ev.there THEN Moves(i, "write", inst[i].start, ev.meta)
                   ELSE Moves(i, "sleep", inst[i].start, inst[i].meta)
    /\ UNCHANGED <<clock, ev, form, emitted, since, edits, metaEdits, crashes>>

(* Mutant: what is recorded is the time of the alert. *)
MarkWriteMutant(i) ==
    /\ inst[i].pc = "write"
    /\ Moves(i, "sleep", inst[i].start, Unread)
    /\ ev' = IF ev.there THEN [ev EXCEPT !.meta = [inst[i].meta EXCEPT !.alerted = clock]] ELSE ev
    /\ UNCHANGED <<clock, form, emitted, since, edits, metaEdits, crashes>>

(* its meta written back, and the owner's other targets notified. *)
MarkWrite(i) ==
    /\ inst[i].pc = "write"
    /\ Moves(i, "sleep", inst[i].start, Unread)
    /\ ev' = IF ev.there THEN [ev EXCEPT !.meta = [inst[i].meta EXCEPT !.alerted = inst[i].start]] ELSE ev
    /\ UNCHANGED <<clock, form, emitted, since, edits, metaEdits, crashes>>

Restart(i) ==
    /\ crashes < MaxCrashes /\ crashes' = crashes + 1 /\ inst[i].pc # "boot"
    /\ inst' = [inst EXCEPT ![i] = Boot(clock)]
    /\ UNCHANGED <<clock, ev, form, emitted, since, edits, metaEdits>>

(* The loop looks every TimerPoll; the alerts themselves take no time. *)
Tick ==
    /\ clock < MaxClock /\ clock' = clock + 1
    /\ \A i \in Instances :
          \/ inst[i].pc = "sleep" /\ clock < inst[i].next + TimerPoll
          \/ inst[i].pc = "work" /\ clock < inst[i].until
    /\ UNCHANGED <<ev, inst, form, emitted, since, edits, metaEdits, crashes>>

Next ==
    \/ Tick \/ Cancel \/ Delete \/ EditMetaRead \/ EditMetaWrite
    \/ \E s \in Starts : EditStart(s)
    \/ \E i \in Instances : PollDue(i) \/ Check(i) \/ Emit(i) \/ MarkRead(i) \/ MarkWrite(i) \/ Restart(i)

Spec == Init /\ [][Next]_vars

-----------------------------------------------------------------------------
(* "De-duplication is DB-backed via meta.alerted_at - survives restarts    *)
(* and works across multiple instances": one alert for each start.         *)
AlertedOnce == \A s \in Starts : emitted[s] <= 1

(* "Grace window covers one poll cycle + jitter so 'At time of event'      *)
(* alerts (alert_minutes=0) are not missed": an event that was not edited  *)
(* after its start has been alerted once the window has passed.            *)
NotMissed ==
    ev.there /\ ~ev.cancelled /\ ev.meta.lead >= 0 /\ since <= ev.start /\ clock > ev.start + Grace
        => emitted[ev.start] > 0
=============================================================================
