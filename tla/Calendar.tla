------------------------------ MODULE Calendar ------------------------------
(* Calendars, events and attendees: routers/calendar.py over the three     *)
(* tables of models/calendar.py.  One user owns the calendars, Guests may  *)
(* be invited; requests run concurrently and a step ends where the code    *)
(* awaits the database.  PostgreSQL runs READ COMMITTED: an UPDATE changes *)
(* the rows its snapshot matched.  SQLite lets one writer in at a time.    *)
EXTENDS Naturals, FiniteSets

CONSTANTS Cals,         \* ids calendars may get
          Events,       \* ids events may get
          Guests,       \* users who may be invited
          Requests,     \* requests that may run at a time
          Postgres,     \* the database is PostgreSQL
          MaxOps,       \* bound on the requests made
          None          \* a calendar, an event or a request that is not there

CalendarAssumption == Postgres \in BOOLEAN /\ MaxOps \in Nat

VARIABLES cal,          \* is_default of a calendar, or None
          event,        \* calendar_id of an event, or None
          rsvp,         \* status of a guest at an event, or None
          shared,       \* calendars with an access grant
          req,          \* what a request is doing
          chosen,       \* what a guest last answered since invited, and ever
          made          \* ids ever used, and the number of requests
vars == <<cal, event, rsvp, shared, req, chosen, made>>

Statuses == {"pending", "accepted", "declined"}
Idle     == [op |-> "idle"]
Defaults   == {c \in Cals : cal[c] = TRUE}
Existing   == {c \in Cals : cal[c] # None}

TypeOK ==
    /\ cal \in [Cals -> BOOLEAN \cup {None}] /\ event \in [Events -> Cals \cup {None}]
    /\ rsvp \in [Events -> [Guests -> Statuses \cup {None}]] /\ shared \subseteq Cals
    /\ made.ops \in 0..MaxOps

Init ==
    /\ cal = [c \in Cals |-> None] /\ event = [e \in Events |-> None]
    /\ rsvp = [e \in Events |-> [g \in Guests |-> None]] /\ shared = {}
    /\ req = [r \in Requests |-> Idle] /\ chosen = [e \in Events |-> [g \in Guests |-> [last |-> None, ever |-> {}]]]
    /\ made = [cals |-> {}, events |-> {}, ops |-> 0]

Start(r, s) ==
    /\ req[r] = Idle /\ made.ops < MaxOps
    /\ req' = [req EXCEPT ![r] = s] /\ made' = [made EXCEPT !.ops = @ + 1]
At(r, op)  == req[r].op = op
Then(r, s) == req' = [req EXCEPT ![r] = s]

-----------------------------------------------------------------------------
(* get_calendars: the first visit finds nothing, own or shared, *)
ListCalendars(r) ==
    /\ Existing = {}
    /\ Start(r, [op |-> "default"])
    /\ UNCHANGED <<cal, event, rsvp, shared, chosen>>

(* and get_or_create_defaults adds 'Personal'. *)
CreateDefault(r) ==
    /\ At(r, "default")
    /\ \E c \in Cals \ made.cals :
          cal' = [cal EXCEPT ![c] = TRUE] /\ made' = [made EXCEPT !.cals = @ \cup {c}]
    /\ Then(r, Idle) /\ UNCHANGED <<event, rsvp, shared, chosen>>

(* create_calendar: the row, *)
CreateCalendar(r) ==
    /\ \E c \in Cals \ made.cals :
          /\ cal' = [cal EXCEPT ![c] = FALSE]
          /\ req[r] = Idle /\ made.ops < MaxOps
          /\ \E g \in BOOLEAN : Then(r, IF g THEN [op |-> "grant", cal |-> c] ELSE Idle)
          /\ made' = [made EXCEPT !.cals = @ \cup {c}, !.ops = @ + 1]
    /\ UNCHANGED <<event, rsvp, shared, chosen>>

(* then, in another transaction, its grants; update_calendar_access_by_id  *)
(* sets them later, having found the calendar.                             *)
ShareCalendar(r, c) ==
    /\ cal[c] # None /\ Start(r, [op |-> "grant", cal |-> c])
    /\ UNCHANGED <<cal, event, rsvp, shared, chosen>>

SetGrants(r) ==
    /\ At(r, "grant") /\ shared' = shared \cup {req[r].cal}
    /\ Then(r, Idle) /\ UNCHANGED <<cal, event, rsvp, chosen, made>>

(* set_default_calendar: the UPDATE finds the calendars that are default, *)
SetDefault(r, c) ==
    /\ c \in made.cals /\ Start(r, [op |-> "setdefault", cal |-> c, clear |-> Defaults])
    /\ UNCHANGED <<cal, event, rsvp, shared, chosen>>

(* Mutant: the other calendars stay default. *)
CommitDefaultMutant(r) ==
    /\ At(r, "setdefault")
    /\ cal' = IF cal[req[r].cal] = None THEN cal ELSE [cal EXCEPT ![req[r].cal] = TRUE]
    /\ Then(r, Idle) /\ UNCHANGED <<event, rsvp, shared, chosen, made>>

(* clears them, sets this one and commits; without a calendar it rolls     *)
(* back.  On SQLite the UPDATE is the start of the transaction.            *)
CommitDefault(r) ==
    /\ At(r, "setdefault")
    /\ LET clear == IF Postgres THEN req[r].clear ELSE Defaults
       IN  cal' = IF cal[req[r].cal] = None THEN cal
                  ELSE [c \in Cals |-> IF c = req[r].cal THEN TRUE
                                       ELSE IF c \in clear /\ cal[c] # None THEN FALSE ELSE cal[c]]
    /\ Then(r, Idle) /\ UNCHANGED <<event, rsvp, shared, chosen, made>>

(* Mutant: the default calendar may be deleted. *)
DeleteCalendarMutant(r, c) ==
    /\ cal[c] # None
    /\ Start(r, [op |-> "delete", cal |-> c, ids |-> {e \in Events : event[e] = c}])
    /\ UNCHANGED <<cal, event, rsvp, shared, chosen>>

(* delete_calendar: the calendar is read, and is not the default one, *)
DeleteCalendar(r, c) ==
    /\ cal[c] # None /\ ~cal[c]
    /\ Start(r, [op |-> "delete", cal |-> c, ids |-> {e \in Events : event[e] = c}])
    /\ UNCHANGED <<cal, event, rsvp, shared, chosen>>

(* Mutant: the events of the calendar stay. *)
DeleteRowsMutant(r) ==
    /\ At(r, "delete")
    /\ cal' = [cal EXCEPT ![req[r].cal] = None]
    /\ Then(r, [op |-> "revoke", cal |-> req[r].cal]) /\ UNCHANGED <<event, rsvp, shared, chosen, made>>

(* then goes with its events and the attendees of those it had, *)
DeleteRows(r) ==
    /\ At(r, "delete")
    /\ cal' = [cal EXCEPT ![req[r].cal] = None]
    /\ event' = [e \in Events |-> IF event[e] = req[r].cal THEN None ELSE event[e]]
    /\ rsvp' = [e \in Events |-> IF e \in req[r].ids THEN [g \in Guests |-> None] ELSE rsvp[e]]
    /\ Then(r, [op |-> "revoke", cal |-> req[r].cal]) /\ UNCHANGED <<shared, chosen, made>>

(* and its grants in a transaction of their own. *)
RevokeGrants(r) ==
    /\ At(r, "revoke") /\ shared' = shared \ {req[r].cal}
    /\ Then(r, Idle) /\ UNCHANGED <<cal, event, rsvp, chosen, made>>

-----------------------------------------------------------------------------
(* create_event: write access to the calendar, *)
CreateEvent(r, c) ==
    /\ cal[c] # None /\ Start(r, [op |-> "insert", cal |-> c])
    /\ UNCHANGED <<cal, event, rsvp, shared, chosen>>

(* the row, then its attendees, who are read and replaced. *)
InsertEvent(r) ==
    /\ At(r, "insert")
    /\ \E e \in Events \ made.events, G \in SUBSET Guests :
          /\ event' = [event EXCEPT ![e] = req[r].cal]
          /\ made' = [made EXCEPT !.events = @ \cup {e}]
          /\ Then(r, IF G = {} THEN Idle ELSE [op |-> "attendees", event |-> e, guests |-> G, old |-> rsvp[e]])
    /\ UNCHANGED <<cal, rsvp, shared, chosen>>

(* update_event: access to the event's calendar, and to the one it moves   *)
(* to.                                                                     *)
UpdateEvent(r, e) ==
    /\ event[e] \in Existing
    /\ \E c \in Existing, G \in SUBSET Guests \cup {None} :
          Start(r, [op |-> "update", event |-> e, cal |-> c, guests |-> G])
    /\ UNCHANGED <<cal, event, rsvp, shared, chosen>>

(* update_event_by_id reads the event; set_attendees commits, and with it  *)
(* the other columns.                                                      *)
ReadEvent(r) ==
    /\ At(r, "update")
    /\ Then(r, IF event[req[r].event] = None THEN Idle
               ELSE IF req[r].guests = None
                 THEN [op |-> "move", event |-> req[r].event, cal |-> req[r].cal]
               ELSE [op |-> "replace", event |-> req[r].event, cal |-> req[r].cal,
                     guests |-> req[r].guests, old |-> rsvp[req[r].event],
                     same |-> event[req[r].event] = req[r].cal])
    /\ UNCHANGED <<cal, event, rsvp, shared, chosen, made>>

(* The row of an event that is gone cannot be updated: the request fails. *)
MoveEvent(r) ==
    /\ At(r, "move")
    /\ event' = [event EXCEPT ![req[r].event] = IF @ = None THEN None ELSE req[r].cal]
    /\ Then(r, Idle) /\ UNCHANGED <<cal, rsvp, shared, chosen, made>>

(* Mutant: everybody is asked again. *)
AttendeesMutant(old, G) == [g \in Guests |-> IF g \in G THEN "pending" ELSE None]

(* Mutant: a newly invited guest has accepted. *)
AcceptedMutant(old, G) ==
    [g \in Guests |-> IF g \notin G THEN None ELSE IF old[g] = None THEN "accepted" ELSE old[g]]

(* set_attendees: existing_status.get(user_id, 'pending') *)
Attendees(old, G) ==
    [g \in Guests |-> IF g \notin G THEN None ELSE IF old[g] = None THEN "pending" ELSE old[g]]

Invite(r) ==
    /\ rsvp' = [rsvp EXCEPT ![req[r].event] = Attendees(req[r].old, req[r].guests)]
    /\ chosen' = [chosen EXCEPT ![req[r].event] =
                    [g \in Guests |-> IF g \in req[r].guests THEN @[g] ELSE [last |-> None, ever |-> @[g].ever]]]

SetAttendees(r) ==
    /\ At(r, "attendees") /\ Invite(r)
    /\ Then(r, Idle) /\ UNCHANGED <<cal, event, shared, made>>

(* As part of an update that changes the row itself, an event deleted      *)
(* meanwhile fails the flush and the attendees with it.                    *)
ReplaceAttendees(r) ==
    /\ At(r, "replace")
    /\ \/ /\ event[req[r].event] = None
          /\ UNCHANGED <<event, rsvp, chosen>>
       \/ /\ event[req[r].event] # None
          /\ event' = [event EXCEPT ![req[r].event] = req[r].cal] /\ Invite(r)
       \/ /\ event[req[r].event] = None /\ req[r].same
          /\ Invite(r) /\ UNCHANGED event
    /\ Then(r, Idle) /\ UNCHANGED <<cal, shared, made>>

(* delete_event, and the check before it. *)
DeleteEvent(r, e) ==
    /\ event[e] \in Existing /\ Start(r, Idle)
    /\ event' = [event EXCEPT ![e] = None] /\ rsvp' = [rsvp EXCEPT ![e] = [g \in Guests |-> None]]
    /\ UNCHANGED <<cal, shared, chosen>>

(* rsvp_event: a guest answers for themselves. *)
Rsvp(r, e, g, s) ==
    /\ rsvp[e][g] # None /\ Start(r, Idle)
    /\ rsvp' = [rsvp EXCEPT ![e][g] = s]
    /\ chosen' = [chosen EXCEPT ![e][g] = [last |-> s, ever |-> @.ever \cup {s}]]
    /\ UNCHANGED <<cal, event, shared>>

Next ==
    \/ \E r \in Requests :
          \/ ListCalendars(r) \/ CreateDefault(r) \/ CreateCalendar(r) \/ SetGrants(r)
          \/ CommitDefault(r) \/ DeleteRows(r) \/ RevokeGrants(r) \/ InsertEvent(r)
          \/ ReadEvent(r) \/ MoveEvent(r) \/ SetAttendees(r) \/ ReplaceAttendees(r)
          \/ \E c \in Cals : ShareCalendar(r, c) \/ SetDefault(r, c) \/ DeleteCalendar(r, c) \/ CreateEvent(r, c)
          \/ \E e \in Events :
                \/ UpdateEvent(r, e) \/ DeleteEvent(r, e)
                \/ \E g \in Guests, s \in Statuses : Rsvp(r, e, g, s)

Spec == Init /\ [][Next]_vars

-----------------------------------------------------------------------------
(* "Set a calendar as the user's default, clearing all others": a user has *)
(* at most one default calendar.                                           *)
OneDefault == Cardinality(Defaults) <= 1

(* "Delete a non-default calendar": a user who has a default calendar      *)
(* keeps one, whatever is deleted.                                         *)
DefaultStays == Defaults # {} => Defaults' # {}

(* "Cascades to events, attendees, and grants": an event belongs to a      *)
(* calendar that exists.                                                   *)
NoOrphans == \A e \in Events : event[e] # None => cal[event[e]] # None

(* "An existing attendee keeps their status": a guest who has answered     *)
(* and is still invited has the answer they gave.                          *)
AnswerKept == \A e \in Events, g \in Guests :
    rsvp[e][g] # None /\ chosen[e][g].last # None => rsvp[e][g] = chosen[e][g].last

(* "So an organiser cannot set it for others": whatever runs concurrently, *)
(* a status other than 'pending' is one the guest has given.               *)
AnsweredThemselves == \A e \in Events, g \in Guests :
    rsvp[e][g] \notin {None, "pending"} => rsvp[e][g] \in chosen[e][g].ever
=============================================================================
