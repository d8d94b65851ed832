----------------------------- MODULE Recurrence -----------------------------
(* Recurrence rules: utils/recurrence.py, the occurrences that             *)
(* utils/calendar.py expands and the runs of an automation that            *)
(* routers/calendar.py shows.  A rule has one step (its FREQ times its     *)
(* INTERVAL), perhaps a DTSTART and perhaps a COUNT; time is counted from  *)
(* the epoch of _parse_rule and the BY... parts are left out.              *)
EXTENDS Integers, FiniteSets, FiniteSetsExt

CONSTANTS Steps,        \* steps of rules
          DtStarts,     \* values of DTSTART
          Counts,       \* values of COUNT
          Anchored,     \* whether a rule may have a DTSTART
          MaxEmitted,   \* 100_000 in _parse_rule
          MaxClock,     \* bound on the clock
          MaxToggles    \* bound on the times next_run_at is computed anew

RecurrenceAssumption ==
    /\ Steps \subseteq Nat \ {0} /\ DtStarts \subseteq Nat /\ Counts \subseteq Nat \ {0}
    /\ Anchored \in BOOLEAN /\ MaxEmitted \in Nat /\ MaxClock \in Nat /\ MaxToggles \in Nat

VARIABLES rule, clock,
          next,         \* next_run_at of an automation with the rule, or Never
          fired,        \* when it ran
          toggles
vars == <<rule, clock, next, fired, toggles>>

Never   == -1           \* no DTSTART, no next run
Forever == 0            \* no COUNT

(* Rules that validate_rrule takes: COUNT requires DTSTART. *)
Rules ==
    {r \in [step : Steps, start : DtStarts \cup {Never}, count : Counts \cup {Forever}, sub : BOOLEAN] :
        (r.count # Forever => r.start # Never) /\ (~Anchored => r.start = Never)}

-----------------------------------------------------------------------------
Max2(a, b) == IF a > b THEN a ELSE b

(* Mutant: DTSTART is never used. *)
UnanchoredMutant(r, now) ==
    IF ~r.sub THEN IF r.start = Never THEN now ELSE r.start ELSE (now \div r.step) * r.step

(* Mutant: the step is counted from one past the epoch. *)
ShiftedMutant(r, now) ==
    IF ~r.sub THEN IF r.start = Never THEN now ELSE r.start
    ELSE IF r.start # Never /\ (Max2(now - r.start, 0) \div r.step) <= MaxEmitted THEN r.start
    ELSE (now \div r.step) * r.step + 1

(* Mutant: a rule without DTSTART starts now. *)
FromNowMutant(r, now) ==
    IF r.start = Never THEN now
    ELSE IF ~r.sub \/ (Max2(now - r.start, 0) \div r.step) <= MaxEmitted THEN r.start
    ELSE (now \div r.step) * r.step

(* _parse_rule: the DTSTART a rule is evaluated from.  A rule of hours,    *)
(* minutes or seconds that would emit too many occurrences before now is   *)
(* aligned to the epoch instead.                                           *)
ParseRule(r, now) ==
    IF ~r.sub THEN IF r.start = Never THEN now ELSE r.start
    ELSE IF r.start # Never /\ (Max2(now - r.start, 0) \div r.step) <= MaxEmitted THEN r.start
    ELSE (now \div r.step) * r.step

(* Occurrences of a rule from a DTSTART, as far as the bounds look. *)
Horizon == MaxClock + 2 * Max(Steps)
Occurrences(r, dtstart) ==
    {t \in dtstart..Horizon : /\ (t - dtstart) % r.step = 0
                              /\ r.count # Forever => (t - dtstart) \div r.step < r.count}

(* next_run_ns: rule.after(now) *)
NextRun(r, now) ==
    LET later == {t \in Occurrences(r, ParseRule(r, now)) : t > now}
    IN  IF later = {} THEN Never ELSE Min(later)

(* Mutant: occurrences that began before the range are left out. *)
ExpandMutant(r, start, length, from, to) ==
    {t \in Occurrences(r, start) : t >= from /\ t < to}

(* expand_recurring_event: the occurrences of an event in a range, those   *)
(* that began before it and still run included.                            *)
Expand(r, start, length, from, to) ==
    {t \in Occurrences(r, start) :
        t >= from - length - 1 /\ t < to /\ (t >= from \/ t + length > from)}

(* Mutant: a rule with COUNT is shown from the next run on as well. *)
ShownMutant(from, to) ==
    IF next = Never THEN {} ELSE Expand(rule, Max2(next, 0), 0, Max2(from, clock), to)

(* get_events: the runs to come of an active automation. *)
Shown(from, to) ==
    LET start == IF rule.count # Forever /\ rule.start # Never THEN ParseRule(rule, clock) ELSE Max2(next, 0)
    IN  IF next = Never THEN {} ELSE Expand(rule, start, 0, Max2(from, clock), to)

-----------------------------------------------------------------------------
Init ==
    /\ rule \in Rules /\ clock \in 0..Max(Steps) /\ fired = {} /\ toggles = 0
    /\ next = NextRun(rule, clock)
    /\ next # Never

Tick ==
    /\ clock < MaxClock /\ clock' = clock + 1
    /\ UNCHANGED <<rule, next, fired, toggles>>

(* claim_due, at the poll that comes first or later. *)
Claim ==
    /\ next # Never /\ next <= clock
    /\ fired' = fired \cup {next} /\ next' = NextRun(rule, clock)
    /\ UNCHANGED <<rule, clock, toggles>>

(* The automation is saved or switched on again. *)
Toggle ==
    /\ toggles < MaxToggles /\ toggles' = toggles + 1
    /\ next' = NextRun(rule, clock)
    /\ UNCHANGED <<rule, clock, fired>>

Next == Tick \/ Claim \/ Toggle
Spec == Init /\ [][Next]_vars

-----------------------------------------------------------------------------
(* An occurrence still to come is the next one whenever it is asked for:   *)
(* saving an automation neither skips nor repeats a run of a rule of hours *)
(* or minutes.                                                             *)
Settled == rule.sub /\ next > clock => NextRun(rule, clock) = next

(* "Intervals snap to clock boundaries": runs of a rule of hours or        *)
(* minutes are multiples of its step.                                      *)
SnapsToClock == rule.sub => \A t \in fired : t % rule.step = 0

(* "Raise ValueError if the RRULE is malformed or exhausted": a rule with  *)
(* COUNT runs no more often than that, however often it is saved.          *)
CountHolds == rule.count # Forever => Cardinality(fired) <= rule.count

(* "COUNT runs from DTSTART, anchoring on the next run would restart it":  *)
(* the runs to come that the calendar shows are the ones the scheduler     *)
(* will make.  A rule of days without DTSTART starts anew whenever it is   *)
(* evaluated, and has no such runs to compare with.                        *)
ShowsRuns ==
    (rule.sub \/ rule.start # Never) /\ next > clock =>
        \A to \in (clock + 1)..Horizon :
            {t \in Shown(0, to) : t > clock} =
                {t \in Occurrences(rule, ParseRule(rule, clock)) : clock < t /\ t < to}

(* expand_recurring_event shows exactly the occurrences that share a       *)
(* moment with the range: an event that began before the range and is      *)
(* still running is among them.                                            *)
ExpandsRange ==
    rule.start # Never => \A length \in {0, 1, 3}, to \in {clock + 1, clock + 4} :
        Expand(rule, rule.start, length, clock, to) =
            {t \in Occurrences(rule, rule.start) :
                \E m \in t..(t + Max2(length - 1, 0)) : m >= clock /\ t < to}
=============================================================================
