----------------------------- MODULE MCSchedules -----------------------------
(***************************************************************************)
(* Credits and what runs by the clock: the ledger and its prices, timers,  *)
(* automations, calendars and their alerts, recurrence rules, the task     *)
(* registry and the stored copy of a reply.  Each scenario is one of these *)
(* components under bounds of its own; they share no state, so a behaviour *)
(* runs one of them and the variables of the others stay Off, those of     *)
(* CreditLedger as they begin.                                             *)
(***************************************************************************)
EXTENDS CreditLedger

CONSTANTS Off, a1, a2, c1, c2, e1, g1, i1, p1, p2, r1, r2, t1, t2, t3, w1, w2

VARIABLES which,   \* the scenario that runs
          creditPricingForm, minCost, freeEmpty, balance, tokens, official, isError, chunks,
          phase, charge,
          timersRow, timersSel, jobs, busy, canc, children, chat, hist, fires, replies, cancels,
          timersCrashes,
          home, task, tasks, itemTasks, saving, cleaning, key, hash, items, sub, inbox,
          cancelled, stopped, stops, drops, errors, taskRegistryCrashes,
          out, value, strlen, streamSize, snapshotSize, pc, late, responseStreamFaults,
          automationsRow, creating, automationsSel, execs, runs, folders, occurred, claimed,
          started, gone, deleting, automationsEdits, automationsFaults,
          automationsCrashes,
          calendarAlertsClock, ev, inst, calendarAlertsForm, emitted, since,
          calendarAlertsEdits, metaEdits, calendarAlertsCrashes,
          cal, event, rsvp, shared, calendarReq, chosen, made,
          rule, recurrenceClock, next, fired, toggles

Ledger == INSTANCE CreditLedger WITH
    Reqs <- {r1, r2}, Attempts <- {a1, a2}, Workers <- {w1}, Price <- 2, Default <- 2,
    Reward <- 1, ResetTo <- 2, Serialised <- TRUE, Redis <- TRUE, MaxDay <- 2,
    MaxAdmin <- 1, MaxCrashes <- 0
Pricing == INSTANCE CreditPricing WITH
    Sources <- {"metadata"}, MinCosts <- {0}, MaxFees <- 1, MaxChunks <- 2,
    form <- creditPricingForm
Timing == INSTANCE Timers WITH
    Timers <- {t1, t2}, Cancellable <- {t1}, Workers <- {w1, w2}, Postgres <- TRUE,
    MaxReplies <- 1, MaxCancels <- 1, MaxDeletes <- 1, MaxCrashes <- 1, row <- timersRow,
    sel <- timersSel, crashes <- timersCrashes
TimingAlone == INSTANCE Timers WITH
    Timers <- {t1, t2}, Cancellable <- {t1}, Workers <- {w1}, Postgres <- FALSE,
    MaxReplies <- 1, MaxCancels <- 1, MaxDeletes <- 1, MaxCrashes <- 0, row <- timersRow,
    sel <- timersSel, crashes <- timersCrashes
Registry == INSTANCE TaskRegistry WITH
    Tasks <- {t1, t2}, Procs <- {p1, p2}, Redis <- TRUE, MaxStops <- 1, MaxDrops <- 1,
    MaxErrors <- 0, MaxCrashes <- 1, crashes <- taskRegistryCrashes
LocalRegistry == INSTANCE TaskRegistry WITH
    Tasks <- {t1, t2, t3}, Procs <- {p1}, Redis <- FALSE, MaxStops <- 2, MaxDrops <- 0,
    MaxErrors <- 0, MaxCrashes <- 0, crashes <- taskRegistryCrashes
Stream == INSTANCE ResponseStream WITH
    Lens <- {1, 2}, Base <- 30, Overhead <- 11, MaxDeltas <- 5, MaxFaults <- 3, MaxLate <- 1,
    faults <- responseStreamFaults
Automated == INSTANCE Automations WITH
    Autos <- {a1}, Workers <- {w1, w2}, Postgres <- TRUE, MaxCount <- 2, MaxDue <- 2,
    MaxEdits <- 1, MaxFaults <- 1, MaxCrashes <- 1, row <- automationsRow,
    sel <- automationsSel, edits <- automationsEdits, faults <- automationsFaults,
    crashes <- automationsCrashes
AlertsGrace == INSTANCE CalendarAlerts WITH
    Instances <- {i1}, Starts <- {2, 7}, Leads <- {0, 3}, Poll <- 3, Jitter <- 1,
    TimerPoll <- 1, Slack <- 2, Work <- 0, MaxClock <- 13, MaxEdits <- 1, MaxMetaEdits <- 1,
    MaxCrashes <- 1, clock <- calendarAlertsClock, form <- calendarAlertsForm,
    edits <- calendarAlertsEdits, crashes <- calendarAlertsCrashes
CalTwo == INSTANCE Calendar WITH
    Cals <- {c1, c2}, Events <- {e1}, Guests <- {g1}, Requests <- {r1, r2}, Postgres <- TRUE,
    MaxOps <- 5, req <- calendarReq
Rule == INSTANCE Recurrence WITH
    Steps <- {2, 3}, DtStarts <- {1, 4}, Counts <- {2}, Anchored <- TRUE, MaxEmitted <- 100,
    MaxClock <- 12, MaxToggles <- 2, clock <- recurrenceClock

(* The bounds of every scenario are what its module expects. *)
ASSUME SchedulesAssumption ==
    /\ Ledger!CreditLedgerAssumption /\ CreditLedgerAssumption
    /\ Pricing!CreditPricingAssumption /\ Timing!TimersAssumption
    /\ TimingAlone!TimersAssumption /\ Registry!TaskRegistryAssumption
    /\ LocalRegistry!TaskRegistryAssumption /\ Stream!ResponseStreamAssumption
    /\ Automated!AutomationsAssumption /\ AlertsGrace!CalendarAlertsAssumption
    /\ CalTwo!CalendarAssumption /\ Rule!RecurrenceAssumption

CreditPricingOff ==
    /\ creditPricingForm = Off /\ minCost = Off /\ freeEmpty = Off /\ balance = Off /\ tokens = Off
    /\ official = Off /\ isError = Off /\ chunks = Off /\ phase = Off /\ charge = Off
TimersOff ==
    /\ timersRow = Off /\ timersSel = Off /\ jobs = Off /\ busy = Off /\ canc = Off
    /\ children = Off /\ chat = Off /\ hist = Off /\ fires = Off /\ replies = Off
    /\ cancels = Off /\ timersCrashes = Off
TaskRegistryOff ==
    /\ home = Off /\ task = Off /\ tasks = Off /\ itemTasks = Off /\ saving = Off
    /\ cleaning = Off /\ key = Off /\ hash = Off /\ items = Off /\ sub = Off
    /\ inbox = Off /\ cancelled = Off /\ stopped = Off /\ stops = Off /\ drops = Off
    /\ errors = Off /\ taskRegistryCrashes = Off
ResponseStreamOff ==
    /\ out = Off /\ value = Off /\ strlen = Off /\ streamSize = Off /\ snapshotSize = Off
    /\ pc = Off /\ late = Off /\ responseStreamFaults = Off
AutomationsOff ==
    /\ automationsRow = Off /\ creating = Off /\ automationsSel = Off /\ execs = Off /\ runs = Off
    /\ folders = Off /\ occurred = Off /\ claimed = Off /\ started = Off /\ gone = Off
    /\ deleting = Off /\ automationsEdits = Off /\ automationsFaults = Off /\ automationsCrashes = Off
CalendarAlertsOff ==
    /\ calendarAlertsClock = Off /\ ev = Off /\ inst = Off /\ calendarAlertsForm = Off /\ emitted = Off
    /\ since = Off /\ calendarAlertsEdits = Off /\ metaEdits = Off /\ calendarAlertsCrashes = Off
CalendarOff ==
    /\ cal = Off /\ event = Off /\ rsvp = Off /\ shared = Off /\ calendarReq = Off
    /\ chosen = Off /\ made = Off
RecurrenceOff ==
    /\ rule = Off /\ recurrenceClock = Off /\ next = Off /\ fired = Off /\ toggles = Off

CreditLedgerVars == vars
CreditPricingVars == <<creditPricingForm, minCost, freeEmpty, balance, tokens, official, isError, chunks, phase,
    charge>>
TimersVars == <<timersRow, timersSel, jobs, busy, canc, children, chat, hist, fires, replies, cancels,
    timersCrashes>>
TaskRegistryVars == <<home, task, tasks, itemTasks, saving, cleaning, key, hash, items, sub, inbox, cancelled,
    stopped, stops, drops, errors, taskRegistryCrashes>>
ResponseStreamVars == <<out, value, strlen, streamSize, snapshotSize, pc, late, responseStreamFaults>>
AutomationsVars == <<automationsRow, creating, automationsSel, execs, runs, folders, occurred, claimed, started,
    gone, deleting, automationsEdits, automationsFaults, automationsCrashes>>
CalendarAlertsVars == <<calendarAlertsClock, ev, inst, calendarAlertsForm, emitted, since, calendarAlertsEdits,
    metaEdits, calendarAlertsCrashes>>
CalendarVars == <<cal, event, rsvp, shared, calendarReq, chosen, made>>
RecurrenceVars == <<rule, recurrenceClock, next, fired, toggles>>
MCVars == <<which, CreditLedgerVars, CreditPricingVars, TimersVars, TaskRegistryVars, ResponseStreamVars,
    AutomationsVars, CalendarAlertsVars, CalendarVars, RecurrenceVars>>

MCInit ==
    /\ which \in {"ledger", "reset", "pricing", "timers", "timers_one", "tasks", "tasks_local",
                "stream", "automations", "grace", "calendar_two", "rule"}
    /\ CASE which = "ledger" -> Ledger!Init
         [] OTHER -> Init
    /\ CASE which = "pricing" -> Pricing!Init
         [] OTHER -> CreditPricingOff
    /\ CASE which = "timers" -> Timing!Init
         [] which = "timers_one" -> TimingAlone!Init
         [] OTHER -> TimersOff
    /\ CASE which = "tasks" -> Registry!Init
         [] which = "tasks_local" -> LocalRegistry!Init
         [] OTHER -> TaskRegistryOff
    /\ CASE which = "stream" -> Stream!Init
         [] OTHER -> ResponseStreamOff
    /\ CASE which = "automations" -> Automated!Init
         [] OTHER -> AutomationsOff
    /\ CASE which = "grace" -> AlertsGrace!Init
         [] OTHER -> CalendarAlertsOff
    /\ CASE which = "calendar_two" -> CalTwo!Init
         [] OTHER -> CalendarOff
    /\ CASE which = "rule" -> Rule!Init
         [] OTHER -> RecurrenceOff

MCNext ==
    \/ /\ which = "ledger" /\ Ledger!Next
       /\ UNCHANGED <<which, CreditPricingVars, TimersVars, TaskRegistryVars, ResponseStreamVars,
                    AutomationsVars, CalendarAlertsVars, CalendarVars,
                    RecurrenceVars>>
    \/ /\ which = "reset" /\ Next
       /\ UNCHANGED <<which, CreditPricingVars, TimersVars, TaskRegistryVars, ResponseStreamVars,
                    AutomationsVars, CalendarAlertsVars, CalendarVars,
                    RecurrenceVars>>
    \/ /\ which = "pricing" /\ Pricing!Next
       /\ UNCHANGED <<which, CreditLedgerVars, TimersVars, TaskRegistryVars, ResponseStreamVars,
                    AutomationsVars, CalendarAlertsVars, CalendarVars,
                    RecurrenceVars>>
    \/ /\ which = "timers" /\ Timing!Next
       /\ UNCHANGED <<which, CreditLedgerVars, CreditPricingVars, TaskRegistryVars,
                    ResponseStreamVars, AutomationsVars, CalendarAlertsVars,
                    CalendarVars, RecurrenceVars>>
    \/ /\ which = "timers_one" /\ TimingAlone!Next
       /\ UNCHANGED <<which, CreditLedgerVars, CreditPricingVars, TaskRegistryVars,
                    ResponseStreamVars, AutomationsVars, CalendarAlertsVars,
                    CalendarVars, RecurrenceVars>>
    \/ /\ which = "tasks" /\ Registry!Next
       /\ UNCHANGED <<which, CreditLedgerVars, CreditPricingVars, TimersVars, ResponseStreamVars,
                    AutomationsVars, CalendarAlertsVars, CalendarVars,
                    RecurrenceVars>>
    \/ /\ which = "tasks_local" /\ LocalRegistry!Next
       /\ UNCHANGED <<which, CreditLedgerVars, CreditPricingVars, TimersVars, ResponseStreamVars,
                    AutomationsVars, CalendarAlertsVars, CalendarVars,
                    RecurrenceVars>>
    \/ /\ which = "stream" /\ Stream!Next
       /\ UNCHANGED <<which, CreditLedgerVars, CreditPricingVars, TimersVars, TaskRegistryVars,
                    AutomationsVars, CalendarAlertsVars, CalendarVars,
                    RecurrenceVars>>
    \/ /\ which = "automations" /\ Automated!Next
       /\ UNCHANGED <<which, CreditLedgerVars, CreditPricingVars, TimersVars, TaskRegistryVars,
                    ResponseStreamVars, CalendarAlertsVars, CalendarVars,
                    RecurrenceVars>>
    \/ /\ which = "grace" /\ AlertsGrace!Next
       /\ UNCHANGED <<which, CreditLedgerVars, CreditPricingVars, TimersVars, TaskRegistryVars,
                    ResponseStreamVars, AutomationsVars, CalendarVars,
                    RecurrenceVars>>
    \/ /\ which = "calendar_two" /\ CalTwo!Next
       /\ UNCHANGED <<which, CreditLedgerVars, CreditPricingVars, TimersVars, TaskRegistryVars,
                    ResponseStreamVars, AutomationsVars, CalendarAlertsVars,
                    RecurrenceVars>>
    \/ /\ which = "rule" /\ Rule!Next
       /\ UNCHANGED <<which, CreditLedgerVars, CreditPricingVars, TimersVars, TaskRegistryVars,
                    ResponseStreamVars, AutomationsVars, CalendarAlertsVars,
                    CalendarVars>>

MCSpec == MCInit /\ [][MCNext]_MCVars

-----------------------------------------------------------------------------
(* A balance that passed the check covers the charge (check_credit_by_user_id
   against CreditDeduct.total_price). *)
CheckCoversCharge == which = "pricing" => Pricing!CheckCoversCharge

(* "Durable one-shot timers": the prompt of a timer is sent into the chat at
   most once (execute_due_timer), whatever the processes, cancellations and
   busy chats do. *)
FiresOnce ==
    /\ which = "timers" => Timing!FiresOnce
    /\ which = "timers_one" => TimingAlone!FiresOnce

(* has_active_tasks does not miss a reply: a task that was registered, is
   running and was not stopped is listed, in whichever process it runs,
   although redis_list_tasks removes entries whose key is gone. *)
RunningListed ==
    /\ which = "tasks" => Registry!RunningListed
    /\ which = "tasks_local" => LocalRegistry!RunningListed

(* Whoever loads the value (load_response_stream) gets a prefix of the reply:
   no delta is missing, repeated or out of order, whatever commands failed,
   were retried or expired. *)
ReadsPrefix == which = "stream" => Stream!ReadsPrefix

(* "Advances next_run_at immediately so the row can never be double-claimed":
   an automation is claimed at most once for each time it became due. *)
ClaimedOnce == which = "automations" => Automated!ClaimedOnce

(* "Grace window covers one poll cycle + jitter so 'At time of event' alerts
   (alert_minutes=0) are not missed": an event that was not edited after its
   start has been alerted once the window has passed. *)
NotMissed == which = "grace" => AlertsGrace!NotMissed

(* "So an organiser cannot set it for others": whatever runs concurrently, a
   status other than 'pending' is one the guest has given. *)
AnsweredThemselves == which = "calendar_two" => CalTwo!AnsweredThemselves

(* "Raise ValueError if the RRULE is malformed or exhausted": a rule with
   COUNT runs no more often than that, however often it is saved. *)
CountHolds == which = "rule" => Rule!CountHolds
=============================================================================
