----------------------------- MODULE MCProgress -----------------------------
(***************************************************************************)
(* What must eventually happen, of every component that promises it.  Each *)
(* scenario is one component under bounds of its own; a behaviour runs one *)
(* of them and the variables of the others stay Off.                       *)
(***************************************************************************)
EXTENDS Naturals

CONSTANTS Direct, None, Off, a, a1, a2, c1, c2, d1, d2, e1, j1, j2, main, n1, n2, p1, p2, r1,
          r2, s1, t1, t2, v1, v2, w1, w2

VARIABLES which,   \* the scenario that runs
          q, accepting, shutdown, bypassed,
          eventLedgerEventOf, workerOf, epochOf, eventLedgerEpoch, eventLedgerRow,
          eventLedgerPc, record, message, answer, moved,
          gatewayReplayEventOf, gatewayReplayPc, inFlight, joined, store, reply, retry, sent,
          outcome,
          shardCoordinationLease, shardCoordinationEpoch, target, leader, heartbeat, drainKey,
          wpc, choice, sqlGen, mirror, up, draining, shardCoordinationHeld, host,
          shardCoordinationChildren, sync, want, mine, drain, renew, asked, fence,
          flight, accepted, shardCoordinationFaults,
          running, breaker, shardSupervisorPc, copy, timer, shardSupervisorFaults,
          shardSupervisorResets,
          credit, log, creditLedgerReq, day, checkins, rewarded, try, mark, lock,
          creditLedgerJob, creditLedgerResets, due, admin, creditLedgerCrashes,
          timersRow, timersSel, jobs, timersBusy, canc, timersChildren, chat, hist, fires,
          replies, cancels, timersCrashes,
          home, task, tasks, itemTasks, saving, cleaning, key, hash, items, sub, inbox,
          cancelled, stopped, stops, taskRegistryDrops, taskRegistryErrors,
          taskRegistryCrashes,
          automationsRow, creating, automationsSel, execs, runs, folders, occurred, claimed,
          started, gone, deleting, edits, automationsFaults, automationsCrashes,
          used, live, closing, rooms, sessionPoolPool, access, beat, sessionPoolJob, refresh,
          sessionPoolLease, reaper, reaping, sessionPoolHeld, beats, joins, revokes,
          sessionPoolCrashes, lapses,
          roomChannelsCall, dirty, queued, roomChannelsBusy, batch, serial, chans, dropping,
          pipe, back, subs, reconnects, roomChannelsErrors,
          appConnectionsRow, server, appConnectionsReq, peer, installs, requests,
          appConnectionsDrops,
          sid, made, eventCallPool, shown, eventCallCall

Queue == INSTANCE FairConnectionQueue WITH
    Connections <- {c1, c2}, Sizes <- {1}, maxGlobalActive <- 2, maxConnectionActive <- 2,
    maxGlobalQueued <- 4, maxConnectionQueued <- 3, maxQueuedBytes <- 4, MaxBypass <- 3
Ledger == INSTANCE EventLedger WITH
    Requests <- {r1, r2}, Events <- {e1}, Workers <- {w1, w2}, LockSpans <- TRUE, MaxEpoch <- 0,
    eventOf <- eventLedgerEventOf, epoch <- eventLedgerEpoch, row <- eventLedgerRow,
    pc <- eventLedgerPc
Replay == INSTANCE GatewayReplay WITH
    Deliveries <- {d1, d2}, Events <- {e1}, Replies <- {v1, v2}, LeaseCovers <- TRUE,
    eventOf <- gatewayReplayEventOf, pc <- gatewayReplayPc
Shard == INSTANCE ShardCoordination WITH
    Nodes <- {n1, n2}, Workers <- {w1}, MaxEpoch <- 3, MaxGen <- 0, Kinds <- {"lapse", "fail"},
    MaxFaults <- 2, lease <- shardCoordinationLease, epoch <- shardCoordinationEpoch,
    held <- shardCoordinationHeld, children <- shardCoordinationChildren,
    faults <- shardCoordinationFaults
Supervisor == INSTANCE ShardSupervisor WITH
    Calls <- {c1, c2}, Limit <- 2, MaxFaults <- 3, MaxResets <- 1, Reconciles <- TRUE,
    pc <- shardSupervisorPc, faults <- shardSupervisorFaults,
    resets <- shardSupervisorResets
Single == INSTANCE ShardSupervisor WITH
    Calls <- {c1, c2}, Limit <- 2, MaxFaults <- 2, MaxResets <- 1, Reconciles <- FALSE,
    pc <- shardSupervisorPc, faults <- shardSupervisorFaults,
    resets <- shardSupervisorResets
Reset == INSTANCE CreditLedger WITH
    Reqs <- {}, Attempts <- {a1}, Workers <- {w1, w2}, Price <- 2, Default <- 2, Reward <- 1,
    ResetTo <- 2, Serialised <- TRUE, Redis <- TRUE, MaxDay <- 2, MaxAdmin <- 0,
    MaxCrashes <- 1, req <- creditLedgerReq, job <- creditLedgerJob,
    resets <- creditLedgerResets, crashes <- creditLedgerCrashes
Timing == INSTANCE Timers WITH
    Timers <- {t1}, Cancellable <- {t1}, Workers <- {w1, w2}, Postgres <- TRUE, MaxReplies <- 1,
    MaxCancels <- 1, MaxDeletes <- 1, MaxCrashes <- 0, row <- timersRow, sel <- timersSel,
    busy <- timersBusy, children <- timersChildren, crashes <- timersCrashes
Tasked == INSTANCE TaskRegistry WITH
    Tasks <- {t1}, Procs <- {p1, p2}, Redis <- TRUE, MaxStops <- 1, MaxDrops <- 1,
    MaxErrors <- 0, MaxCrashes <- 1, drops <- taskRegistryDrops,
    errors <- taskRegistryErrors, crashes <- taskRegistryCrashes
Local == INSTANCE TaskRegistry WITH
    Tasks <- {t1, t2}, Procs <- {p1}, Redis <- FALSE, MaxStops <- 2, MaxDrops <- 0,
    MaxErrors <- 0, MaxCrashes <- 0, drops <- taskRegistryDrops,
    errors <- taskRegistryErrors, crashes <- taskRegistryCrashes
Automated == INSTANCE Automations WITH
    Autos <- {a1, a2}, Workers <- {w1, w2}, Postgres <- TRUE, MaxCount <- 2, MaxDue <- 1,
    MaxEdits <- 0, MaxFaults <- 0, MaxCrashes <- 1, row <- automationsRow,
    sel <- automationsSel, faults <- automationsFaults, crashes <- automationsCrashes
Pool == INSTANCE SessionPool WITH
    Workers <- {w1, w2}, Sessions <- {s1}, Chats <- {a}, Main <- w1, MaxBeats <- 1,
    MaxJoins <- 1, MaxRevokes <- 0, MaxCrashes <- 1, MaxLapses <- 2, LateBeats <- TRUE,
    pool <- sessionPoolPool, job <- sessionPoolJob, lease <- sessionPoolLease,
    held <- sessionPoolHeld, crashes <- sessionPoolCrashes
Subscriptions == INSTANCE RoomChannels WITH
    Joiners <- {j1, j2}, Rooms <- {a}, Main <- main, MaxReconnects <- 1, MaxErrors <- 1,
    call <- roomChannelsCall, busy <- roomChannelsBusy, errors <- roomChannelsErrors
Apps == INSTANCE AppConnections WITH
    Workers <- {w1, w2}, Admins <- {a1}, Ops <- {"connect", "uninstall", "update"},
    MaxRequests <- 4, MaxDrops <- 1, row <- appConnectionsRow, req <- appConnectionsReq,
    drops <- appConnectionsDrops
Asked == INSTANCE EventCall WITH
    Tabs <- {t1, t2}, MaxConnects <- 2, CanResume <- TRUE, pool <- eventCallPool,
    call <- eventCallCall

(* The bounds of every scenario are what its module expects. *)
ASSUME ProgressAssumption ==
    /\ Queue!FairConnectionQueueAssumption /\ Ledger!EventLedgerAssumption
    /\ Replay!GatewayReplayAssumption /\ Shard!ShardCoordinationAssumption
    /\ Supervisor!ShardSupervisorAssumption /\ Single!ShardSupervisorAssumption
    /\ Reset!CreditLedgerAssumption /\ Timing!TimersAssumption
    /\ Tasked!TaskRegistryAssumption /\ Local!TaskRegistryAssumption
    /\ Automated!AutomationsAssumption /\ Pool!SessionPoolAssumption

FairConnectionQueueOff ==
    /\ q = Off /\ accepting = Off /\ shutdown = Off /\ bypassed = Off
EventLedgerOff ==
    /\ eventLedgerEventOf = Off /\ workerOf = Off /\ epochOf = Off /\ eventLedgerEpoch = Off /\ eventLedgerRow = Off
    /\ eventLedgerPc = Off /\ record = Off /\ message = Off /\ answer = Off /\ moved = Off
GatewayReplayOff ==
    /\ gatewayReplayEventOf = Off /\ gatewayReplayPc = Off /\ inFlight = Off /\ joined = Off /\ store = Off
    /\ reply = Off /\ retry = Off /\ sent = Off /\ outcome = Off
ShardCoordinationOff ==
    /\ shardCoordinationLease = Off /\ shardCoordinationEpoch = Off /\ target = Off /\ leader = Off /\ heartbeat = Off
    /\ drainKey = Off /\ wpc = Off /\ choice = Off /\ sqlGen = Off /\ mirror = Off
    /\ up = Off /\ draining = Off /\ shardCoordinationHeld = Off /\ host = Off /\ shardCoordinationChildren = Off
    /\ sync = Off /\ want = Off /\ mine = Off /\ drain = Off /\ renew = Off
    /\ asked = Off /\ fence = Off /\ flight = Off /\ accepted = Off /\ shardCoordinationFaults = Off
ShardSupervisorOff ==
    /\ running = Off /\ breaker = Off /\ shardSupervisorPc = Off /\ copy = Off /\ timer = Off
    /\ shardSupervisorFaults = Off /\ shardSupervisorResets = Off
CreditLedgerOff ==
    /\ credit = Off /\ log = Off /\ creditLedgerReq = Off /\ day = Off /\ checkins = Off
    /\ rewarded = Off /\ try = Off /\ mark = Off /\ lock = Off /\ creditLedgerJob = Off
    /\ creditLedgerResets = Off /\ due = Off /\ admin = Off /\ creditLedgerCrashes = Off
TimersOff ==
    /\ timersRow = Off /\ timersSel = Off /\ jobs = Off /\ timersBusy = Off /\ canc = Off
    /\ timersChildren = Off /\ chat = Off /\ hist = Off /\ fires = Off /\ replies = Off
    /\ cancels = Off /\ timersCrashes = Off
TaskRegistryOff ==
    /\ home = Off /\ task = Off /\ tasks = Off /\ itemTasks = Off /\ saving = Off
    /\ cleaning = Off /\ key = Off /\ hash = Off /\ items = Off /\ sub = Off
    /\ inbox = Off /\ cancelled = Off /\ stopped = Off /\ stops = Off /\ taskRegistryDrops = Off
    /\ taskRegistryErrors = Off /\ taskRegistryCrashes = Off
AutomationsOff ==
    /\ automationsRow = Off /\ creating = Off /\ automationsSel = Off /\ execs = Off /\ runs = Off
    /\ folders = Off /\ occurred = Off /\ claimed = Off /\ started = Off /\ gone = Off
    /\ deleting = Off /\ edits = Off /\ automationsFaults = Off /\ automationsCrashes = Off
SessionPoolOff ==
    /\ used = Off /\ live = Off /\ closing = Off /\ rooms = Off /\ sessionPoolPool = Off
    /\ access = Off /\ beat = Off /\ sessionPoolJob = Off /\ refresh = Off /\ sessionPoolLease = Off
    /\ reaper = Off /\ reaping = Off /\ sessionPoolHeld = Off /\ beats = Off /\ joins = Off
    /\ revokes = Off /\ sessionPoolCrashes = Off /\ lapses = Off
RoomChannelsOff ==
    /\ roomChannelsCall = Off /\ dirty = Off /\ queued = Off /\ roomChannelsBusy = Off /\ batch = Off
    /\ serial = Off /\ chans = Off /\ dropping = Off /\ pipe = Off /\ back = Off
    /\ subs = Off /\ reconnects = Off /\ roomChannelsErrors = Off
AppConnectionsOff ==
    /\ appConnectionsRow = Off /\ server = Off /\ appConnectionsReq = Off /\ peer = Off /\ installs = Off
    /\ requests = Off /\ appConnectionsDrops = Off
EventCallOff ==
    /\ sid = Off /\ made = Off /\ eventCallPool = Off /\ shown = Off /\ eventCallCall = Off

FairConnectionQueueVars == <<q, accepting, shutdown, bypassed>>
EventLedgerVars == <<eventLedgerEventOf, workerOf, epochOf, eventLedgerEpoch, eventLedgerRow, eventLedgerPc,
    record, message, answer, moved>>
GatewayReplayVars == <<gatewayReplayEventOf, gatewayReplayPc, inFlight, joined, store, reply, retry, sent, outcome>>
ShardCoordinationVars == <<shardCoordinationLease, shardCoordinationEpoch, target, leader, heartbeat, drainKey, wpc,
    choice, sqlGen, mirror, up, draining, shardCoordinationHeld, host,
    shardCoordinationChildren, sync, want, mine, drain, renew, asked, fence, flight,
    accepted, shardCoordinationFaults>>
ShardSupervisorVars == <<running, breaker, shardSupervisorPc, copy, timer, shardSupervisorFaults,
    shardSupervisorResets>>
CreditLedgerVars == <<credit, log, creditLedgerReq, day, checkins, rewarded, try, mark, lock, creditLedgerJob,
    creditLedgerResets, due, admin, creditLedgerCrashes>>
TimersVars == <<timersRow, timersSel, jobs, timersBusy, canc, timersChildren, chat, hist, fires, replies,
    cancels, timersCrashes>>
TaskRegistryVars == <<home, task, tasks, itemTasks, saving, cleaning, key, hash, items, sub, inbox, cancelled,
    stopped, stops, taskRegistryDrops, taskRegistryErrors, taskRegistryCrashes>>
AutomationsVars == <<automationsRow, creating, automationsSel, execs, runs, folders, occurred, claimed, started,
    gone, deleting, edits, automationsFaults, automationsCrashes>>
SessionPoolVars == <<used, live, closing, rooms, sessionPoolPool, access, beat, sessionPoolJob, refresh,
    sessionPoolLease, reaper, reaping, sessionPoolHeld, beats, joins, revokes,
    sessionPoolCrashes, lapses>>
RoomChannelsVars == <<roomChannelsCall, dirty, queued, roomChannelsBusy, batch, serial, chans, dropping, pipe,
    back, subs, reconnects, roomChannelsErrors>>
AppConnectionsVars == <<appConnectionsRow, server, appConnectionsReq, peer, installs, requests, appConnectionsDrops>>
EventCallVars == <<sid, made, eventCallPool, shown, eventCallCall>>
vars == <<which, FairConnectionQueueVars, EventLedgerVars, GatewayReplayVars, ShardCoordinationVars,
    ShardSupervisorVars, CreditLedgerVars, TimersVars, TaskRegistryVars, AutomationsVars,
    SessionPoolVars, RoomChannelsVars, AppConnectionsVars, EventCallVars>>

Init ==
    /\ which \in {"queue", "ledger", "replay", "shard", "supervisor", "single", "reset", "timers",
                "tasks", "local", "automations", "pool", "rooms", "apps", "call"}
    /\ CASE which = "queue" -> Queue!Init
         [] OTHER -> FairConnectionQueueOff
    /\ CASE which = "ledger" -> Ledger!Init
         [] OTHER -> EventLedgerOff
    /\ CASE which = "replay" -> Replay!Init
         [] OTHER -> GatewayReplayOff
    /\ CASE which = "shard" -> Shard!Init
         [] OTHER -> ShardCoordinationOff
    /\ CASE which = "supervisor" -> Supervisor!Init
         [] which = "single" -> Single!Init
         [] OTHER -> ShardSupervisorOff
    /\ CASE which = "reset" -> Reset!Init
         [] OTHER -> CreditLedgerOff
    /\ CASE which = "timers" -> Timing!Init
         [] OTHER -> TimersOff
    /\ CASE which = "tasks" -> Tasked!Init
         [] which = "local" -> Local!Init
         [] OTHER -> TaskRegistryOff
    /\ CASE which = "automations" -> Automated!Init
         [] OTHER -> AutomationsOff
    /\ CASE which = "pool" -> Pool!Init
         [] OTHER -> SessionPoolOff
    /\ CASE which = "rooms" -> Subscriptions!Init
         [] OTHER -> RoomChannelsOff
    /\ CASE which = "apps" -> Apps!Init
         [] OTHER -> AppConnectionsOff
    /\ CASE which = "call" -> Asked!Init
         [] OTHER -> EventCallOff

In(s, A) == which = s /\ which' = which /\ A

(* The variables of the component that runs. *)
current ==
    CASE which = "queue" -> FairConnectionQueueVars
      [] which = "ledger" -> EventLedgerVars
      [] which = "replay" -> GatewayReplayVars
      [] which = "shard" -> ShardCoordinationVars
      [] which = "supervisor" \/ which = "single" -> ShardSupervisorVars
      [] which = "reset" -> CreditLedgerVars
      [] which = "timers" -> TimersVars
      [] which = "tasks" \/ which = "local" -> TaskRegistryVars
      [] which = "automations" -> AutomationsVars
      [] which = "pool" -> SessionPoolVars
      [] which = "rooms" -> RoomChannelsVars
      [] which = "apps" -> AppConnectionsVars
      [] which = "call" -> EventCallVars

Next ==
    \/ /\ In("queue", Queue!Next)
       /\ UNCHANGED <<EventLedgerVars, GatewayReplayVars, ShardCoordinationVars,
                    ShardSupervisorVars, CreditLedgerVars, TimersVars,
                    TaskRegistryVars, AutomationsVars, SessionPoolVars,
                    RoomChannelsVars, AppConnectionsVars, EventCallVars>>
    \/ /\ In("ledger", Ledger!Next)
       /\ UNCHANGED <<FairConnectionQueueVars, GatewayReplayVars, ShardCoordinationVars,
                    ShardSupervisorVars, CreditLedgerVars, TimersVars,
                    TaskRegistryVars, AutomationsVars, SessionPoolVars,
                    RoomChannelsVars, AppConnectionsVars, EventCallVars>>
    \/ /\ In("replay", Replay!Next)
       /\ UNCHANGED <<FairConnectionQueueVars, EventLedgerVars, ShardCoordinationVars,
                    ShardSupervisorVars, CreditLedgerVars, TimersVars,
                    TaskRegistryVars, AutomationsVars, SessionPoolVars,
                    RoomChannelsVars, AppConnectionsVars, EventCallVars>>
    \/ /\ In("shard", Shard!Next)
       /\ UNCHANGED <<FairConnectionQueueVars, EventLedgerVars, GatewayReplayVars,
                    ShardSupervisorVars, CreditLedgerVars, TimersVars,
                    TaskRegistryVars, AutomationsVars, SessionPoolVars,
                    RoomChannelsVars, AppConnectionsVars, EventCallVars>>
    \/ /\ In("supervisor", Supervisor!Next)
       /\ UNCHANGED <<FairConnectionQueueVars, EventLedgerVars, GatewayReplayVars,
                    ShardCoordinationVars, CreditLedgerVars, TimersVars,
                    TaskRegistryVars, AutomationsVars, SessionPoolVars,
                    RoomChannelsVars, AppConnectionsVars, EventCallVars>>
    \/ /\ In("single", Single!Next)
       /\ UNCHANGED <<FairConnectionQueueVars, EventLedgerVars, GatewayReplayVars,
                    ShardCoordinationVars, CreditLedgerVars, TimersVars,
                    TaskRegistryVars, AutomationsVars, SessionPoolVars,
                    RoomChannelsVars, AppConnectionsVars, EventCallVars>>
    \/ /\ In("reset", Reset!Next)
       /\ UNCHANGED <<FairConnectionQueueVars, EventLedgerVars, GatewayReplayVars,
                    ShardCoordinationVars, ShardSupervisorVars, TimersVars,
                    TaskRegistryVars, AutomationsVars, SessionPoolVars,
                    RoomChannelsVars, AppConnectionsVars, EventCallVars>>
    \/ /\ In("timers", Timing!Next)
       /\ UNCHANGED <<FairConnectionQueueVars, EventLedgerVars, GatewayReplayVars,
                    ShardCoordinationVars, ShardSupervisorVars,
                    CreditLedgerVars, TaskRegistryVars, AutomationsVars,
                    SessionPoolVars, RoomChannelsVars, AppConnectionsVars,
                    EventCallVars>>
    \/ /\ In("tasks", Tasked!Next)
       /\ UNCHANGED <<FairConnectionQueueVars, EventLedgerVars, GatewayReplayVars,
                    ShardCoordinationVars, ShardSupervisorVars,
                    CreditLedgerVars, TimersVars, AutomationsVars,
                    SessionPoolVars, RoomChannelsVars, AppConnectionsVars,
                    EventCallVars>>
    \/ /\ In("local", Local!Next)
       /\ UNCHANGED <<FairConnectionQueueVars, EventLedgerVars, GatewayReplayVars,
                    ShardCoordinationVars, ShardSupervisorVars,
                    CreditLedgerVars, TimersVars, AutomationsVars,
                    SessionPoolVars, RoomChannelsVars, AppConnectionsVars,
                    EventCallVars>>
    \/ /\ In("automations", Automated!Next)
       /\ UNCHANGED <<FairConnectionQueueVars, EventLedgerVars, GatewayReplayVars,
                    ShardCoordinationVars, ShardSupervisorVars,
                    CreditLedgerVars, TimersVars, TaskRegistryVars,
                    SessionPoolVars, RoomChannelsVars, AppConnectionsVars,
                    EventCallVars>>
    \/ /\ In("pool", Pool!Next)
       /\ UNCHANGED <<FairConnectionQueueVars, EventLedgerVars, GatewayReplayVars,
                    ShardCoordinationVars, ShardSupervisorVars,
                    CreditLedgerVars, TimersVars, TaskRegistryVars,
                    AutomationsVars, RoomChannelsVars, AppConnectionsVars,
                    EventCallVars>>
    \/ /\ In("rooms", Subscriptions!Next)
       /\ UNCHANGED <<FairConnectionQueueVars, EventLedgerVars, GatewayReplayVars,
                    ShardCoordinationVars, ShardSupervisorVars,
                    CreditLedgerVars, TimersVars, TaskRegistryVars,
                    AutomationsVars, SessionPoolVars, AppConnectionsVars,
                    EventCallVars>>
    \/ /\ In("apps", Apps!Next)
       /\ UNCHANGED <<FairConnectionQueueVars, EventLedgerVars, GatewayReplayVars,
                    ShardCoordinationVars, ShardSupervisorVars,
                    CreditLedgerVars, TimersVars, TaskRegistryVars,
                    AutomationsVars, SessionPoolVars, RoomChannelsVars,
                    EventCallVars>>
    \/ /\ In("call", Asked!Next)
       /\ UNCHANGED <<FairConnectionQueueVars, EventLedgerVars, GatewayReplayVars,
                    ShardCoordinationVars, ShardSupervisorVars,
                    CreditLedgerVars, TimersVars, TaskRegistryVars,
                    AutomationsVars, SessionPoolVars, RoomChannelsVars,
                    AppConnectionsVars>>

Spec == Init /\ [][Next]_vars

(* What the code keeps running: the event loops, timers and polls of each    *)
(* component.  TurnN is the N-th of them in the component that runs, ChanceN *)
(* one whose try may fail and is made again.                                 *)
Turn1 ==
    \/ In("queue", Queue!Settle(c1))
    \/ In("ledger", Ledger!Progress(r1))
    \/ In("replay", Replay!Step(d1))
    \/ In("shard", Shard!Expire)
    \/ In("supervisor", Supervisor!CallStep(c1))
    \/ In("single", Single!CallStep(c1))
    \/ In("reset", Reset!Job(w1))
    \/ In("timers", Timing!ReplyEnds)
    \/ In("tasks", Tasked!Save(t1))
    \/ In("local", Local!Save(t1))
    \/ In("automations", Automated!Select(w1))
    \/ In("pool", Pool!Handlers)
    \/ In("rooms", Subscriptions!Listener)
    \/ In("apps", Apps!Admin(a1))
    \/ In("call", Asked!Caller)

Turn2 ==
    \/ In("queue", Queue!Settle(c2))
    \/ In("ledger", Ledger!Progress(r2))
    \/ In("replay", Replay!Step(d2))
    \/ In("shard", Shard!SchedulerStep(w1))
    \/ In("supervisor", Supervisor!CallStep(c2))
    \/ In("single", Single!CallStep(c2))
    \/ In("reset", Reset!Job(w2))
    \/ In("timers", Timing!CancelWrite)
    \/ In("tasks", Tasked!Expire(t1))
    \/ In("local", Local!Cleanup(t1))
    \/ In("automations", Automated!Claim(w1) \/ Automated!ClaimFails(w1))
    \/ In("pool", Pool!Timeout(s1))
    \/ In("rooms", Subscriptions!Redis)
    \/ In("apps", Apps!Refresh(w1))
    \/ In("call", Asked!PoolDelete(<<t1, 1>>))

Turn3 ==
    \/ In("shard", Shard!SyncDesiredState(n1))
    \/ In("supervisor", \E c \in {c1, c2} : Supervisor!Supervise(c))
    \/ In("single", \E c \in {c1, c2} : Single!Supervise(c))
    \/ In("reset", Reset!CommitCheckin(a1) \/ Reset!FailCheckin(a1))
    \/ In("timers", Timing!DeleteChat)
    \/ In("tasks", Tasked!Cleanup(t1) \/ Tasked!CleanupFails(t1))
    \/ In("local", (task[t1] = "ending" \/ t1 \in cancelled) /\ Local!End(t1))
    \/ In("automations", \E e \in execs : e.w = w1 /\ Automated!Step(e))
    \/ In("pool", Pool!Expire)
    \/ In("apps", Apps!Maintain(w1))
    \/ In("call", Asked!PoolDelete(<<t1, 2>>))

Turn4 ==
    \/ In("shard", Shard!SyncStep(n1))
    \/ In("supervisor", Supervisor!Reconcile)
    \/ In("single", Single!OpenEnds)
    \/ In("reset", Reset!LockExpires(1))
    \/ In("timers", Timing!DeleteChild(t1))
    \/ In("tasks", (task[t1] = "ending" \/ t1 \in cancelled) /\ Tasked!End(t1))
    \/ In("local", Local!Save(t2))
    \/ In("automations", Automated!Select(w2))
    \/ In("pool", Pool!ReapRooms(w1))
    \/ In("apps", Apps!Refresh(w2))
    \/ In("call", Asked!PoolDelete(<<t2, 1>>))

Turn5 ==
    \/ In("shard", Shard!RenewStep(n1))
    \/ In("supervisor", Supervisor!OpenEnds)
    \/ In("reset", Reset!LockExpires(2))
    \/ In("timers", Timing!Claim(w1) \/ Timing!ClaimFails(w1))
    \/ In("tasks", Tasked!Listen(p1))
    \/ In("local", Local!Cleanup(t2))
    \/ In("automations", Automated!Claim(w2) \/ Automated!ClaimFails(w2))
    \/ In("pool", Pool!ReapRooms(w2))
    \/ In("apps", Apps!Maintain(w2))
    \/ In("call", Asked!PoolDelete(<<t2, 2>>))

Turn6 ==
    \/ In("shard", Shard!DrainStep(n1))
    \/ In("timers", Timing!Select(w1) /\ t1 \in timersSel'[w1])
    \/ In("tasks", Tasked!Subscribe(p1))
    \/ In("local", (task[t2] = "ending" \/ t2 \in cancelled) /\ Local!End(t2))
    \/ In("automations", \E e \in execs : e.w = w2 /\ Automated!Step(e))

Turn7 ==
    \/ In("shard", Shard!HeartbeatExpires(n1))
    \/ In("timers", \E j \in jobs : j.w = w1 /\ Timing!Step(j))
    \/ In("tasks", Tasked!Listen(p2))
    \/ In("local", Local!Listen(p1))

Turn8 ==
    \/ In("shard", Shard!Restart(n1))
    \/ In("timers", Timing!Claim(w2) \/ Timing!ClaimFails(w2))
    \/ In("tasks", Tasked!Subscribe(p2))

Turn9 ==
    \/ In("shard", Shard!SyncDesiredState(n2))
    \/ In("timers", Timing!Select(w2) /\ t1 \in timersSel'[w2])
    \/ In("tasks", Tasked!List)

Turn10 ==
    \/ In("shard", Shard!SyncStep(n2))
    \/ In("timers", \E j \in jobs : j.w = w2 /\ Timing!Step(j))

Turn11 ==
    \/ In("shard", Shard!RenewStep(n2))

Turn12 ==
    \/ In("shard", Shard!DrainStep(n2))

Turn13 ==
    \/ In("shard", Shard!HeartbeatExpires(n2))

Turn14 ==
    \/ In("shard", Shard!Restart(n2))

Turn15 ==
    \/ In("shard", \E c \in Shard!Lease : Shard!AcceptEvent(c) \/ Shard!RejectEvent(c))

Chance1 ==
    \/ In("pool", Pool!AcquireLease(w1))

Chance2 ==
    \/ In("pool", Pool!Sweep(w1))

Chance3 ==
    \/ In("pool", Pool!AcquireLease(w2))

Chance4 ==
    \/ In("pool", Pool!Sweep(w2))

LiveSpec ==
    /\ Spec
    /\ WF_current(Turn1) /\ WF_current(Turn2) /\ WF_current(Turn3) /\ WF_current(Turn4)
    /\ WF_current(Turn5) /\ WF_current(Turn6) /\ WF_current(Turn7) /\ WF_current(Turn8)
    /\ WF_current(Turn9) /\ WF_current(Turn10) /\ WF_current(Turn11) /\ WF_current(Turn12)
    /\ WF_current(Turn13) /\ WF_current(Turn14) /\ WF_current(Turn15) /\ SF_current(Chance1)
    /\ SF_current(Chance2) /\ SF_current(Chance3) /\ SF_current(Chance4)

-----------------------------------------------------------------------------
(* A request that has been taken in, of each component that answers requests;
   the requests of a component are interchangeable, one stands for all. *)
Asking ==
    CASE which = "queue" -> shutdown = "waiting"
      [] which = "ledger" -> eventLedgerPc[r1] = "fenced"
      [] which = "replay" -> gatewayReplayPc[d1] \in Replay!Working \cup {"joined"}
      [] which = "rooms" -> roomChannelsCall[j1].at = "wait"
      [] which = "local" -> t1 \in stopped
      [] OTHER -> FALSE

Answered ==
    CASE which = "queue" -> shutdown \in {"drained", "cancelled"}
      [] which = "ledger" -> eventLedgerPc[r1] \in Ledger!Ended
      [] which = "replay" -> gatewayReplayPc[d1] \in {"answered", "lost"}
      [] which = "rooms" -> roomChannelsCall[j1].at \in {"in", "left"}
      [] which = "local" -> ~Local!Alive(t1)
      [] OTHER -> TRUE

(* Whatever was asked for comes to its end: shutdown() of a worker returns, a
   delivery that passed the fence is decided, a delivery in the gateway is
   answered or given up with its process, enter_room returns once its channel
   is subscribed or left, and a task whose chat was stopped ends. *)
RequestsEnd == Asking ~> Answered

(* Work that is owed, of each component that does work later. *)
Owed ==
    CASE which = "timers" -> timersRow[t1].status = "pending"
      [] which = "automations" -> Automated!Due(a1)
      [] which = "tasks" -> task[t1] \in {"ended", "dead"}
      [] which = "local" -> task[t1] = "ended"
      [] which = "pool" -> sessionPoolPool[s1] # None /\ s1 \notin live
      [] which = "shard" -> TRUE
      [] OTHER -> FALSE

Done ==
    CASE which = "timers" -> Timing!Settled(t1)
      [] which = "automations" -> ~Automated!Due(a1)
      [] which = "tasks" -> ~Tasked!Listed(t1)
      [] which = "local" -> ~Local!Listed(t1) /\ t1 \notin tasks
      [] which = "pool" -> sessionPoolPool[s1] = None \/ s1 \in live
      [] which = "shard" -> Shard!Hosted
      [] OTHER -> TRUE

(* What the code puts off is done: a pending timer fires or is cancelled, a
   due automation is claimed, a task that ended leaves the registry, the
   session of a dead worker is reaped, and the shard is hosted again and
   again whatever a lapse or a failed acquisition took away. *)
OwedIsDone == Owed ~> Done

(* Once faults and requests stop, the state comes to rest where it should: the
   supervised shard runs, the credits of the last day are reset and marked,
   and every worker is connected to an app exactly when its row says so. *)
ComesToRest ==
    <>[](CASE which = "supervisor" -> running
           [] which = "single" -> running
           [] which = "reset" -> creditLedgerResets[day] > 0 /\ mark = day
           [] which = "apps" -> Apps!Followed
           [] OTHER -> TRUE)

(* A question to the user is answered, times out or is shown in an open tab,
   provided one tab stays connected. *)
QuestionReaches ==
    <>[](which = "call" => sid[t1] # 0) =>
        <>(which = "call" => eventCallCall.at = "over" \/ \E u \in {t1, t2} : Asked!Reaches(u))
=============================================================================
