----------------------------- MODULE SessionPool -----------------------------
(***************************************************************************)
(* The session pool of socket/main.py: the entries of connected sessions   *)
(* in Redis, which all workers share, beside the rooms each worker keeps   *)
(* for its own sockets.  connect, heartbeat, joining and leaving a chat,   *)
(* disconnect, refresh_chat_access and the reaper of orphaned entries with *)
(* its lease.  Handlers interleave at every await, and a Redis read and    *)
(* the write that follows it are two steps, since other workers run        *)
(* between them; the handlers of one worker do not.                        *)
(***************************************************************************)
EXTENDS Naturals, FiniteSets

CONSTANTS Workers, Sessions, Chats, None,
          Main,          \* the worker of the sessions; the others only refresh and reap
          MaxBeats,      \* heartbeats
          MaxJoins,      \* joins and leaves
          MaxRevokes,    \* changes of access to a chat
          MaxCrashes,    \* workers that restart and lose their sockets
          MaxLapses,     \* leases of a running reaper that lapse
          LateBeats      \* whether a live session may miss its heartbeats

VARIABLES used,     \* sessions that have connected; an id is not used again
          live,     \* connected sessions
          closing,  \* sessions whose disconnect handler has not run yet
          rooms,    \* rooms[s]: the chats whose rooms s is in
          pool,     \* pool[s]: None or [fresh, chats]
          access,   \* chats the sessions' user may read
          beat,     \* beat[s]: a heartbeat that has authenticated
          job,      \* job[s]: the join or leave under the session's lock
          refresh,  \* the refresh_chat_access under way
          lease, reaper, reaping,
          held,     \* the worker inside a read followed by a write
          beats, joins, revokes, crashes, lapses

socks == <<used, live, closing>>
counters == <<beats, joins, revokes, crashes, lapses>>
reap == <<lease, reaper, reaping>>
vars == <<socks, rooms, pool, access, beat, job, refresh, reap, held, counters>>

Idle == [op |-> "none", chat |-> None, at |-> "idle", read |-> None]
NoRefresh == [w |-> None, chat |-> None, left |-> {}, at |-> "idle", s |-> None, read |-> None]
Entry(f, c) == [fresh |-> f, chats |-> c]
Step(j, at, read) == [op |-> j.op, chat |-> j.chat, at |-> at, read |-> read]
RefreshTo(left, at, s, read) ==
    [w |-> refresh.w, chat |-> refresh.chat, left |-> left, at |-> at, s |-> s, read |-> read]

SessionPoolAssumption ==
    Main \in Workers /\ None \notin [fresh: BOOLEAN, chats: SUBSET Chats]

TypeOK ==
    /\ live \subseteq Sessions
    /\ rooms \in [Sessions -> SUBSET Chats]
    /\ pool \in [Sessions -> [fresh: BOOLEAN, chats: SUBSET Chats] \cup {None}]
    /\ lease \in Workers \cup {None}

Init ==
    /\ used = {} /\ live = {} /\ closing = {}
    /\ rooms = [s \in Sessions |-> {}]
    /\ pool = [s \in Sessions |-> None]
    /\ access = Chats
    /\ beat = [s \in Sessions |-> Idle]
    /\ job = [s \in Sessions |-> Idle]
    /\ refresh = NoRefresh
    /\ lease = None
    /\ reaper = [w \in Workers |-> "idle"]
    /\ reaping = [w \in Workers |-> {}]
    /\ held = {}
    /\ beats = 0 /\ joins = 0 /\ revokes = 0 /\ crashes = 0 /\ lapses = 0

(* A worker between a read and the write that follows runs nothing else. *)
Free(w) == w \notin held

-----------------------------------------------------------------------------
Connect(s) ==
    /\ s \notin used /\ Free(Main)
    /\ used' = used \cup {s}
    /\ live' = live \cup {s}
    /\ pool' = [pool EXCEPT ![s] = Entry(TRUE, {})]
    /\ UNCHANGED <<closing, rooms, access, beat, job, refresh, reap, held, counters>>

(* heartbeat: the session is authenticated, which awaits, then its entry is
   read and written over, also when it is gone. *)
HeartbeatStart(s) ==
    /\ s \in live /\ beat[s] = Idle /\ beats < MaxBeats /\ Free(Main)
    /\ beats' = beats + 1
    /\ beat' = [beat EXCEPT ![s] = Step(@, "read", None)]
    /\ UNCHANGED <<socks, rooms, pool, access, job, refresh, reap, held, joins, revokes, crashes, lapses>>

HeartbeatRead(s) ==
    /\ beat[s].at = "read" /\ Free(Main)
    /\ beat' = [beat EXCEPT ![s] = Step(@, "write", pool[s])]
    /\ held' = held \cup {Main}
    /\ UNCHANGED <<socks, rooms, pool, access, job, refresh, reap, counters>>

Heartbeat(s) ==
    /\ beat[s].at = "write"
    /\ pool' = [pool EXCEPT ![s] = Entry(TRUE, IF beat[s].read = None THEN {} ELSE beat[s].read.chats)]
    /\ beat' = [beat EXCEPT ![s] = Idle]
    /\ held' = held \ {Main}
    /\ UNCHANGED <<socks, rooms, access, job, refresh, reap, counters>>

(* The clock passes SESSION_POOL_TIMEOUT without a heartbeat. *)
Timeout(s) ==
    /\ pool[s] # None /\ pool[s].fresh
    /\ s \notin live \/ LateBeats
    /\ pool' = [pool EXCEPT ![s] = Entry(FALSE, @.chats)]
    /\ UNCHANGED <<socks, rooms, access, beat, job, refresh, reap, held, counters>>

(* chat_events, join and leave: the room first, then the entry. *)
JoinChat(s, c) ==
    /\ s \in live /\ c \notin rooms[s] /\ job[s] = Idle /\ joins < MaxJoins /\ c \in access /\ Free(Main)
    /\ joins' = joins + 1
    /\ job' = [job EXCEPT ![s] = [op |-> "join", chat |-> c, at |-> "room", read |-> None]]
    /\ UNCHANGED <<socks, rooms, pool, access, beat, refresh, reap, held, beats, revokes, crashes, lapses>>

LeaveChat(s, c) ==
    /\ s \in live /\ job[s] = Idle /\ joins < MaxJoins /\ c \in rooms[s] /\ Free(Main)
    /\ joins' = joins + 1
    /\ job' = [job EXCEPT ![s] = [op |-> "leave", chat |-> c, at |-> "room", read |-> None]]
    /\ UNCHANGED <<socks, rooms, pool, access, beat, refresh, reap, held, beats, revokes, crashes, lapses>>

ChatRoom(s) ==
    /\ job[s].at = "room" /\ Free(Main)
    /\ rooms' = [rooms EXCEPT ![s] = IF job[s].op = "leave" THEN @ \ {job[s].chat}
                                     ELSE IF s \in live THEN @ \cup {job[s].chat} ELSE @]
    /\ job' = [job EXCEPT ![s] = Step(@, "read", None)]
    /\ UNCHANGED <<socks, pool, access, beat, refresh, reap, held, counters>>

ChatRead(s) ==
    /\ job[s].at = "read" /\ Free(Main)
    /\ IF pool[s] = None
         THEN /\ rooms' = [rooms EXCEPT ![s] = @ \ {job[s].chat}]
              /\ job' = [job EXCEPT ![s] = Idle]
              /\ UNCHANGED held
         ELSE /\ job' = [job EXCEPT ![s] = Step(@, "write", pool[s])]
              /\ held' = held \cup {Main}
              /\ UNCHANGED rooms
    /\ UNCHANGED <<socks, pool, access, beat, refresh, reap, counters>>

(* Mutant: leaving one chat drops the others from the entry. *)
ChatWriteMutant(s) ==
    /\ job[s].at = "write"
    /\ LET j == job[s] IN
        pool' = [pool EXCEPT ![s] = Entry(j.read.fresh, IF j.op = "leave" THEN {}
                                                        ELSE j.read.chats \cup {j.chat})]
    /\ job' = [job EXCEPT ![s] = Idle]
    /\ held' = held \ {Main}
    /\ UNCHANGED <<socks, rooms, access, beat, refresh, reap, counters>>

ChatWrite(s) ==
    /\ job[s].at = "write"
    /\ LET j == job[s] IN
        pool' = [pool EXCEPT ![s] = Entry(j.read.fresh, IF j.op = "leave" THEN j.read.chats \ {j.chat}
                                                        ELSE j.read.chats \cup {j.chat})]
    /\ job' = [job EXCEPT ![s] = Idle]
    /\ held' = held \ {Main}
    /\ UNCHANGED <<socks, rooms, access, beat, refresh, reap, counters>>

(* A socket closes; its handler first awaits the encryption relay, then deletes
   the entry, and the rooms are left. *)
Close(s) ==
    /\ s \in live
    /\ live' = live \ {s}
    /\ closing' = closing \cup {s}
    /\ UNCHANGED <<used, rooms, pool, access, beat, job, refresh, reap, held, counters>>

Disconnect(s) ==
    /\ s \in closing /\ Free(Main)
    /\ closing' = closing \ {s}
    /\ pool' = [pool EXCEPT ![s] = None]
    /\ rooms' = [rooms EXCEPT ![s] = {}]
    /\ UNCHANGED <<used, live, access, beat, job, refresh, reap, held, counters>>

-----------------------------------------------------------------------------
(* refresh_chat_access, on the worker of the request that changed the access. *)

Revoke(w, c) ==
    /\ revokes < MaxRevokes /\ refresh = NoRefresh /\ c \in access /\ Free(w)
    /\ revokes' = revokes + 1
    /\ access' = access \ {c}
    /\ refresh' = [w |-> w, chat |-> c, at |-> "check", s |-> None, read |-> None,
                    left |-> {s \in Sessions : IF pool[s] = None THEN FALSE ELSE c \in pool[s].chats}]
    /\ UNCHANGED <<socks, rooms, pool, beat, job, reap, held, beats, joins, crashes, lapses>>

RefreshLeave ==
    /\ refresh.at = "check" /\ Free(refresh.w)
    /\ IF refresh.left = {}
         THEN refresh' = NoRefresh /\ UNCHANGED rooms
         ELSE \E s \in refresh.left :
                /\ rooms' = [rooms EXCEPT ![s] = @ \ {refresh.chat}]
                /\ refresh' = RefreshTo(refresh.left \ {s}, "read", s, None)
    /\ UNCHANGED <<socks, pool, access, beat, job, reap, held, counters>>

RefreshRead ==
    /\ refresh.at = "read" /\ Free(refresh.w)
    /\ IF pool[refresh.s] = None
         THEN refresh' = RefreshTo(refresh.left, "check", refresh.s, None) /\ UNCHANGED held
         ELSE /\ refresh' = RefreshTo(refresh.left, "write", refresh.s, pool[refresh.s])
              /\ held' = held \cup {refresh.w}
    /\ UNCHANGED <<socks, rooms, pool, access, beat, job, reap, counters>>

(* Mutant: the entry that was read with the batch is written back. *)
RefreshWriteMutant ==
    /\ refresh.at = "write"
    /\ pool' = [pool EXCEPT ![refresh.s] = Entry(refresh.read.fresh, {})]
    /\ refresh' = RefreshTo(refresh.left, "check", refresh.s, None)
    /\ held' = held \ {refresh.w}
    /\ UNCHANGED <<socks, rooms, access, beat, job, reap, counters>>

RefreshWrite ==
    /\ refresh.at = "write"
    /\ pool' = [pool EXCEPT ![refresh.s] = Entry(refresh.read.fresh, refresh.read.chats \ {refresh.chat})]
    /\ refresh' = RefreshTo(refresh.left, "check", refresh.s, None)
    /\ held' = held \ {refresh.w}
    /\ UNCHANGED <<socks, rooms, access, beat, job, reap, counters>>

-----------------------------------------------------------------------------
(* periodic_session_pool_cleanup and its RedisLock. *)

AcquireLease(w) ==
    /\ reaper[w] = "idle" /\ lease = None /\ Free(w)
    /\ lease' = w
    /\ reaper' = [reaper EXCEPT ![w] = "sweep"]
    /\ UNCHANGED <<socks, rooms, pool, access, beat, job, refresh, reaping, held, counters>>

(* Mutant: a lost lease ends the task. *)
SweepMutant(w) ==
    /\ reaper[w] = "sweep" /\ Free(w)
    /\ IF lease = w
         THEN LET old == {s \in Sessions : IF pool[s] = None THEN FALSE ELSE ~pool[s].fresh}
              IN  /\ pool' = [s \in Sessions |-> IF s \in old THEN None ELSE pool[s]]
                  /\ reaping' = [reaping EXCEPT ![w] = old]
                  /\ reaper' = [reaper EXCEPT ![w] = IF old = {} THEN "sweep" ELSE "leave"]
         ELSE /\ reaper' = [reaper EXCEPT ![w] = "ended"]
              /\ UNCHANGED <<pool, reaping>>
    /\ UNCHANGED <<socks, rooms, access, beat, job, refresh, lease, held, counters>>

(* A sweep begins with a renewal; a lease that was lost ends the reaper's turn.
   A batch is read and its stale entries deleted without an await. *)
Sweep(w) ==
    /\ reaper[w] = "sweep" /\ Free(w)
    /\ IF lease = w
         THEN LET old == {s \in Sessions : IF pool[s] = None THEN FALSE ELSE ~pool[s].fresh}
              IN  /\ pool' = [s \in Sessions |-> IF s \in old THEN None ELSE pool[s]]
                  /\ reaping' = [reaping EXCEPT ![w] = old]
                  /\ reaper' = [reaper EXCEPT ![w] = IF old = {} THEN "sweep" ELSE "leave"]
         ELSE /\ reaper' = [reaper EXCEPT ![w] = "idle"]
              /\ UNCHANGED <<pool, reaping>>
    /\ UNCHANGED <<socks, rooms, access, beat, job, refresh, lease, held, counters>>

ReapRooms(w) ==
    /\ reaper[w] = "leave" /\ Free(w)
    /\ rooms' = [s \in Sessions |-> IF s \in reaping[w] THEN {} ELSE rooms[s]]
    /\ reaping' = [reaping EXCEPT ![w] = {}]
    /\ reaper' = [reaper EXCEPT ![w] = "sweep"]
    /\ UNCHANGED <<socks, pool, access, beat, job, refresh, lease, held, counters>>

(* The lease of a worker that stalls runs out. *)
Lapse ==
    /\ lease # None /\ lapses < MaxLapses
    /\ lapses' = lapses + 1
    /\ lease' = None
    /\ UNCHANGED <<socks, rooms, pool, access, beat, job, refresh, reaper, reaping, held, beats, joins, revokes, crashes>>

(* A worker restarts: its sockets, rooms and handlers are gone, the entries of
   its sessions stay, and its lease runs out. *)
Crash(w) ==
    /\ crashes < MaxCrashes
    /\ crashes' = crashes + 1
    /\ live' = {s \in live : Main # w}
    /\ closing' = {s \in closing : Main # w}
    /\ rooms' = [s \in Sessions |-> IF Main = w THEN {} ELSE rooms[s]]
    /\ beat' = [s \in Sessions |-> IF Main = w THEN Idle ELSE beat[s]]
    /\ job' = [s \in Sessions |-> IF Main = w THEN Idle ELSE job[s]]
    /\ refresh' = IF refresh.w = w THEN NoRefresh ELSE refresh
    /\ reaper' = [reaper EXCEPT ![w] = "idle"]
    /\ reaping' = [reaping EXCEPT ![w] = {}]
    /\ held' = held \ {w}
    /\ UNCHANGED <<used, pool, access, lease, beats, joins, revokes, lapses>>

(* The lease of a worker that restarted runs out. *)
Expire ==
    /\ lease # None /\ reaper[lease] = "idle"
    /\ lease' = None
    /\ UNCHANGED <<socks, rooms, pool, access, beat, job, refresh, reaper, reaping, held, counters>>

Handlers ==
    \E s \in Sessions : HeartbeatRead(s) \/ Heartbeat(s) \/ ChatRoom(s) \/ ChatRead(s) \/ ChatWrite(s) \/ Disconnect(s)

Next ==
    \/ \E s \in Sessions : Connect(s) \/ HeartbeatStart(s) \/ Timeout(s) \/ Close(s)
    \/ \E s \in Sessions, c \in Chats : JoinChat(s, c) \/ LeaveChat(s, c)
    \/ Handlers
    \/ \E w \in Workers, c \in Chats : Revoke(w, c)
    \/ RefreshLeave \/ RefreshRead \/ RefreshWrite
    \/ \E w \in Workers : AcquireLease(w) \/ Sweep(w) \/ ReapRooms(w) \/ Crash(w)
    \/ Lapse \/ Expire

Spec == Init /\ [][Next]_vars

(* Handlers finish, the clock runs, a lease runs out, and the task of each
   worker sweeps again and again. *)
Fair ==
    /\ WF_vars(Handlers) /\ WF_vars(RefreshLeave \/ RefreshRead \/ RefreshWrite)
    /\ \A s \in Sessions : WF_vars(Timeout(s))
    /\ \A w \in Workers : SF_vars(AcquireLease(w)) /\ SF_vars(Sweep(w)) /\ WF_vars(ReapRooms(w))
    /\ WF_vars(Expire)

LiveSpec == Spec /\ Fair

-----------------------------------------------------------------------------
Quiet(s) ==
    /\ job[s] = Idle /\ refresh = NoRefresh
    /\ \A w \in Workers : s \notin reaping[w]

(* A connected session that nothing is being done for is in the rooms its
   entry lists, so that presence shows who gets the chat's events; "Preserve
   joins/leaves and heartbeats that happened during access checks". *)
RoomsAreListed ==
    \A s \in live : Quiet(s) => rooms[s] = IF pool[s] = None THEN {} ELSE pool[s].chats

(* "Reap orphaned SESSION_POOL entries that missed heartbeats (e.g. crashed
   instance)": an entry of a session that is gone, a late heartbeat's entry
   included, does not stay. *)
OrphansReaped ==
    \A s \in Sessions : (pool[s] # None /\ s \notin live) ~> (pool[s] = None \/ s \in live)
=============================================================================
