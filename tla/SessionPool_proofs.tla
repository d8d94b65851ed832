------------------------- MODULE SessionPool_proofs -------------------------
(***************************************************************************)
(* Proofs about the rooms of the sockets beside the entries of their       *)
(* sessions in the pool, for any number of sessions, workers and chats.    *)
(***************************************************************************)
EXTENDS SessionPool, FiniteSetTheorems, TLAPS

(* What the provers may take for a step, on a busy machine. *)
USE ZenonT(3), SMTT(30), ZenonT(30)

(* The session pool. *)

(* Access is changed on the worker of the sessions, or not at all, and a live *)
(* session does not miss its heartbeats.                                      *)
OneWriter == (MaxRevokes = 0 \/ Workers = {Main}) /\ ~LateBeats

PoolTypes ==
    /\ revokes \in Nat /\ live \subseteq used /\ used \subseteq Sessions /\ closing \subseteq used \ live
    /\ rooms \in [Sessions -> SUBSET Chats] /\ DOMAIN reaping = Workers
    /\ DOMAIN pool = Sessions /\ DOMAIN beat = Sessions /\ DOMAIN job = Sessions
    /\ \A s \in Sessions : job[s].at # "idle" => job[s].chat \in Chats

(* A session that is connected has a fresh entry, which no reaper takes. *)
PoolEntries ==
    /\ \A s \in live : pool[s] # None /\ pool[s].fresh = TRUE /\ pool[s].chats \subseteq Chats
    /\ \A s \in Sessions \ used : /\ rooms[s] = {} /\ pool[s] = None
                                 /\ job[s].at = "idle" /\ beat[s].at = "idle"
    /\ \A w \in Workers : reaping[w] \subseteq used \ live

PoolJobs == \A s \in Sessions : job[s].at # "idle" => job[s].op \in {"join", "leave"}

PoolRefresh ==
    refresh.at # "idle" =>
        /\ refresh.w = Main /\ refresh.chat \in Chats \ access /\ refresh.left \subseteq used
        /\ refresh.at \in {"read", "write"} => refresh.s \in used

(* A handler between a read and its write has the worker, so there is one of  *)
(* them, and what it has read is the entry that is there.                     *)
PoolHeld ==
    /\ \A s \in Sessions : job[s].at = "write" => Main \in held
    /\ \A s \in Sessions : beat[s].at = "write" => Main \in held
    /\ refresh.at = "write" => Main \in held

PoolApart ==
    /\ \A s, t \in Sessions : job[s].at = "write" => (job[t].at = "write" => s = t) /\ beat[t].at # "write"
    /\ \A s, t \in Sessions : beat[s].at = "write" => (beat[t].at = "write" => s = t)
    /\ \A s \in Sessions : refresh.at = "write" => job[s].at # "write" /\ beat[s].at # "write"

PoolReads ==
    \A s \in live : /\ job[s].at = "write" => job[s].read = pool[s]
                    /\ beat[s].at = "write" => beat[s].read = pool[s]
                    /\ refresh.at = "write" /\ refresh.s = s => refresh.read = pool[s]

Joins(s, c) == job[s].at # "idle" /\ job[s].op = "join" /\ job[s].chat = c
Cut(s) == refresh.at \in {"read", "write"} /\ refresh.s = s

(* A chat that is being joined is not listed yet, and is not one from which   *)
(* the session is being removed.                                              *)
PoolJoins ==
    \A s \in live :
        /\ \A c \in Chats : Joins(s, c) => c \notin pool[s].chats
        /\ refresh.at # "idle" /\ (s \in refresh.left \/ Cut(s)) => ~Joins(s, refresh.chat)

(* The rooms a session should be in, given what is being done for it. *)
Shown(s, c) ==
    /\ c \in pool[s].chats \/ (job[s].at \in {"read", "write"} /\ job[s].op = "join" /\ job[s].chat = c)
    /\ ~(job[s].at \in {"read", "write"} /\ job[s].op # "join" /\ job[s].chat = c)
    /\ ~(Cut(s) /\ refresh.chat = c)

PoolRooms == \A s \in live : \A c \in Chats : c \in rooms[s] <=> Shown(s, c)

PoolInv ==
    /\ PoolTypes /\ PoolJobs /\ PoolEntries /\ PoolRefresh /\ PoolHeld
    /\ PoolApart /\ PoolReads /\ PoolJoins /\ PoolRooms

(* What is in an entry. *)
LEMMA PoolEntry ==
  ASSUME SessionPoolAssumption, NEW f \in BOOLEAN, NEW cs \in SUBSET Chats
  PROVE  Entry(f, cs) # None /\ Entry(f, cs).fresh = f /\ Entry(f, cs).chats = cs
  <1>1. Entry(f, cs) \in [fresh : BOOLEAN, chats : SUBSET Chats]
    BY DEF Entry
  <1>2. QED
    BY <1>1 DEF Entry, SessionPoolAssumption

(* PoolInv is about these variables only. *)
LEMMA PoolFrame ==
  ASSUME PoolInv,
         UNCHANGED <<used, live, closing, rooms, pool, access, beat, job, refresh, reaping, held, revokes>>
  PROVE  PoolInv'
  <1> USE DEF PoolInv
  <1>1. PoolTypes'
    BY DEF PoolTypes
  <1>2. PoolJobs'
    BY DEF PoolJobs
  <1>3. PoolEntries'
    BY DEF PoolEntries
  <1>4. PoolRefresh'
    BY DEF PoolRefresh
  <1>5. PoolHeld'
    BY DEF PoolHeld
  <1>6. PoolApart'
    BY DEF PoolApart
  <1>7. PoolReads'
    BY DEF PoolReads
  <1>8. PoolJoins'
    BY DEF PoolJoins, Joins, Cut
  <1>9. PoolRooms'
    BY DEF PoolRooms, Shown, Cut
  <1>10. QED
    BY <1>1, <1>2, <1>3, <1>4, <1>5, <1>6, <1>7, <1>8, <1>9

(* PoolInv holds at the start: nobody is connected. *)
LEMMA PoolInit == Init => PoolInv
  BY DEF Init, Idle, NoRefresh, PoolInv, PoolTypes, PoolJobs, PoolEntries, PoolRefresh,
       PoolHeld, PoolApart, PoolReads, PoolJoins, PoolRooms

(* Connect keeps PoolInv. *)
LEMMA PoolConnect ==
  ASSUME SessionPoolAssumption, OneWriter, PoolInv, NEW s \in Sessions, Connect(s)
  PROVE  PoolInv'
  <1> USE DEF PoolInv
  <1>a1. UNCHANGED <<closing, rooms, access, beat, job, refresh, reaping, held, revokes>>
    BY DEF Connect, socks, counters, reap
  <1>a2. s \notin used /\ Main \notin held /\ used' = used \cup {s} /\ live' = live \cup {s}
    BY DEF Connect, Free
  <1>a3. DOMAIN pool' = Sessions /\ \A t \in Sessions : t # s => pool'[t] = pool[t]
    BY DEF Connect, PoolTypes
  <1>a4. pool'[s] # None /\ pool'[s].fresh = TRUE /\ pool'[s].chats = {}
    <2>1. pool'[s] = Entry(TRUE, {})
      BY DEF Connect, PoolTypes
    <2>2. QED
      BY <2>1, PoolEntry
  <1>a5. rooms[s] = {} /\ job[s].at = "idle" /\ beat[s].at = "idle"
    BY <1>a2 DEF PoolEntries
  <1>a6. /\ refresh.at # "idle" => s \notin refresh.left
         /\ refresh.at \in {"read", "write"} => refresh.s # s
    BY <1>a2 DEF PoolRefresh
  <1>1. PoolTypes'
    BY <1>a1, <1>a2, <1>a3, <1>a4, <1>a5, <1>a6 DEF PoolTypes
  <1>2. PoolJobs'
    BY <1>a1, <1>a2, <1>a3, <1>a4, <1>a5, <1>a6 DEF PoolJobs, PoolTypes
  <1>3. PoolEntries'
    BY <1>a1, <1>a2, <1>a3, <1>a4, <1>a5, <1>a6 DEF PoolEntries, PoolTypes
  <1>4. PoolRefresh'
    BY <1>a1, <1>a2, <1>a3, <1>a4, <1>a5, <1>a6 DEF PoolRefresh, PoolTypes
  <1>5. PoolHeld'
    BY <1>a1, <1>a2, <1>a3, <1>a4, <1>a5, <1>a6 DEF PoolHeld
  <1>6. PoolApart'
    BY <1>a1, <1>a2, <1>a3, <1>a4, <1>a5, <1>a6 DEF PoolApart, PoolHeld
  <1>7. PoolReads'
    BY <1>a1, <1>a2, <1>a3, <1>a4, <1>a5, <1>a6 DEF PoolReads, PoolTypes
  <1>8. PoolJoins'
    BY <1>a1, <1>a2, <1>a3, <1>a4, <1>a5, <1>a6 DEF PoolJoins, PoolTypes, Joins, Cut
  <1>9. PoolRooms'
    BY <1>a1, <1>a2, <1>a3, <1>a4, <1>a5, <1>a6 DEF PoolRooms, PoolTypes, Shown, Cut
  <1>10. QED
    BY <1>1, <1>2, <1>3, <1>4, <1>5, <1>6, <1>7, <1>8, <1>9

(* HeartbeatStart keeps PoolInv. *)
LEMMA PoolHeartbeatStart ==
  ASSUME SessionPoolAssumption, OneWriter, PoolInv, NEW s \in Sessions, HeartbeatStart(s)
  PROVE  PoolInv'
  <1> USE DEF PoolInv
  <1>a1. UNCHANGED <<used, live, closing, rooms, pool, access, job, refresh, reaping, held, revokes>>
    BY DEF HeartbeatStart, socks, counters, reap
  <1>a2. s \in live /\ DOMAIN beat' = Sessions /\ beat'[s].at = "read"
    BY DEF HeartbeatStart, Step, PoolTypes
  <1>a3. \A t \in Sessions : t # s => beat'[t] = beat[t]
    BY DEF HeartbeatStart, PoolTypes
  <1>1. PoolTypes'
    BY <1>a1, <1>a2, <1>a3 DEF PoolTypes
  <1>2. PoolJobs'
    BY <1>a1, <1>a2, <1>a3 DEF PoolJobs, PoolTypes
  <1>3. PoolEntries'
    BY <1>a1, <1>a2, <1>a3 DEF PoolEntries, PoolTypes
  <1>4. PoolRefresh'
    BY <1>a1, <1>a2, <1>a3 DEF PoolRefresh, PoolTypes
  <1>5. PoolHeld'
    BY <1>a1, <1>a2, <1>a3 DEF PoolHeld
  <1>6. PoolApart'
    BY <1>a1, <1>a2, <1>a3 DEF PoolApart, PoolHeld
  <1>7. PoolReads'
    BY <1>a1, <1>a2, <1>a3 DEF PoolReads, PoolTypes
  <1>8. PoolJoins'
    BY <1>a1, <1>a2, <1>a3 DEF PoolJoins, PoolTypes, Joins, Cut
  <1>9. PoolRooms'
    BY <1>a1, <1>a2, <1>a3 DEF PoolRooms, PoolTypes, Shown, Cut
  <1>10. QED
    BY <1>1, <1>2, <1>3, <1>4, <1>5, <1>6, <1>7, <1>8, <1>9

(* HeartbeatRead keeps PoolInv. *)
LEMMA PoolHeartbeatRead ==
  ASSUME SessionPoolAssumption, OneWriter, PoolInv, NEW s \in Sessions, HeartbeatRead(s)
  PROVE  PoolInv'
  <1> USE DEF PoolInv
  <1>a1. UNCHANGED <<used, live, closing, rooms, pool, access, job, refresh, reaping, revokes>>
    BY DEF HeartbeatRead, socks, counters, reap
  <1>a2. Main \notin held /\ held' = held \cup {Main} /\ s \in used
    BY DEF HeartbeatRead, Free, PoolEntries
  <1>a3. DOMAIN beat' = Sessions /\ beat'[s].at = "write" /\ beat'[s].read = pool[s]
    BY DEF HeartbeatRead, Step, PoolTypes
  <1>a4. \A t \in Sessions : t # s => beat'[t] = beat[t]
    BY DEF HeartbeatRead, PoolTypes
  <1>a5. refresh.at # "write" /\ \A t \in Sessions : job[t].at # "write" /\ beat[t].at # "write"
    BY <1>a2 DEF PoolHeld
  <1>1. PoolTypes'
    BY <1>a1, <1>a2, <1>a3, <1>a4, <1>a5 DEF PoolTypes
  <1>2. PoolJobs'
    BY <1>a1, <1>a2, <1>a3, <1>a4, <1>a5 DEF PoolJobs, PoolTypes
  <1>3. PoolEntries'
    BY <1>a1, <1>a2, <1>a3, <1>a4, <1>a5 DEF PoolEntries, PoolTypes
  <1>4. PoolRefresh'
    BY <1>a1, <1>a2, <1>a3, <1>a4, <1>a5 DEF PoolRefresh, PoolTypes
  <1>5. PoolHeld'
    BY <1>a1, <1>a2, <1>a3, <1>a4, <1>a5 DEF PoolHeld
  <1>6. PoolApart'
    BY <1>a1, <1>a2, <1>a3, <1>a4, <1>a5 DEF PoolApart, PoolHeld
  <1>7. PoolReads'
    BY <1>a1, <1>a2, <1>a3, <1>a4, <1>a5 DEF PoolReads, PoolTypes
  <1>8. PoolJoins'
    BY <1>a1, <1>a2, <1>a3, <1>a4, <1>a5 DEF PoolJoins, PoolTypes, Joins, Cut
  <1>9. PoolRooms'
    BY <1>a1, <1>a2, <1>a3, <1>a4, <1>a5 DEF PoolRooms, PoolTypes, Shown, Cut
  <1>10. QED
    BY <1>1, <1>2, <1>3, <1>4, <1>5, <1>6, <1>7, <1>8, <1>9

(* Heartbeat keeps PoolInv. *)
LEMMA PoolHeartbeat ==
  ASSUME SessionPoolAssumption, OneWriter, PoolInv, NEW s \in Sessions, Heartbeat(s)
  PROVE  PoolInv'
  <1> USE DEF PoolInv
  <1>a1. UNCHANGED <<used, live, closing, rooms, access, job, refresh, reaping, revokes>>
    BY DEF Heartbeat, socks, counters, reap
  <1>a2. beat[s].at = "write" /\ s \in used
    BY DEF Heartbeat, PoolEntries
  <1>a3. held' = held \ {Main} /\ DOMAIN beat' = Sessions /\ beat'[s].at = "idle"
    BY DEF Heartbeat, Idle, PoolTypes
  <1>a4. \A t \in Sessions : t # s => beat'[t] = beat[t]
    BY DEF Heartbeat, PoolTypes
  <1>a5. /\ refresh.at # "write" /\ \A t \in Sessions : job[t].at # "write"
         /\ \A t \in Sessions : t # s => beat[t].at # "write"
    BY <1>a2 DEF PoolApart
  <1>a6. DOMAIN pool' = Sessions /\ \A t \in Sessions : t # s => pool'[t] = pool[t]
    BY DEF Heartbeat, PoolTypes
  <1>a7. s \in live => pool'[s] # None /\ pool'[s].fresh = TRUE /\ pool'[s].chats = pool[s].chats
    <2> SUFFICES ASSUME s \in live
                 PROVE  pool'[s] # None /\ pool'[s].fresh = TRUE /\ pool'[s].chats = pool[s].chats
      OBVIOUS
    <2>1. beat[s].read = pool[s] /\ pool[s] # None /\ pool[s].chats \in SUBSET Chats
      BY <1>a2 DEF PoolReads, PoolEntries
    <2>2. pool'[s] = Entry(TRUE, pool[s].chats)
      BY <2>1 DEF Heartbeat, PoolTypes
    <2>3. QED
      BY <2>1, <2>2, PoolEntry
  <1>1. PoolTypes'
    BY <1>a1, <1>a2, <1>a3, <1>a4, <1>a5, <1>a6, <1>a7 DEF PoolTypes
  <1>2. PoolJobs'
    BY <1>a1, <1>a2, <1>a3, <1>a4, <1>a5, <1>a6, <1>a7 DEF PoolJobs, PoolTypes
  <1>3. PoolEntries'
    BY <1>a1, <1>a2, <1>a3, <1>a4, <1>a5, <1>a6, <1>a7 DEF PoolEntries, PoolTypes
  <1>4. PoolRefresh'
    BY <1>a1, <1>a2, <1>a3, <1>a4, <1>a5, <1>a6, <1>a7 DEF PoolRefresh, PoolTypes
  <1>5. PoolHeld'
    BY <1>a1, <1>a2, <1>a3, <1>a4, <1>a5, <1>a6, <1>a7 DEF PoolHeld
  <1>6. PoolApart'
    BY <1>a1, <1>a2, <1>a3, <1>a4, <1>a5, <1>a6, <1>a7 DEF PoolApart, PoolHeld
  <1>7. PoolReads'
    BY <1>a1, <1>a2, <1>a3, <1>a4, <1>a5, <1>a6, <1>a7 DEF PoolReads, PoolTypes
  <1>8. PoolJoins'
    BY <1>a1, <1>a2, <1>a3, <1>a4, <1>a5, <1>a6, <1>a7 DEF PoolJoins, PoolTypes, Joins, Cut
  <1>9. PoolRooms'
    BY <1>a1, <1>a2, <1>a3, <1>a4, <1>a5, <1>a6, <1>a7 DEF PoolRooms, PoolTypes, Shown, Cut
  <1>10. QED
    BY <1>1, <1>2, <1>3, <1>4, <1>5, <1>6, <1>7, <1>8, <1>9

(* Timeout keeps PoolInv. *)
LEMMA PoolTimeout ==
  ASSUME SessionPoolAssumption, OneWriter, PoolInv, NEW s \in Sessions, Timeout(s)
  PROVE  PoolInv'
  <1> USE DEF PoolInv
  <1>a1. UNCHANGED <<used, live, closing, rooms, access, beat, job, refresh, reaping, held, revokes>>
    BY DEF Timeout, socks, counters, reap
  <1>a2. /\ DOMAIN pool' = Sessions /\ \A t \in live : pool'[t] = pool[t]
         /\ \A t \in Sessions \ used : pool'[t] = pool[t]
    BY DEF Timeout, OneWriter, PoolTypes, PoolEntries
  <1>1. PoolTypes'
    BY <1>a1, <1>a2 DEF PoolTypes
  <1>2. PoolJobs'
    BY <1>a1, <1>a2 DEF PoolJobs, PoolTypes
  <1>3. PoolEntries'
    BY <1>a1, <1>a2 DEF PoolEntries, PoolTypes
  <1>4. PoolRefresh'
    BY <1>a1, <1>a2 DEF PoolRefresh, PoolTypes
  <1>5. PoolHeld'
    BY <1>a1, <1>a2 DEF PoolHeld
  <1>6. PoolApart'
    BY <1>a1, <1>a2 DEF PoolApart, PoolHeld
  <1>7. PoolReads'
    BY <1>a1, <1>a2 DEF PoolReads, PoolTypes
  <1>8. PoolJoins'
    BY <1>a1, <1>a2 DEF PoolJoins, PoolTypes, Joins, Cut
  <1>9. PoolRooms'
    BY <1>a1, <1>a2 DEF PoolRooms, PoolTypes, Shown, Cut
  <1>10. QED
    BY <1>1, <1>2, <1>3, <1>4, <1>5, <1>6, <1>7, <1>8, <1>9

(* JoinChat keeps PoolInv. *)
LEMMA PoolJoinChat ==
  ASSUME SessionPoolAssumption, OneWriter, PoolInv, NEW s \in Sessions, NEW c \in Chats, JoinChat(s, c)
  PROVE  PoolInv'
  <1> USE DEF PoolInv
  <1>a1. UNCHANGED <<used, live, closing, rooms, pool, access, beat, refresh, reaping, held, revokes>>
    BY DEF JoinChat, socks, counters, reap
  <1>a2. s \in live /\ job[s].at = "idle" /\ c \notin rooms[s] /\ c \in access
    BY DEF JoinChat, Idle
  <1>a3. DOMAIN job' = Sessions /\ job'[s].at = "room" /\ job'[s].op = "join" /\ job'[s].chat = c
    BY DEF JoinChat, PoolTypes
  <1>a4. \A t \in Sessions : t # s => job'[t] = job[t]
    BY DEF JoinChat, PoolTypes
  <1>a5. c \notin pool[s].chats /\ (refresh.at # "idle" => refresh.chat # c)
    BY <1>a2 DEF PoolRooms, PoolRefresh, Shown, Cut
  <1>1. PoolTypes'
    BY <1>a1, <1>a2, <1>a3, <1>a4, <1>a5 DEF PoolTypes
  <1>2. PoolJobs'
    BY <1>a1, <1>a2, <1>a3, <1>a4, <1>a5 DEF PoolJobs, PoolTypes
  <1>3. PoolEntries'
    BY <1>a1, <1>a2, <1>a3, <1>a4, <1>a5 DEF PoolEntries, PoolTypes
  <1>4. PoolRefresh'
    BY <1>a1, <1>a2, <1>a3, <1>a4, <1>a5 DEF PoolRefresh, PoolTypes
  <1>5. PoolHeld'
    BY <1>a1, <1>a2, <1>a3, <1>a4, <1>a5 DEF PoolHeld
  <1>6. PoolApart'
    BY <1>a1, <1>a2, <1>a3, <1>a4, <1>a5 DEF PoolApart, PoolHeld
  <1>7. PoolReads'
    BY <1>a1, <1>a2, <1>a3, <1>a4, <1>a5 DEF PoolReads, PoolTypes
  <1>8. PoolJoins'
    BY <1>a1, <1>a2, <1>a3, <1>a4, <1>a5 DEF PoolJoins, PoolTypes, Joins, Cut
  <1>9. PoolRooms'
    BY <1>a1, <1>a2, <1>a3, <1>a4, <1>a5 DEF PoolRooms, PoolTypes, Shown, Cut
  <1>10. QED
    BY <1>1, <1>2, <1>3, <1>4, <1>5, <1>6, <1>7, <1>8, <1>9

(* LeaveChat keeps PoolInv. *)
LEMMA PoolLeaveChat ==
  ASSUME SessionPoolAssumption, OneWriter, PoolInv, NEW s \in Sessions, NEW c \in Chats, LeaveChat(s, c)
  PROVE  PoolInv'
  <1> USE DEF PoolInv
  <1>a1. UNCHANGED <<used, live, closing, rooms, pool, access, beat, refresh, reaping, held, revokes>>
    BY DEF LeaveChat, socks, counters, reap
  <1>a2. s \in live /\ job[s].at = "idle" /\ c \in rooms[s]
    BY DEF LeaveChat, Idle
  <1>a3. DOMAIN job' = Sessions /\ job'[s].at = "room" /\ job'[s].op = "leave" /\ job'[s].chat = c
    BY DEF LeaveChat, PoolTypes
  <1>a4. \A t \in Sessions : t # s => job'[t] = job[t]
    BY DEF LeaveChat, PoolTypes
  <1>1. PoolTypes'
    BY <1>a1, <1>a2, <1>a3, <1>a4 DEF PoolTypes
  <1>2. PoolJobs'
    BY <1>a1, <1>a2, <1>a3, <1>a4 DEF PoolJobs, PoolTypes
  <1>3. PoolEntries'
    BY <1>a1, <1>a2, <1>a3, <1>a4 DEF PoolEntries, PoolTypes
  <1>4. PoolRefresh'
    BY <1>a1, <1>a2, <1>a3, <1>a4 DEF PoolRefresh, PoolTypes
  <1>5. PoolHeld'
    BY <1>a1, <1>a2, <1>a3, <1>a4 DEF PoolHeld
  <1>6. PoolApart'
    BY <1>a1, <1>a2, <1>a3, <1>a4 DEF PoolApart, PoolHeld
  <1>7. PoolReads'
    BY <1>a1, <1>a2, <1>a3, <1>a4 DEF PoolReads, PoolTypes
  <1>8. PoolJoins'
    BY <1>a1, <1>a2, <1>a3, <1>a4 DEF PoolJoins, PoolTypes, Joins, Cut
  <1>9. PoolRooms'
    BY <1>a1, <1>a2, <1>a3, <1>a4 DEF PoolRooms, PoolTypes, Shown, Cut
  <1>10. QED
    BY <1>1, <1>2, <1>3, <1>4, <1>5, <1>6, <1>7, <1>8, <1>9

(* ChatRoom keeps PoolInv. *)
LEMMA PoolChatRoom ==
  ASSUME SessionPoolAssumption, OneWriter, PoolInv, NEW s \in Sessions, ChatRoom(s)
  PROVE  PoolInv'
  <1> USE DEF PoolInv
  <1>a1. UNCHANGED <<used, live, closing, pool, access, beat, refresh, reaping, held, revokes>>
    BY DEF ChatRoom, socks, counters, reap
  <1>a2. job[s].at = "room" /\ s \in used /\ job[s].chat \in Chats /\ job[s].op \in {"join", "leave"}
    BY DEF ChatRoom, PoolTypes, PoolJobs, PoolEntries
  <1>a3. DOMAIN job' = Sessions /\ job'[s].at = "read" /\ job'[s].op = job[s].op /\ job'[s].chat = job[s].chat
    BY DEF ChatRoom, Step, PoolTypes
  <1>a4. \A t \in Sessions : t # s => job'[t] = job[t]
    BY DEF ChatRoom, PoolTypes
  <1>a5. rooms' \in [Sessions -> SUBSET Chats] /\ \A t \in Sessions : t # s => rooms'[t] = rooms[t]
    BY <1>a2 DEF ChatRoom, PoolTypes
  <1>a6. s \in live => rooms'[s] = IF job[s].op = "leave" THEN rooms[s] \ {job[s].chat}
                                      ELSE rooms[s] \cup {job[s].chat}
    BY DEF ChatRoom, PoolTypes
  <1>1. PoolTypes'
    BY <1>a1, <1>a2, <1>a3, <1>a4, <1>a5, <1>a6 DEF PoolTypes
  <1>2. PoolJobs'
    BY <1>a1, <1>a2, <1>a3, <1>a4, <1>a5, <1>a6 DEF PoolJobs, PoolTypes
  <1>3. PoolEntries'
    BY <1>a1, <1>a2, <1>a3, <1>a4, <1>a5, <1>a6 DEF PoolEntries, PoolTypes
  <1>4. PoolRefresh'
    BY <1>a1, <1>a2, <1>a3, <1>a4, <1>a5, <1>a6 DEF PoolRefresh, PoolTypes
  <1>5. PoolHeld'
    BY <1>a1, <1>a2, <1>a3, <1>a4, <1>a5, <1>a6 DEF PoolHeld
  <1>6. PoolApart'
    BY <1>a1, <1>a2, <1>a3, <1>a4, <1>a5, <1>a6 DEF PoolApart, PoolHeld
  <1>7. PoolReads'
    BY <1>a1, <1>a2, <1>a3, <1>a4, <1>a5, <1>a6 DEF PoolReads, PoolTypes
  <1>8. PoolJoins'
    BY <1>a1, <1>a2, <1>a3, <1>a4, <1>a5, <1>a6 DEF PoolJoins, PoolTypes, Joins, Cut
  <1>9. PoolRooms'
    BY <1>a1, <1>a2, <1>a3, <1>a4, <1>a5, <1>a6 DEF PoolRooms, PoolTypes, Shown, Cut, PoolJoins,
           Joins
  <1>10. QED
    BY <1>1, <1>2, <1>3, <1>4, <1>5, <1>6, <1>7, <1>8, <1>9

(* ChatRead keeps PoolInv. *)
LEMMA PoolChatRead ==
  ASSUME SessionPoolAssumption, OneWriter, PoolInv, NEW s \in Sessions, ChatRead(s)
  PROVE  PoolInv'
  <1> USE DEF PoolInv
  <1>a1. UNCHANGED <<used, live, closing, pool, access, beat, refresh, reaping, revokes>>
    BY DEF ChatRead, socks, counters, reap
  <1>a2. job[s].at = "read" /\ s \in used /\ job[s].chat \in Chats /\ Main \notin held
    BY DEF ChatRead, Free, PoolTypes, PoolEntries
  <1>a3. DOMAIN job' = Sessions /\ \A t \in Sessions : t # s => job'[t] = job[t]
    BY DEF ChatRead, PoolTypes
  <1>a4. refresh.at # "write" /\ \A t \in Sessions : job[t].at # "write" /\ beat[t].at # "write"
    BY <1>a2 DEF PoolHeld
  <1>a5. rooms' \in [Sessions -> SUBSET Chats] /\ \A t \in Sessions : t # s => rooms'[t] = rooms[t]
    BY DEF ChatRead, PoolTypes
  <1>a6. s \in live => rooms'[s] = rooms[s]
    BY DEF ChatRead, PoolEntries
  <1>a7. \/ job'[s].at = "idle" /\ s \notin live /\ held' = held
         \/ /\ job'[s].at = "write" /\ job'[s].read = pool[s] /\ held' = held \cup {Main}
            /\ job'[s].op = job[s].op /\ job'[s].chat = job[s].chat
    BY DEF ChatRead, Step, Idle, PoolTypes, PoolEntries
  <1>1. PoolTypes'
    BY <1>a1, <1>a2, <1>a3, <1>a4, <1>a5, <1>a6, <1>a7 DEF PoolTypes
  <1>2. PoolJobs'
    BY <1>a1, <1>a2, <1>a3, <1>a4, <1>a5, <1>a6, <1>a7 DEF PoolJobs, PoolTypes
  <1>3. PoolEntries'
    BY <1>a1, <1>a2, <1>a3, <1>a4, <1>a5, <1>a6, <1>a7 DEF PoolEntries, PoolTypes
  <1>4. PoolRefresh'
    BY <1>a1, <1>a2, <1>a3, <1>a4, <1>a5, <1>a6, <1>a7 DEF PoolRefresh, PoolTypes
  <1>5. PoolHeld'
    BY <1>a1, <1>a2, <1>a3, <1>a4, <1>a5, <1>a6, <1>a7 DEF PoolHeld
  <1>6. PoolApart'
    BY <1>a1, <1>a2, <1>a3, <1>a4, <1>a5, <1>a6, <1>a7 DEF PoolApart, PoolHeld
  <1>7. PoolReads'
    BY <1>a1, <1>a2, <1>a3, <1>a4, <1>a5, <1>a6, <1>a7 DEF PoolReads, PoolTypes
  <1>8. PoolJoins'
    BY <1>a1, <1>a2, <1>a3, <1>a4, <1>a5, <1>a6, <1>a7 DEF PoolJoins, PoolTypes, Joins, Cut
  <1>9. PoolRooms'
    BY <1>a1, <1>a2, <1>a3, <1>a4, <1>a5, <1>a6, <1>a7 DEF PoolRooms, PoolTypes, Shown, Cut
  <1>10. QED
    BY <1>1, <1>2, <1>3, <1>4, <1>5, <1>6, <1>7, <1>8, <1>9

(* ChatWrite keeps PoolInv. *)
LEMMA PoolChatWrite ==
  ASSUME SessionPoolAssumption, OneWriter, PoolInv, NEW s \in Sessions, ChatWrite(s)
  PROVE  PoolInv'
  <1> USE DEF PoolInv
  <1>a1. UNCHANGED <<used, live, closing, rooms, access, beat, refresh, reaping, revokes>>
    BY DEF ChatWrite, socks, counters, reap
  <1>a2. job[s].at = "write" /\ s \in used /\ job[s].chat \in Chats /\ job[s].op \in {"join", "leave"}
    BY DEF ChatWrite, PoolTypes, PoolJobs, PoolEntries
  <1>a3. held' = held \ {Main} /\ DOMAIN job' = Sessions /\ job'[s].at = "idle"
    BY DEF ChatWrite, Idle, PoolTypes
  <1>a4. \A t \in Sessions : t # s => job'[t] = job[t]
    BY DEF ChatWrite, PoolTypes
  <1>a5. /\ refresh.at # "write" /\ \A t \in Sessions : beat[t].at # "write"
         /\ \A t \in Sessions : t # s => job[t].at # "write"
    BY <1>a2 DEF PoolApart
  <1>a6. DOMAIN pool' = Sessions /\ \A t \in Sessions : t # s => pool'[t] = pool[t]
    BY DEF ChatWrite, PoolTypes
  <1>a7. s \in live =>
             /\ pool'[s] # None /\ pool'[s].fresh = TRUE
             /\ pool'[s].chats = IF job[s].op = "leave" THEN pool[s].chats \ {job[s].chat}
                                 ELSE pool[s].chats \cup {job[s].chat}
    <2> DEFINE cs == IF job[s].op = "leave" THEN pool[s].chats \ {job[s].chat}
                     ELSE pool[s].chats \cup {job[s].chat}
    <2> SUFFICES ASSUME s \in live
                 PROVE  pool'[s] # None /\ pool'[s].fresh = TRUE /\ pool'[s].chats = cs
      OBVIOUS
    <2>1. job[s].read = pool[s] /\ pool[s].fresh = TRUE /\ cs \in SUBSET Chats
      BY <1>a2 DEF PoolReads, PoolEntries
    <2>2. pool'[s] = Entry(TRUE, cs)
      BY <2>1 DEF ChatWrite, PoolTypes
    <2> HIDE DEF cs
    <2>3. QED
      BY <2>1, <2>2, PoolEntry
  <1>1. PoolTypes'
    BY <1>a1, <1>a2, <1>a3, <1>a4, <1>a5, <1>a6, <1>a7 DEF PoolTypes
  <1>2. PoolJobs'
    BY <1>a1, <1>a2, <1>a3, <1>a4, <1>a5, <1>a6, <1>a7 DEF PoolJobs, PoolTypes
  <1>3. PoolEntries'
    BY <1>a1, <1>a2, <1>a3, <1>a4, <1>a5, <1>a6, <1>a7 DEF PoolEntries, PoolTypes
  <1>4. PoolRefresh'
    BY <1>a1, <1>a2, <1>a3, <1>a4, <1>a5, <1>a6, <1>a7 DEF PoolRefresh, PoolTypes
  <1>5. PoolHeld'
    BY <1>a1, <1>a2, <1>a3, <1>a4, <1>a5, <1>a6, <1>a7 DEF PoolHeld
  <1>6. PoolApart'
    BY <1>a1, <1>a2, <1>a3, <1>a4, <1>a5, <1>a6, <1>a7 DEF PoolApart, PoolHeld
  <1>7. PoolReads'
    BY <1>a1, <1>a2, <1>a3, <1>a4, <1>a5, <1>a6, <1>a7 DEF PoolReads, PoolTypes
  <1>8. PoolJoins'
    BY <1>a1, <1>a2, <1>a3, <1>a4, <1>a5, <1>a6, <1>a7 DEF PoolJoins, PoolTypes, Joins, Cut
  <1>9. PoolRooms'
    BY <1>a1, <1>a2, <1>a3, <1>a4, <1>a5, <1>a6, <1>a7 DEF PoolRooms, PoolTypes, Shown, Cut
  <1>10. QED
    BY <1>1, <1>2, <1>3, <1>4, <1>5, <1>6, <1>7, <1>8, <1>9

(* Close keeps PoolInv. *)
LEMMA PoolClose ==
  ASSUME SessionPoolAssumption, OneWriter, PoolInv, NEW s \in Sessions, Close(s)
  PROVE  PoolInv'
  <1> USE DEF PoolInv
  <1>a1. UNCHANGED <<used, rooms, pool, access, beat, job, refresh, reaping, held, revokes>>
    BY DEF Close, socks, counters, reap
  <1>a2. s \in live /\ live' = live \ {s} /\ closing' = closing \cup {s}
    BY DEF Close
  <1>1. PoolTypes'
    BY <1>a1, <1>a2 DEF PoolTypes
  <1>2. PoolJobs'
    BY <1>a1, <1>a2 DEF PoolJobs, PoolTypes
  <1>3. PoolEntries'
    BY <1>a1, <1>a2 DEF PoolEntries, PoolTypes
  <1>4. PoolRefresh'
    BY <1>a1, <1>a2 DEF PoolRefresh, PoolTypes
  <1>5. PoolHeld'
    BY <1>a1, <1>a2 DEF PoolHeld
  <1>6. PoolApart'
    BY <1>a1, <1>a2 DEF PoolApart, PoolHeld
  <1>7. PoolReads'
    BY <1>a1, <1>a2 DEF PoolReads, PoolTypes
  <1>8. PoolJoins'
    BY <1>a1, <1>a2 DEF PoolJoins, PoolTypes, Joins, Cut
  <1>9. PoolRooms'
    BY <1>a1, <1>a2 DEF PoolRooms, PoolTypes, Shown, Cut
  <1>10. QED
    BY <1>1, <1>2, <1>3, <1>4, <1>5, <1>6, <1>7, <1>8, <1>9

(* Disconnect keeps PoolInv. *)
LEMMA PoolDisconnect ==
  ASSUME SessionPoolAssumption, OneWriter, PoolInv, NEW s \in Sessions, Disconnect(s)
  PROVE  PoolInv'
  <1> USE DEF PoolInv
  <1>a1. UNCHANGED <<used, live, access, beat, job, refresh, reaping, held, revokes>>
    BY DEF Disconnect, socks, counters, reap
  <1>a2. s \in used \ live /\ closing' \subseteq closing
    BY DEF Disconnect, PoolTypes
  <1>a3. DOMAIN pool' = Sessions /\ \A t \in Sessions : t # s => pool'[t] = pool[t]
    BY DEF Disconnect, PoolTypes
  <1>a4. rooms' \in [Sessions -> SUBSET Chats] /\ \A t \in Sessions : t # s => rooms'[t] = rooms[t]
    BY DEF Disconnect, PoolTypes
  <1>1. PoolTypes'
    BY <1>a1, <1>a2, <1>a3, <1>a4 DEF PoolTypes
  <1>2. PoolJobs'
    BY <1>a1, <1>a2, <1>a3, <1>a4 DEF PoolJobs, PoolTypes
  <1>3. PoolEntries'
    BY <1>a1, <1>a2, <1>a3, <1>a4 DEF PoolEntries, PoolTypes
  <1>4. PoolRefresh'
    BY <1>a1, <1>a2, <1>a3, <1>a4 DEF PoolRefresh, PoolTypes
  <1>5. PoolHeld'
    BY <1>a1, <1>a2, <1>a3, <1>a4 DEF PoolHeld
  <1>6. PoolApart'
    BY <1>a1, <1>a2, <1>a3, <1>a4 DEF PoolApart, PoolHeld
  <1>7. PoolReads'
    BY <1>a1, <1>a2, <1>a3, <1>a4 DEF PoolReads, PoolTypes
  <1>8. PoolJoins'
    BY <1>a1, <1>a2, <1>a3, <1>a4 DEF PoolJoins, PoolTypes, Joins, Cut
  <1>9. PoolRooms'
    BY <1>a1, <1>a2, <1>a3, <1>a4 DEF PoolRooms, PoolTypes, Shown, Cut
  <1>10. QED
    BY <1>1, <1>2, <1>3, <1>4, <1>5, <1>6, <1>7, <1>8, <1>9

(* Revoke keeps PoolInv. *)
LEMMA PoolRevoke ==
  ASSUME SessionPoolAssumption, OneWriter, PoolInv, NEW w \in Workers, NEW c \in Chats, Revoke(w, c)
  PROVE  PoolInv'
  <1> USE DEF PoolInv
  <1>a1. UNCHANGED <<used, live, closing, rooms, pool, beat, job, reaping, held>>
    BY DEF Revoke, socks, counters, reap
  <1>a2. w = Main /\ refresh.at = "idle" /\ access' = access \ {c} /\ revokes' \in Nat
    BY DEF Revoke, NoRefresh, OneWriter, PoolTypes
  <1>a3. refresh'.w = Main /\ refresh'.at = "check" /\ refresh'.chat = c
    BY <1>a2 DEF Revoke
  <1>a4. \A t \in refresh'.left : t \in Sessions /\ pool[t] # None /\ c \in pool[t].chats
    BY DEF Revoke
  <1>a5. refresh'.left \subseteq used
    BY <1>a4 DEF PoolEntries
  <1>1. PoolTypes'
    BY <1>a1, <1>a2, <1>a3, <1>a4, <1>a5 DEF PoolTypes
  <1>2. PoolJobs'
    BY <1>a1, <1>a2, <1>a3, <1>a4, <1>a5 DEF PoolJobs, PoolTypes
  <1>3. PoolEntries'
    BY <1>a1, <1>a2, <1>a3, <1>a4, <1>a5 DEF PoolEntries, PoolTypes
  <1>4. PoolRefresh'
    BY <1>a1, <1>a2, <1>a3, <1>a4, <1>a5 DEF PoolRefresh, PoolTypes
  <1>5. PoolHeld'
    BY <1>a1, <1>a2, <1>a3, <1>a4, <1>a5 DEF PoolHeld
  <1>6. PoolApart'
    BY <1>a1, <1>a2, <1>a3, <1>a4, <1>a5 DEF PoolApart, PoolHeld
  <1>7. PoolReads'
    BY <1>a1, <1>a2, <1>a3, <1>a4, <1>a5 DEF PoolReads, PoolTypes
  <1>8. PoolJoins'
    BY <1>a1, <1>a2, <1>a3, <1>a4, <1>a5 DEF PoolJoins, PoolTypes, Joins, Cut
  <1>9. PoolRooms'
    BY <1>a1, <1>a2, <1>a3, <1>a4, <1>a5 DEF PoolRooms, PoolTypes, Shown, Cut
  <1>10. QED
    BY <1>1, <1>2, <1>3, <1>4, <1>5, <1>6, <1>7, <1>8, <1>9

(* RefreshLeave keeps PoolInv. *)
LEMMA PoolRefreshLeave ==
  ASSUME SessionPoolAssumption, OneWriter, PoolInv, RefreshLeave
  PROVE  PoolInv'
  <1> USE DEF PoolInv
  <1>a1. UNCHANGED <<used, live, closing, pool, access, beat, job, reaping, held, revokes>>
    BY DEF RefreshLeave, socks, counters, reap
  <1>a2. refresh.at = "check" /\ refresh.chat \in Chats \ access /\ refresh.w = Main /\ refresh.left \subseteq used
    BY DEF RefreshLeave, PoolRefresh
  <1>a3. \/ refresh'.at = "idle" /\ rooms' = rooms
         \/ /\ refresh'.at = "read" /\ refresh'.s \in refresh.left /\ refresh'.left = refresh.left \ {refresh'.s}
            /\ refresh'.w = Main /\ refresh'.chat = refresh.chat
            /\ rooms' = [rooms EXCEPT ![refresh'.s] = @ \ {refresh.chat}]
    BY <1>a2 DEF RefreshLeave, NoRefresh, RefreshTo
  <1>1. PoolTypes'
    BY <1>a1, <1>a2, <1>a3 DEF PoolTypes
  <1>2. PoolJobs'
    BY <1>a1, <1>a2, <1>a3 DEF PoolJobs, PoolTypes
  <1>3. PoolEntries'
    BY <1>a1, <1>a2, <1>a3 DEF PoolEntries, PoolTypes
  <1>4. PoolRefresh'
    BY <1>a1, <1>a2, <1>a3 DEF PoolRefresh, PoolTypes
  <1>5. PoolHeld'
    BY <1>a1, <1>a2, <1>a3 DEF PoolHeld
  <1>6. PoolApart'
    BY <1>a1, <1>a2, <1>a3 DEF PoolApart, PoolHeld
  <1>7. PoolReads'
    BY <1>a1, <1>a2, <1>a3 DEF PoolReads, PoolTypes
  <1>8. PoolJoins'
    BY <1>a1, <1>a2, <1>a3 DEF PoolJoins, PoolTypes, Joins, Cut
  <1>9. PoolRooms'
    <2>1. CASE refresh'.at = "idle"
      BY <2>1, <1>a1, <1>a2, <1>a3 DEF PoolRooms, Shown, Cut
    <2>2. CASE refresh'.at # "idle"
      <3>1. refresh'.s \in Sessions /\ rooms'[refresh'.s] = rooms[refresh'.s] \ {refresh.chat}
        BY <2>2, <1>a2, <1>a3 DEF PoolTypes
      <3>2. \A t \in Sessions : t # refresh'.s => rooms'[t] = rooms[t]
        BY <2>2, <1>a3 DEF PoolTypes
      <3>3. QED
        BY <2>2, <3>1, <3>2, <1>a1, <1>a2, <1>a3 DEF PoolTypes, PoolRooms, Shown, Cut
    <2>3. QED
      BY <2>1, <2>2
  <1>10. QED
    BY <1>1, <1>2, <1>3, <1>4, <1>5, <1>6, <1>7, <1>8, <1>9

(* RefreshRead keeps PoolInv. *)
LEMMA PoolRefreshRead ==
  ASSUME SessionPoolAssumption, OneWriter, PoolInv, RefreshRead
  PROVE  PoolInv'
  <1> USE DEF PoolInv
  <1>a1. UNCHANGED <<used, live, closing, rooms, pool, access, beat, job, reaping, revokes>>
    BY DEF RefreshRead, socks, counters, reap
  <1>a2. /\ refresh.at = "read" /\ refresh.chat \in Chats \ access /\ refresh.w = Main
         /\ refresh.left \subseteq used /\ refresh.s \in used /\ Main \notin held
    BY DEF RefreshRead, Free, PoolRefresh
  <1>a3. refresh'.w = Main /\ refresh'.chat = refresh.chat /\ refresh'.left = refresh.left /\ refresh'.s = refresh.s
    BY <1>a2 DEF RefreshRead, RefreshTo
  <1>a4. \A t \in Sessions : job[t].at # "write" /\ beat[t].at # "write"
    BY <1>a2 DEF PoolHeld
  <1>a5. \/ refresh'.at = "check" /\ held' = held /\ refresh.s \notin live
         \/ refresh'.at = "write" /\ refresh'.read = pool[refresh.s] /\ held' = held \cup {Main}
    BY <1>a2 DEF RefreshRead, RefreshTo, PoolEntries
  <1>1. PoolTypes'
    BY <1>a1, <1>a2, <1>a3, <1>a4, <1>a5 DEF PoolTypes
  <1>2. PoolJobs'
    BY <1>a1, <1>a2, <1>a3, <1>a4, <1>a5 DEF PoolJobs, PoolTypes
  <1>3. PoolEntries'
    BY <1>a1, <1>a2, <1>a3, <1>a4, <1>a5 DEF PoolEntries, PoolTypes
  <1>4. PoolRefresh'
    BY <1>a1, <1>a2, <1>a3, <1>a4, <1>a5 DEF PoolRefresh, PoolTypes
  <1>5. PoolHeld'
    BY <1>a1, <1>a2, <1>a3, <1>a4, <1>a5 DEF PoolHeld
  <1>6. PoolApart'
    BY <1>a1, <1>a2, <1>a3, <1>a4, <1>a5 DEF PoolApart, PoolHeld
  <1>7. PoolReads'
    BY <1>a1, <1>a2, <1>a3, <1>a4, <1>a5 DEF PoolReads, PoolTypes
  <1>8. PoolJoins'
    BY <1>a1, <1>a2, <1>a3, <1>a4, <1>a5 DEF PoolJoins, PoolTypes, Joins, Cut
  <1>9. PoolRooms'
    BY <1>a1, <1>a2, <1>a3, <1>a4, <1>a5 DEF PoolRooms, PoolTypes, Shown, Cut
  <1>10. QED
    BY <1>1, <1>2, <1>3, <1>4, <1>5, <1>6, <1>7, <1>8, <1>9

(* RefreshWrite keeps PoolInv. *)
LEMMA PoolRefreshWrite ==
  ASSUME SessionPoolAssumption, OneWriter, PoolInv, RefreshWrite
  PROVE  PoolInv'
  <1> USE DEF PoolInv
  <1>a1. UNCHANGED <<used, live, closing, rooms, access, beat, job, reaping, revokes>>
    BY DEF RefreshWrite, socks, counters, reap
  <1>a2. /\ refresh.at = "write" /\ refresh.chat \in Chats \ access /\ refresh.w = Main
         /\ refresh.left \subseteq used /\ refresh.s \in used
    BY DEF RefreshWrite, PoolRefresh
  <1>a3. /\ held' = held \ {Main} /\ refresh'.at = "check" /\ refresh'.w = Main
         /\ refresh'.chat = refresh.chat /\ refresh'.left = refresh.left
    BY <1>a2 DEF RefreshWrite, RefreshTo
  <1>a4. DOMAIN pool' = Sessions /\ \A t \in Sessions : t # refresh.s => pool'[t] = pool[t]
    BY DEF RefreshWrite, PoolTypes
  <1>a5. \A t \in Sessions : beat[t].at # "write" /\ job[t].at # "write"
    BY <1>a2 DEF PoolApart
  <1>a6. refresh.s \in live =>
             /\ pool'[refresh.s] # None /\ pool'[refresh.s].fresh = TRUE
             /\ pool'[refresh.s].chats = pool[refresh.s].chats \ {refresh.chat}
    <2> DEFINE cs == pool[refresh.s].chats \ {refresh.chat}
    <2> SUFFICES ASSUME refresh.s \in live
                 PROVE  pool'[refresh.s] # None /\ pool'[refresh.s].fresh = TRUE /\ pool'[refresh.s].chats = cs
      OBVIOUS
    <2>1. refresh.read = pool[refresh.s] /\ pool[refresh.s].fresh = TRUE /\ cs \in SUBSET Chats
      BY <1>a2 DEF PoolReads, PoolEntries
    <2>2. pool'[refresh.s] = Entry(TRUE, cs)
      BY <2>1, <1>a2 DEF RefreshWrite, PoolTypes
    <2> HIDE DEF cs
    <2>3. QED
      BY <2>1, <2>2, PoolEntry
  <1>1. PoolTypes'
    BY <1>a1, <1>a2, <1>a3, <1>a4, <1>a5, <1>a6 DEF PoolTypes
  <1>2. PoolJobs'
    BY <1>a1, <1>a2, <1>a3, <1>a4, <1>a5, <1>a6 DEF PoolJobs, PoolTypes
  <1>3. PoolEntries'
    BY <1>a1, <1>a2, <1>a3, <1>a4, <1>a5, <1>a6 DEF PoolEntries, PoolTypes
  <1>4. PoolRefresh'
    BY <1>a1, <1>a2, <1>a3, <1>a4, <1>a5, <1>a6 DEF PoolRefresh, PoolTypes
  <1>5. PoolHeld'
    BY <1>a1, <1>a2, <1>a3, <1>a4, <1>a5, <1>a6 DEF PoolHeld
  <1>6. PoolApart'
    BY <1>a1, <1>a2, <1>a3, <1>a4, <1>a5, <1>a6 DEF PoolApart, PoolHeld
  <1>7. PoolReads'
    BY <1>a1, <1>a2, <1>a3, <1>a4, <1>a5, <1>a6 DEF PoolReads, PoolTypes
  <1>8. PoolJoins'
    BY <1>a1, <1>a2, <1>a3, <1>a4, <1>a5, <1>a6 DEF PoolJoins, PoolTypes, Joins, Cut
  <1>9. PoolRooms'
    BY <1>a1, <1>a2, <1>a3, <1>a4, <1>a5, <1>a6 DEF PoolRooms, PoolTypes, Shown, Cut, PoolJoins,
           Joins
  <1>10. QED
    BY <1>1, <1>2, <1>3, <1>4, <1>5, <1>6, <1>7, <1>8, <1>9

(* AcquireLease keeps PoolInv. *)
LEMMA PoolAcquireLease ==
  ASSUME SessionPoolAssumption, OneWriter, PoolInv, NEW w \in Workers, AcquireLease(w)
  PROVE  PoolInv'
  BY PoolFrame DEF AcquireLease, socks, counters, reap

(* Sweep keeps PoolInv. *)
LEMMA PoolSweep ==
  ASSUME SessionPoolAssumption, OneWriter, PoolInv, NEW w \in Workers, Sweep(w)
  PROVE  PoolInv'
  <1> USE DEF PoolInv
  <1>a1. UNCHANGED <<used, live, closing, rooms, access, beat, job, refresh, held, revokes>>
    BY DEF Sweep, socks, counters, reap
  <1>a2. /\ DOMAIN pool' = Sessions /\ \A t \in live : pool'[t] = pool[t]
         /\ \A t \in Sessions \ used : pool'[t] = None
    BY DEF Sweep, PoolTypes, PoolEntries
  <1>a3. DOMAIN reaping' = Workers /\ \A v \in Workers : reaping'[v] \subseteq used \ live
    BY DEF Sweep, PoolTypes, PoolEntries
  <1>1. PoolTypes'
    BY <1>a1, <1>a2, <1>a3 DEF PoolTypes
  <1>2. PoolJobs'
    BY <1>a1, <1>a2, <1>a3 DEF PoolJobs, PoolTypes
  <1>3. PoolEntries'
    BY <1>a1, <1>a2, <1>a3 DEF PoolEntries, PoolTypes
  <1>4. PoolRefresh'
    BY <1>a1, <1>a2, <1>a3 DEF PoolRefresh, PoolTypes
  <1>5. PoolHeld'
    BY <1>a1, <1>a2, <1>a3 DEF PoolHeld
  <1>6. PoolApart'
    BY <1>a1, <1>a2, <1>a3 DEF PoolApart, PoolHeld
  <1>7. PoolReads'
    BY <1>a1, <1>a2, <1>a3 DEF PoolReads, PoolTypes
  <1>8. PoolJoins'
    BY <1>a1, <1>a2, <1>a3 DEF PoolJoins, PoolTypes, Joins, Cut
  <1>9. PoolRooms'
    BY <1>a1, <1>a2, <1>a3 DEF PoolRooms, PoolTypes, Shown, Cut
  <1>10. QED
    BY <1>1, <1>2, <1>3, <1>4, <1>5, <1>6, <1>7, <1>8, <1>9

(* ReapRooms keeps PoolInv. *)
LEMMA PoolReapRooms ==
  ASSUME SessionPoolAssumption, OneWriter, PoolInv, NEW w \in Workers, ReapRooms(w)
  PROVE  PoolInv'
  <1> USE DEF PoolInv
  <1>a1. UNCHANGED <<used, live, closing, pool, access, beat, job, refresh, held, revokes>>
    BY DEF ReapRooms, socks, counters, reap
  <1>a2. DOMAIN reaping' = Workers /\ \A v \in Workers : reaping'[v] \subseteq reaping[v]
    BY DEF ReapRooms, PoolTypes
  <1>a3. /\ rooms' \in [Sessions -> SUBSET Chats] /\ \A t \in live : rooms'[t] = rooms[t]
         /\ \A t \in Sessions \ used : rooms'[t] = {}
    BY DEF ReapRooms, PoolTypes, PoolEntries
  <1>1. PoolTypes'
    BY <1>a1, <1>a2, <1>a3 DEF PoolTypes
  <1>2. PoolJobs'
    BY <1>a1, <1>a2, <1>a3 DEF PoolJobs, PoolTypes
  <1>3. PoolEntries'
    BY <1>a1, <1>a2, <1>a3 DEF PoolEntries, PoolTypes
  <1>4. PoolRefresh'
    BY <1>a1, <1>a2, <1>a3 DEF PoolRefresh, PoolTypes
  <1>5. PoolHeld'
    BY <1>a1, <1>a2, <1>a3 DEF PoolHeld
  <1>6. PoolApart'
    BY <1>a1, <1>a2, <1>a3 DEF PoolApart, PoolHeld
  <1>7. PoolReads'
    BY <1>a1, <1>a2, <1>a3 DEF PoolReads, PoolTypes
  <1>8. PoolJoins'
    BY <1>a1, <1>a2, <1>a3 DEF PoolJoins, PoolTypes, Joins, Cut
  <1>9. PoolRooms'
    BY <1>a1, <1>a2, <1>a3 DEF PoolRooms, PoolTypes, Shown, Cut
  <1>10. QED
    BY <1>1, <1>2, <1>3, <1>4, <1>5, <1>6, <1>7, <1>8, <1>9

(* Crash keeps PoolInv. *)
LEMMA PoolCrash ==
  ASSUME SessionPoolAssumption, OneWriter, PoolInv, NEW w \in Workers, Crash(w)
  PROVE  PoolInv'
  <1> USE DEF PoolInv
  <1>a1. /\ UNCHANGED <<used, pool, access, revokes>> /\ held' = held \ {w} /\ DOMAIN reaping' = Workers
         /\ \A v \in Workers : reaping'[v] \subseteq reaping[v]
    BY DEF Crash, PoolTypes
  <1>a2. /\ live' \subseteq live /\ closing' \subseteq closing /\ rooms' \in [Sessions -> SUBSET Chats]
         /\ DOMAIN beat' = Sessions /\ DOMAIN job' = Sessions
    BY DEF Crash, PoolTypes
  <1>a3. Main = w => live' = {} /\ closing' = {} /\ \A s \in Sessions : rooms'[s] = {}
    BY DEF Crash
  <1>a4. Main # w => live' = live /\ \A s \in Sessions : rooms'[s] = rooms[s]
    BY DEF Crash, PoolTypes
  <1>a5. Main # w => \A s \in Sessions : beat'[s] = beat[s] /\ job'[s] = job[s]
    BY DEF Crash
  <1>a6. Main = w => \A s \in Sessions : beat'[s].at = "idle" /\ job'[s].at = "idle"
    BY DEF Crash, Idle
  <1>a7. Main = w => refresh'.at = "idle"
    BY DEF Crash, NoRefresh, PoolRefresh
  <1>a8. Main # w => refresh' = refresh \/ (refresh.at = "idle" /\ refresh'.at = "idle")
    BY DEF Crash, NoRefresh, PoolRefresh
  <1>1. PoolTypes'
    <2>1. CASE Main = w
      BY <2>1, <1>a1, <1>a2, <1>a3, <1>a6, <1>a7 DEF PoolTypes
    <2>2. CASE Main # w
      BY <2>2, <1>a1, <1>a2, <1>a4, <1>a5, <1>a8 DEF PoolTypes
    <2>3. QED
      BY <2>1, <2>2
  <1>2. PoolJobs'
    <2>1. CASE Main = w
      BY <2>1, <1>a1, <1>a2, <1>a3, <1>a6, <1>a7 DEF PoolJobs, PoolTypes
    <2>2. CASE Main # w
      BY <2>2, <1>a1, <1>a2, <1>a4, <1>a5, <1>a8 DEF PoolJobs, PoolTypes
    <2>3. QED
      BY <2>1, <2>2
  <1>3. PoolEntries'
    <2>1. CASE Main = w
      BY <2>1, <1>a1, <1>a2, <1>a3, <1>a6, <1>a7 DEF PoolEntries, PoolTypes
    <2>2. CASE Main # w
      BY <2>2, <1>a1, <1>a2, <1>a4, <1>a5, <1>a8 DEF PoolEntries, PoolTypes
    <2>3. QED
      BY <2>1, <2>2
  <1>4. PoolRefresh'
    <2>1. CASE Main = w
      BY <2>1, <1>a1, <1>a2, <1>a3, <1>a6, <1>a7 DEF PoolRefresh, PoolTypes
    <2>2. CASE Main # w
      BY <2>2, <1>a1, <1>a2, <1>a4, <1>a5, <1>a8 DEF PoolRefresh, PoolTypes
    <2>3. QED
      BY <2>1, <2>2
  <1>5. PoolHeld'
    <2>1. CASE Main = w
      BY <2>1, <1>a1, <1>a2, <1>a3, <1>a6, <1>a7 DEF PoolHeld
    <2>2. CASE Main # w
      BY <2>2, <1>a1, <1>a2, <1>a4, <1>a5, <1>a8 DEF PoolHeld
    <2>3. QED
      BY <2>1, <2>2
  <1>6. PoolApart'
    <2>1. CASE Main = w
      BY <2>1, <1>a1, <1>a2, <1>a3, <1>a6, <1>a7 DEF PoolApart, PoolHeld
    <2>2. CASE Main # w
      BY <2>2, <1>a1, <1>a2, <1>a4, <1>a5, <1>a8 DEF PoolApart, PoolHeld
    <2>3. QED
      BY <2>1, <2>2
  <1>7. PoolReads'
    <2>1. CASE Main = w
      BY <2>1, <1>a1, <1>a2, <1>a3, <1>a6, <1>a7 DEF PoolReads, PoolTypes
    <2>2. CASE Main # w
      BY <2>2, <1>a1, <1>a2, <1>a4, <1>a5, <1>a8 DEF PoolReads, PoolTypes
    <2>3. QED
      BY <2>1, <2>2
  <1>8. PoolJoins'
    <2>1. CASE Main = w
      BY <2>1, <1>a1, <1>a2, <1>a3, <1>a6, <1>a7 DEF PoolJoins, PoolTypes, Joins, Cut
    <2>2. CASE Main # w
      BY <2>2, <1>a1, <1>a2, <1>a4, <1>a5, <1>a8 DEF PoolJoins, PoolTypes, Joins, Cut
    <2>3. QED
      BY <2>1, <2>2
  <1>9. PoolRooms'
    <2>1. CASE Main = w
      BY <2>1, <1>a1, <1>a2, <1>a3, <1>a6, <1>a7 DEF PoolRooms, PoolTypes, Shown, Cut
    <2>2. CASE Main # w
      BY <2>2, <1>a1, <1>a2, <1>a4, <1>a5, <1>a8 DEF PoolRooms, PoolTypes, Shown, Cut
    <2>3. QED
      BY <2>1, <2>2
  <1>10. QED
    BY <1>1, <1>2, <1>3, <1>4, <1>5, <1>6, <1>7, <1>8, <1>9

(* Lapse keeps PoolInv. *)
LEMMA PoolLapse ==
  ASSUME SessionPoolAssumption, OneWriter, PoolInv, Lapse
  PROVE  PoolInv'
  BY PoolFrame DEF Lapse, socks, counters, reap

(* Expire keeps PoolInv. *)
LEMMA PoolExpire ==
  ASSUME SessionPoolAssumption, OneWriter, PoolInv, Expire
  PROVE  PoolInv'
  BY PoolFrame DEF Expire, socks, counters, reap

(* Every step keeps PoolInv. *)
LEMMA PoolNext ==
  ASSUME SessionPoolAssumption, OneWriter, PoolInv, [Next]_vars
  PROVE  PoolInv'
  <1>1. CASE UNCHANGED vars
    BY <1>1, PoolFrame DEF vars, socks, counters, reap
  <1>2. QED
    BY <1>1, PoolConnect, PoolHeartbeatStart, PoolHeartbeatRead, PoolHeartbeat, PoolTimeout,
           PoolJoinChat,
       PoolLeaveChat, PoolChatRoom, PoolChatRead, PoolChatWrite, PoolClose, PoolDisconnect,
       PoolRevoke, PoolRefreshLeave, PoolRefreshRead, PoolRefreshWrite, PoolAcquireLease, PoolSweep,
       PoolReapRooms, PoolCrash, PoolLapse, PoolExpire
    DEF Next, Handlers

(* refresh_chat_access, heartbeat, join and leave: a connected session that   *)
(* nothing is being done for is in the rooms its entry lists, for any number  *)
(* of sessions, chats, restarts of workers and lapses of the reaper's lease,  *)
(* as long as one worker changes access and heartbeats are not missed.        *)
THEOREM PoolRoomsAreListed ==
  ASSUME SessionPoolAssumption, OneWriter
  PROVE  Spec => []RoomsAreListed
  <1>1. PoolInv /\ [Next]_vars => PoolInv'
    BY PoolNext
  <1>2. PoolInv => RoomsAreListed
    <2> SUFFICES ASSUME PoolInv, NEW s \in live, Quiet(s)
                 PROVE  rooms[s] = IF pool[s] = None THEN {} ELSE pool[s].chats
      BY DEF RoomsAreListed
    <2>1. job[s].at = "idle" /\ refresh.at = "idle"
      BY DEF Quiet, Idle, NoRefresh
    <2>2. pool[s] # None /\ pool[s].chats \subseteq Chats /\ rooms[s] \subseteq Chats
      BY DEF PoolInv, PoolTypes, PoolEntries
    <2>3. \A c \in Chats : c \in rooms[s] <=> c \in pool[s].chats
      BY <2>1 DEF PoolInv, PoolRooms, Shown, Cut
    <2>4. QED
      BY <2>2, <2>3
  <1>3. QED
    BY <1>1, <1>2, PoolInit, PTL DEF Spec
=============================================================================
