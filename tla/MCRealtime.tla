----------------------------- MODULE MCRealtime -----------------------------
(***************************************************************************)
(* The websocket server and what it keeps together: sessions and rooms,    *)
(* the channels of a worker, message events, encrypted requests, external  *)
(* apps, the model registry, the documents and pages of notes and the      *)
(* messages of a chat, its sub-agents and their results.  Each scenario is *)
(* one of these components under bounds of its own; they share no state,   *)
(* so a behaviour runs one of them and the variables of the others stay    *)
(* Off, those of Subagents as they begin.                                  *)
(***************************************************************************)
EXTENDS Subagents

CONSTANTS Off, a, a1, b, c1, c2, d1, d2, e1, e2, j1, j2, m1, m2, m3, m4, main, r1, r2, s1, t1,
          u1, u2, u3, w1, w2

VARIABLES which,   \* the scenario that runs
          used, live, closing, rooms, pool, access, beat, sessionPoolJob, refresh, lease,
          reaper, reaping, held, beats, joins, revokes, crashes, sessionPoolLapses,
          call, dirty, queued, busy, batch, serial, chans, dropping, pipe, back, subs,
          reconnects, roomChannelsErrors,
          reg, encryptionRelayLock, txn, encryptionRelayLocal, online, late,
          encryptionRelayActive, sent, reused, encryptionRelayEnded, afterEnd, ids,
          actions, encryptionRelayLapses, sweeps, pings, changes,
          row, server, appConnectionsReq, peer, installs, requests, appConnectionsDrops,
          messageEventsStored, own, messageEventsJob, items, output, shown, messageEventsEnded,
          offered, hash, sig, base, modelRegistryLocal, pc, listing, existing, cache, cachedSig,
          readSig, rpc, uuids, clears, failures, cleared,
          on, gen, doc, timer, up, down, conn, log, size, users, pending, db, dbGen, open, born,
          noteDocumentsDrops, flushes, noteDocumentsStored,
          pages, revision, updated, gone, notePagesReq, notePagesLast, edits, notePagesOps,
          msgs, cur, rows, running, snap, fill, chatHistoryOps

Pool == INSTANCE SessionPool WITH
    Workers <- {w1}, Sessions <- {s1}, Chats <- {a, b}, Main <- w1, MaxBeats <- 2,
    MaxJoins <- 4, MaxRevokes <- 2, MaxCrashes <- 0, MaxLapses <- 0, LateBeats <- FALSE,
    job <- sessionPoolJob, lapses <- sessionPoolLapses
PoolWorkers == INSTANCE SessionPool WITH
    Workers <- {w1, w2}, Sessions <- {s1}, Chats <- {a, b}, Main <- w1, MaxBeats <- 1,
    MaxJoins <- 4, MaxRevokes <- 0, MaxCrashes <- 1, MaxLapses <- 1, LateBeats <- FALSE,
    job <- sessionPoolJob, lapses <- sessionPoolLapses
Subscriptions == INSTANCE RoomChannels WITH
    Joiners <- {j1, j2}, Rooms <- {a, b}, Main <- main, MaxReconnects <- 1, MaxErrors <- 1,
    errors <- roomChannelsErrors
Relay == INSTANCE EncryptionRelay WITH
    Users <- {u1, u2, u3}, Near <- {u1}, Channels <- {a}, MaxActions <- 4, MaxLapses <- 0,
    MaxSweeps <- 1, MaxPings <- 1, MaxChanges <- 1, lock <- encryptionRelayLock,
    local <- encryptionRelayLocal, active <- encryptionRelayActive,
    ended <- encryptionRelayEnded, lapses <- encryptionRelayLapses
RelayStalled == INSTANCE EncryptionRelay WITH
    Users <- {u1, u2}, Near <- {u1}, Channels <- {a}, MaxActions <- 6, MaxLapses <- 1,
    MaxSweeps <- 0, MaxPings <- 0, MaxChanges <- 1, lock <- encryptionRelayLock,
    local <- encryptionRelayLocal, active <- encryptionRelayActive,
    ended <- encryptionRelayEnded, lapses <- encryptionRelayLapses
Apps == INSTANCE AppConnections WITH
    Workers <- {w1, w2}, Admins <- {a1}, Ops <- {"connect", "uninstall", "update"},
    MaxRequests <- 4, MaxDrops <- 1, req <- appConnectionsReq, drops <- appConnectionsDrops
Emitted == INSTANCE MessageEvents WITH
    Emitters <- {e1, e2}, Kinds <- {"files", "source"}, MaxItems <- 5,
    stored <- messageEventsStored, job <- messageEventsJob, ended <- messageEventsEnded
ModelHash == INSTANCE ModelRegistry WITH
    Models <- {a, b}, Requests <- {r1}, Readers <- {w1}, MaxWrites <- 3, MaxClears <- 1,
    MaxFailures <- 2, local <- modelRegistryLocal
RegistryCache == INSTANCE ModelRegistry WITH
    Models <- {a, b}, Requests <- {r1, r2}, Readers <- {w1}, MaxWrites <- 2, MaxClears <- 1,
    MaxFailures <- 0, local <- modelRegistryLocal
Documents == INSTANCE NoteDocuments WITH
    Clients <- {c1, c2}, Saved <- {0}, MaxItems <- 4, MaxDrops <- 0, MaxFlushes <- 1,
    MaxReplaced <- 0, MaxSize <- 9, Threshold <- 3, drops <- noteDocumentsDrops,
    stored <- noteDocumentsStored
NotesAlone == INSTANCE NoteDocuments WITH
    Clients <- {c1}, Saved <- {0}, MaxItems <- 3, MaxDrops <- 0, MaxFlushes <- 2,
    MaxReplaced <- 2, MaxSize <- 9, Threshold <- 2, drops <- noteDocumentsDrops,
    stored <- noteDocumentsStored
PageForest == INSTANCE NotePages WITH
    Writers <- {w1}, MaxPages <- 3, MaxOps <- 3, MaxTries <- 8, req <- notePagesReq,
    last <- notePagesLast, ops <- notePagesOps
Chat == INSTANCE ChatHistory WITH
    Ids <- {m1, m2, m3, m4}, Asked <- m1, Answer <- m2, Tabs <- {t1}, Readers <- {},
    Guests <- {"guest"}, MaxVer <- 2, MaxOps <- 3, ops <- chatHistoryOps
ChatRead == INSTANCE ChatHistory WITH
    Ids <- {m1, m2, m3, m4}, Asked <- m1, Answer <- m2, Tabs <- {t1}, Readers <- {r1},
    Guests <- {"guest"}, MaxVer <- 2, MaxOps <- 3, ops <- chatHistoryOps
Refused == INSTANCE Subagents WITH
    Jobs <- {d1, d2}, MaxAsync <- 1, MaxConcurrent <- 1, Modes <- {"background"},
    MaxDelegating <- 1, MaxTurns <- 4, MaxUserTurns <- 0, MaxStops <- 0, MaxFaults <- 0,
    MaxAborts <- 1, MaxErrors <- 1, MaxRefused <- 1
Results == INSTANCE Subagents WITH
    Jobs <- {d1, d2}, MaxAsync <- 2, MaxConcurrent <- 1, Modes <- {"background"},
    MaxDelegating <- 1, MaxTurns <- 4, MaxUserTurns <- 1, MaxStops <- 0, MaxFaults <- 0,
    MaxAborts <- 0, MaxErrors <- 0, MaxRefused <- 0

(* The bounds of every scenario are what its module expects. *)
ASSUME RealtimeAssumption ==
    /\ Pool!SessionPoolAssumption /\ PoolWorkers!SessionPoolAssumption
    /\ ModelHash!ModelsNonEmpty /\ RegistryCache!ModelsNonEmpty
    /\ Documents!DocumentBounds /\ NotesAlone!DocumentBounds
    /\ Chat!ChatHistoryAssumption /\ ChatRead!ChatHistoryAssumption
    /\ SubagentsAssumption /\ Refused!SubagentsAssumption
    /\ Results!SubagentsAssumption

SessionPoolOff ==
    /\ used = Off /\ live = Off /\ closing = Off /\ rooms = Off /\ pool = Off
    /\ access = Off /\ beat = Off /\ sessionPoolJob = Off /\ refresh = Off /\ lease = Off
    /\ reaper = Off /\ reaping = Off /\ held = Off /\ beats = Off /\ joins = Off
    /\ revokes = Off /\ crashes = Off /\ sessionPoolLapses = Off
RoomChannelsOff ==
    /\ call = Off /\ dirty = Off /\ queued = Off /\ busy = Off /\ batch = Off
    /\ serial = Off /\ chans = Off /\ dropping = Off /\ pipe = Off /\ back = Off
    /\ subs = Off /\ reconnects = Off /\ roomChannelsErrors = Off
EncryptionRelayOff ==
    /\ reg = Off /\ encryptionRelayLock = Off /\ txn = Off /\ encryptionRelayLocal = Off /\ online = Off
    /\ late = Off /\ encryptionRelayActive = Off /\ sent = Off /\ reused = Off /\ encryptionRelayEnded = Off
    /\ afterEnd = Off /\ ids = Off /\ actions = Off /\ encryptionRelayLapses = Off /\ sweeps = Off
    /\ pings = Off /\ changes = Off
AppConnectionsOff ==
    /\ row = Off /\ server = Off /\ appConnectionsReq = Off /\ peer = Off /\ installs = Off
    /\ requests = Off /\ appConnectionsDrops = Off
MessageEventsOff ==
    /\ messageEventsStored = Off /\ own = Off /\ messageEventsJob = Off /\ items = Off /\ output = Off
    /\ shown = Off /\ messageEventsEnded = Off
ModelRegistryOff ==
    /\ offered = Off /\ hash = Off /\ sig = Off /\ base = Off /\ modelRegistryLocal = Off
    /\ pc = Off /\ listing = Off /\ existing = Off /\ cache = Off /\ cachedSig = Off
    /\ readSig = Off /\ rpc = Off /\ uuids = Off /\ clears = Off /\ failures = Off
    /\ cleared = Off
NoteDocumentsOff ==
    /\ on = Off /\ gen = Off /\ doc = Off /\ timer = Off /\ up = Off
    /\ down = Off /\ conn = Off /\ log = Off /\ size = Off /\ users = Off
    /\ pending = Off /\ db = Off /\ dbGen = Off /\ open = Off /\ born = Off
    /\ noteDocumentsDrops = Off /\ flushes = Off /\ noteDocumentsStored = Off
NotePagesOff ==
    /\ pages = Off /\ revision = Off /\ updated = Off /\ gone = Off /\ notePagesReq = Off
    /\ notePagesLast = Off /\ edits = Off /\ notePagesOps = Off
ChatHistoryOff ==
    /\ msgs = Off /\ cur = Off /\ rows = Off /\ running = Off /\ snap = Off
    /\ fill = Off /\ chatHistoryOps = Off

SessionPoolVars == <<used, live, closing, rooms, pool, access, beat, sessionPoolJob, refresh, lease, reaper,
    reaping, held, beats, joins, revokes, crashes, sessionPoolLapses>>
RoomChannelsVars == <<call, dirty, queued, busy, batch, serial, chans, dropping, pipe, back, subs, reconnects,
    roomChannelsErrors>>
EncryptionRelayVars == <<reg, encryptionRelayLock, txn, encryptionRelayLocal, online, late, encryptionRelayActive,
    sent, reused, encryptionRelayEnded, afterEnd, ids, actions, encryptionRelayLapses,
    sweeps, pings, changes>>
AppConnectionsVars == <<row, server, appConnectionsReq, peer, installs, requests, appConnectionsDrops>>
MessageEventsVars == <<messageEventsStored, own, messageEventsJob, items, output, shown, messageEventsEnded>>
ModelRegistryVars == <<offered, hash, sig, base, modelRegistryLocal, pc, listing, existing, cache, cachedSig,
    readSig, rpc, uuids, clears, failures, cleared>>
NoteDocumentsVars == <<on, gen, doc, timer, up, down, conn, log, size, users, pending, db, dbGen, open, born,
    noteDocumentsDrops, flushes, noteDocumentsStored>>
NotePagesVars == <<pages, revision, updated, gone, notePagesReq, notePagesLast, edits, notePagesOps>>
ChatHistoryVars == <<msgs, cur, rows, running, snap, fill, chatHistoryOps>>
SubagentsVars == vars
MCVars == <<which, SessionPoolVars, RoomChannelsVars, EncryptionRelayVars, AppConnectionsVars,
    MessageEventsVars, ModelRegistryVars, NoteDocumentsVars, NotePagesVars, ChatHistoryVars,
    SubagentsVars>>

MCInit ==
    /\ which \in {"pool", "workers", "rooms", "relay", "stalled", "apps", "events", "models",
                "models_cache", "notes", "notes_alone", "pages", "chat",
                "chat_read", "subagents", "refused", "results"}
    /\ CASE which = "pool" -> Pool!Init
         [] which = "workers" -> PoolWorkers!Init
         [] OTHER -> SessionPoolOff
    /\ CASE which = "rooms" -> Subscriptions!Init
         [] OTHER -> RoomChannelsOff
    /\ CASE which = "relay" -> Relay!Init
         [] which = "stalled" -> RelayStalled!Init
         [] OTHER -> EncryptionRelayOff
    /\ CASE which = "apps" -> Apps!Init
         [] OTHER -> AppConnectionsOff
    /\ CASE which = "events" -> Emitted!Init
         [] OTHER -> MessageEventsOff
    /\ CASE which = "models" -> ModelHash!Init
         [] which = "models_cache" -> RegistryCache!Init
         [] OTHER -> ModelRegistryOff
    /\ CASE which = "notes" -> Documents!Init
         [] which = "notes_alone" -> NotesAlone!Init
         [] OTHER -> NoteDocumentsOff
    /\ CASE which = "pages" -> PageForest!Init
         [] OTHER -> NotePagesOff
    /\ CASE which = "chat" -> Chat!Init
         [] which = "chat_read" -> ChatRead!Init
         [] OTHER -> ChatHistoryOff
    /\ CASE which = "refused" -> Refused!Init
         [] which = "results" -> Results!Init
         [] OTHER -> Init

MCNext ==
    \/ /\ which = "pool" /\ Pool!Next
       /\ UNCHANGED <<which, RoomChannelsVars, EncryptionRelayVars, AppConnectionsVars,
                    MessageEventsVars, ModelRegistryVars, NoteDocumentsVars,
                    NotePagesVars, ChatHistoryVars, SubagentsVars>>
    \/ /\ which = "workers" /\ PoolWorkers!Next
       /\ UNCHANGED <<which, RoomChannelsVars, EncryptionRelayVars, AppConnectionsVars,
                    MessageEventsVars, ModelRegistryVars, NoteDocumentsVars,
                    NotePagesVars, ChatHistoryVars, SubagentsVars>>
    \/ /\ which = "rooms" /\ Subscriptions!Next
       /\ UNCHANGED <<which, SessionPoolVars, EncryptionRelayVars, AppConnectionsVars,
                    MessageEventsVars, ModelRegistryVars, NoteDocumentsVars,
                    NotePagesVars, ChatHistoryVars, SubagentsVars>>
    \/ /\ which = "relay" /\ Relay!Next
       /\ UNCHANGED <<which, SessionPoolVars, RoomChannelsVars, AppConnectionsVars,
                    MessageEventsVars, ModelRegistryVars, NoteDocumentsVars,
                    NotePagesVars, ChatHistoryVars, SubagentsVars>>
    \/ /\ which = "stalled" /\ RelayStalled!Next
       /\ UNCHANGED <<which, SessionPoolVars, RoomChannelsVars, AppConnectionsVars,
                    MessageEventsVars, ModelRegistryVars, NoteDocumentsVars,
                    NotePagesVars, ChatHistoryVars, SubagentsVars>>
    \/ /\ which = "apps" /\ Apps!Next
       /\ UNCHANGED <<which, SessionPoolVars, RoomChannelsVars, EncryptionRelayVars,
                    MessageEventsVars, ModelRegistryVars, NoteDocumentsVars,
                    NotePagesVars, ChatHistoryVars, SubagentsVars>>
    \/ /\ which = "events" /\ Emitted!Next
       /\ UNCHANGED <<which, SessionPoolVars, RoomChannelsVars, EncryptionRelayVars,
                    AppConnectionsVars, ModelRegistryVars,
                    NoteDocumentsVars, NotePagesVars, ChatHistoryVars,
                    SubagentsVars>>
    \/ /\ which = "models" /\ ModelHash!Next
       /\ UNCHANGED <<which, SessionPoolVars, RoomChannelsVars, EncryptionRelayVars,
                    AppConnectionsVars, MessageEventsVars,
                    NoteDocumentsVars, NotePagesVars, ChatHistoryVars,
                    SubagentsVars>>
    \/ /\ which = "models_cache" /\ RegistryCache!Next
       /\ UNCHANGED <<which, SessionPoolVars, RoomChannelsVars, EncryptionRelayVars,
                    AppConnectionsVars, MessageEventsVars,
                    NoteDocumentsVars, NotePagesVars, ChatHistoryVars,
                    SubagentsVars>>
    \/ /\ which = "notes" /\ Documents!NextStaying
       /\ UNCHANGED <<which, SessionPoolVars, RoomChannelsVars, EncryptionRelayVars,
                    AppConnectionsVars, MessageEventsVars,
                    ModelRegistryVars, NotePagesVars, ChatHistoryVars,
                    SubagentsVars>>
    \/ /\ which = "notes_alone" /\ NotesAlone!Next
       /\ UNCHANGED <<which, SessionPoolVars, RoomChannelsVars, EncryptionRelayVars,
                    AppConnectionsVars, MessageEventsVars,
                    ModelRegistryVars, NotePagesVars, ChatHistoryVars,
                    SubagentsVars>>
    \/ /\ which = "pages" /\ PageForest!Next
       /\ UNCHANGED <<which, SessionPoolVars, RoomChannelsVars, EncryptionRelayVars,
                    AppConnectionsVars, MessageEventsVars,
                    ModelRegistryVars, NoteDocumentsVars, ChatHistoryVars,
                    SubagentsVars>>
    \/ /\ which = "chat" /\ Chat!Next
       /\ UNCHANGED <<which, SessionPoolVars, RoomChannelsVars, EncryptionRelayVars,
                    AppConnectionsVars, MessageEventsVars,
                    ModelRegistryVars, NoteDocumentsVars, NotePagesVars,
                    SubagentsVars>>
    \/ /\ which = "chat_read" /\ ChatRead!Next
       /\ UNCHANGED <<which, SessionPoolVars, RoomChannelsVars, EncryptionRelayVars,
                    AppConnectionsVars, MessageEventsVars,
                    ModelRegistryVars, NoteDocumentsVars, NotePagesVars,
                    SubagentsVars>>
    \/ /\ which = "subagents" /\ Next
       /\ UNCHANGED <<which, SessionPoolVars, RoomChannelsVars, EncryptionRelayVars,
                    AppConnectionsVars, MessageEventsVars,
                    ModelRegistryVars, NoteDocumentsVars, NotePagesVars,
                    ChatHistoryVars>>
    \/ /\ which = "refused" /\ Refused!Next
       /\ UNCHANGED <<which, SessionPoolVars, RoomChannelsVars, EncryptionRelayVars,
                    AppConnectionsVars, MessageEventsVars,
                    ModelRegistryVars, NoteDocumentsVars, NotePagesVars,
                    ChatHistoryVars>>
    \/ /\ which = "results" /\ Results!Next
       /\ UNCHANGED <<which, SessionPoolVars, RoomChannelsVars, EncryptionRelayVars,
                    AppConnectionsVars, MessageEventsVars,
                    ModelRegistryVars, NoteDocumentsVars, NotePagesVars,
                    ChatHistoryVars>>

MCSpec == MCInit /\ [][MCNext]_MCVars

-----------------------------------------------------------------------------
(* A connected session that nothing is being done for is in the rooms its
   entry lists, so that presence shows who gets the chat's events; "Preserve
   joins/leaves and heartbeats that happened during access checks". *)
RoomsAreListed ==
    /\ which = "pool" => Pool!RoomsAreListed
    /\ which = "workers" => PoolWorkers!RoomsAreListed

(* "PONG confirms Redis processed the subscriptions before a join returns":
   no event published to the room after the join returned passes this worker
   by. *)
JoinSubscribed == [][which = "rooms" => Subscriptions!JoinSubscribed]_MCVars

(* "Per-recipient sequence detects missing Pub/Sub deliveries": a
   participation never gets one number for two events, also when a worker
   stalls past its lock ("A stalled worker must never overwrite a newer
   owner's metadata"). *)
SequenceTells ==
    /\ which = "relay" => Relay!SequenceTells
    /\ which = "stalled" => RelayStalled!SequenceTells

(* An app that is enabled is one the server accepts with the row's key and
   token: "Connect the app to enable it", whatever keys are tried, changed
   and given up on the way. *)
ActiveIsEnrolled == which = "apps" => Apps!ActiveIsEnrolled

(* The viewers of a shared chat or a channel end with the whole output. *)
ViewersEndFull == which = "events" => Emitted!ViewersEndFull

(* A worker that finds its cached signature in Redis answers from a copy that
   is the hash, whatever writes and clears overlapped its last fetch: the
   signature is dropped before the hash changes and none is used twice. *)
CacheIsHash ==
    /\ which = "models" => ModelHash!CacheIsHash
    /\ which = "models_cache" => RegistryCache!CacheIsHash

(* When everything sent has arrived and no save is pending, the note holds
   the document, and every client in it shows it. *)
Settles == which = "notes" => Documents!Settles

(* An edit the server stored is in the document or in the note: the pending
   save is dropped only "when a new one takes its place" (main.py), and a
   document is cleared only once its content is saved. *)
EditKept == which = "notes_alone" => NotesAlone!EditKept

(* The stored list is a forest in preorder with unique ids and main first, so
   that subtree_ids may read it in one pass: "Tabs are in preorder, so all
   ancestors precede their descendants". *)
WellOrdered == which = "pages" => PageForest!WellOrdered

(* The history stays a forest whatever turns, deletions and saves of old
   copies are mixed: the parent of a message is there, the repaired lists of
   children are the parent links read backwards, and every message is below a
   root. *)
Forest == which = "chat" => Chat!Forest

(* update_chat_by_id: a copy that a tab took while a reply was generated, and
   saves at any later time, takes back none of its text and does not make a
   finished reply unfinished. *)
ReplyKept == [][/\ (which = "chat" => Chat!ReplyKept) /\ (which = "chat_read" => ChatRead!ReplyKept)]_MCVars

(* The two stores agree on the text and the place of every message that both
   have, although the copy into the table is made from a history read
   earlier. *)
StoresAgree == which = "chat_read" => ChatRead!StoresAgree
=============================================================================
