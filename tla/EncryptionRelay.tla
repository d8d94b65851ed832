--------------------------- MODULE EncryptionRelay ---------------------------
(***************************************************************************)
(* socket/encryption.py: the relay of private sessions.  The metadata of a *)
(* channel's session is kept in Redis and changed in transactions under a  *)
(* lock that runs out; every write is fenced by the lock's token.  What a  *)
(* transaction does is the sequence of its writes, each followed by the    *)
(* events it emits.  Two workers serve the sockets, and each knows only    *)
(* which channel its own sockets are in.                                   *)
(***************************************************************************)
EXTENDS Naturals, Sequences, FiniteSets, SequencesExt, TLC

CONSTANTS Users,        \* one socket each
          Near,         \* the users whose sockets are on worker "w1"
          Channels, None,
          MaxActions,   \* requests of users
          MaxLapses,    \* locks that run out under a worker that stalls
          MaxSweeps,
          MaxPings,     \* users who miss their pings for 45 seconds
          MaxChanges    \* changes of a channel's members

VARIABLES reg,       \* reg[c]: None or [id, host, mem]
          lock,      \* lock[c]: the worker that holds it
          txn,       \* txn[w]: None or [c, steps]
          local,     \* local[u]: the channel its worker has u in
          online, late, active,
          sent,      \* events: [id, pid, seq] of deliveries
          reused,    \* a participation got one sequence number twice
          ended,     \* sessions whose end has been written
          afterEnd,  \* a packet was sent in a session that had ended
          ids, actions, lapses, sweeps, pings, changes

store == <<reg, lock>>
people == <<online, late, active>>
log == <<sent, reused, ended, afterEnd>>
counters == <<actions, lapses, sweeps, pings, changes>>
vars == <<store, txn, local, people, log, ids, counters>>

Workers == {"w1", "w2"}
WorkerOf(u) == IF u \in Near THEN "w1" ELSE "w2"
Locals(w) == {u \in Users : WorkerOf(u) = w}

Init ==
    /\ reg = [c \in Channels |-> None] /\ lock = [c \in Channels |-> None]
    /\ txn = [w \in Workers |-> None]
    /\ local = [u \in Users |-> None]
    /\ online = Users /\ late = {} /\ active = [c \in Channels |-> Users]
    /\ sent = {} /\ reused = FALSE /\ ended = {} /\ afterEnd = FALSE
    /\ ids = 0 /\ actions = 0 /\ lapses = 0 /\ sweeps = 0 /\ pings = 0 /\ changes = 0

-----------------------------------------------------------------------------
(* A step of a transaction: the metadata it writes, the deliveries it emits
   afterwards, and the sockets it takes from or adds to the local map. *)
WStep(st, out, drop) == [st |-> st, out |-> out, drop |-> drop, add |-> {}]

Admitted(st) == {u \in DOMAIN st.mem : st.mem[u].adm}

(* Mutant: the sequence of a recipient is counted in its session's state only
   after the events are sent. *)
DeliverMutant(st, rec, drop) ==
    WStep(st, {[id |-> st.id, pid |-> st.mem[u].pid, seq |-> st.mem[u].out + 1] : u \in rec}, drop)

Deliver(st, rec, drop) ==
    LET new == [st EXCEPT !.mem = [u \in DOMAIN st.mem |->
                  IF u \in rec THEN [st.mem[u] EXCEPT !.out = @ + 1] ELSE st.mem[u]]]
    IN  WStep(new, {[id |-> st.id, pid |-> new.mem[u].pid, seq |-> new.mem[u].out] : u \in rec}, drop)

Close(st) == <<WStep(None, {}, DOMAIN st.mem)>>

(* Mutant: when the host leaves, whoever is left becomes the host. *)
RemoveMembersMutant(st, gone) ==
    LET left == DOMAIN st.mem \ gone
        host == IF st.host \in left THEN st.host ELSE CHOOSE u \in left : TRUE
    IN  IF gone = {} THEN <<>>
        ELSE IF left = {} THEN Close(st)
        ELSE <<WStep([st EXCEPT !.mem = [u \in left |-> st.mem[u]], !.host = host], {}, gone)>>

(* remove: all who go are out of the members before the others hear of any. *)
RemoveMembers(st, gone) ==
    IF gone = {} THEN <<>>
    ELSE IF st.host \in gone THEN Close(st)
    ELSE LET rest == [st EXCEPT !.mem = [u \in DOMAIN st.mem \ gone |-> st.mem[u]]]
             Departed(steps, u) ==
               LET s == IF steps = <<>> THEN rest ELSE Last(steps).st
               IN  Append(steps, Deliver(s, Admitted(s), {u}))
         IN  FoldLeft(Departed, <<>>, SetToSeq(gone))

Prune(c) ==
    LET st == reg[c]
    IN  IF st = None THEN <<>>
        ELSE RemoveMembers(st, {u \in DOMAIN st.mem : u \in late \/ u \notin active[c]})

After(c, steps) == IF steps = <<>> THEN reg[c] ELSE Last(steps).st

Member(pid, adm) == [pid |-> pid, key |-> FALSE, adm |-> adm, out |-> 0]
InSession(st, u) == IF st = None THEN FALSE ELSE u \in DOMAIN st.mem

(* reserve: "Another worker may have closed the session; its metadata is
   authoritative". *)
MayReserve(u, c, st) == local[u] = None \/ (local[u] = c /\ ~InSession(st, u))

Reserve(u, c, st, act) ==
    LET new == IF act = "start" THEN [id |-> ids, host |-> u, mem |-> (u :> Member(ids, TRUE))]
               ELSE [st EXCEPT !.mem = @ @@ (u :> Member(ids, FALSE))]
    IN  <<[WStep(new, {}, {}) EXCEPT !.add = {u}]>>

Bind(u, st) ==
    LET new == [st EXCEPT !.mem[u].key = TRUE]
    IN  IF u = st.host THEN <<WStep(new, {}, {})>> ELSE <<Deliver(new, {st.host}, {})>>

(* forward: the host admits a candidate, or a member sends to the others. *)
Admit(u, st, v) ==
    LET first == Deliver([st EXCEPT !.mem[v].adm = TRUE], Admitted(st) \ {u}, {})
    IN  <<first, Deliver(first.st, {v}, {})>>
Packet(u, st) == <<Deliver(st, Admitted(st) \ {u}, {})>>

(* What the rest of a request does to the pruned state; empty when refused. *)
Request(act, u, c, v, st) ==
    CASE act = "start" -> IF st = None /\ MayReserve(u, c, st) THEN Reserve(u, c, st, act) ELSE <<>>
      [] act = "join" -> IF st = None THEN <<>>
                         ELSE IF u \notin DOMAIN st.mem /\ MayReserve(u, c, st) /\ st.mem[st.host].key
                           THEN Reserve(u, c, st, act) ELSE <<>>
      [] OTHER -> IF ~InSession(st, u) \/ local[u] # c THEN <<>>
                  ELSE CASE act = "leave" -> RemoveMembers(st, {u})
                         [] act = "bind" -> IF st.mem[u].key THEN <<>> ELSE Bind(u, st)
                         [] act = "packet" -> IF st.mem[u].key /\ st.mem[u].adm THEN Packet(u, st) ELSE <<>>
                         [] act = "admit" -> IF u = st.host /\ InSession(st, v)
                                               THEN IF st.mem[v].key /\ ~st.mem[v].adm THEN Admit(u, st, v) ELSE <<>>
                                               ELSE <<>>
                         [] OTHER -> <<WStep(st, {}, {})>>

-----------------------------------------------------------------------------
Begin(w, c, steps) ==
    /\ txn' = [txn EXCEPT ![w] = [c |-> c, steps |-> steps, emit |-> {}]]
    /\ lock' = [lock EXCEPT ![c] = w]
    /\ UNCHANGED <<reg, local, log>>

(* Mutant: a transaction does not wait for the lock. *)
ReadyMutant(w, c) == txn[w] = None

Ready(w, c) == txn[w] = None /\ lock[c] = None

Handle(u, c, act, v) ==
    /\ u \in online /\ actions < MaxActions /\ u \in active[c]
    /\ Ready(WorkerOf(u), c)
    /\ LET pruned == Prune(c)
           rest == IF u \in active[c] THEN Request(act, u, c, v, After(c, pruned)) ELSE <<>>
       IN  /\ pruned \o rest # <<>>
           /\ Begin(WorkerOf(u), c, pruned \o rest)
           /\ late' = IF rest # <<>> THEN late \ {u} ELSE late
    /\ actions' = actions + 1 /\ ids' = ids + 1
    /\ UNCHANGED <<online, active, lapses, sweeps, pings, changes>>

Disconnect(u) ==
    /\ u \in online /\ local[u] # None /\ Ready(WorkerOf(u), local[u])
    /\ online' = online \ {u}
    /\ local' = [local EXCEPT ![u] = None]
    /\ LET c == local[u]
           steps == IF InSession(reg[c], u) THEN RemoveMembers(reg[c], {u}) ELSE <<>>
       IN  IF steps = <<>> THEN UNCHANGED <<txn, lock>>
           ELSE /\ txn' = [txn EXCEPT ![WorkerOf(u)] = [c |-> c, steps |-> steps, emit |-> {}]]
                /\ lock' = [lock EXCEPT ![c] = WorkerOf(u)]
    /\ UNCHANGED <<reg, late, active, log, ids, counters>>

(* A change of the members ends the session: invalidate. *)
Invalidate(w, c, u) ==
    /\ changes < MaxChanges /\ u \in active[c] /\ Ready(w, c)
    /\ changes' = changes + 1
    /\ active' = [active EXCEPT ![c] = @ \ {u}]
    /\ Begin(w, c, IF reg[c] = None THEN <<WStep(None, {}, {})>> ELSE Close(reg[c]))
    /\ UNCHANGED <<online, late, ids, actions, lapses, sweeps, pings>>

SweepChannel(w, c) ==
    /\ sweeps < MaxSweeps /\ Ready(w, c) /\ \E u \in Locals(w) : local[u] = c
    /\ sweeps' = sweeps + 1
    /\ IF reg[c] = None
         THEN /\ local' = [u \in Users |-> IF u \in Locals(w) /\ local[u] = c THEN None ELSE local[u]]
              /\ UNCHANGED <<txn, lock, reg, log>>
         ELSE /\ Prune(c) # <<>>
              /\ Begin(w, c, Prune(c))
    /\ UNCHANGED <<people, ids, actions, lapses, pings, changes>>

(* Mutant: a write that does not check the token. *)
SaveMutant(w) ==
    /\ txn[w] # None /\ txn[w].steps # <<>> /\ txn[w].emit = {}
    /\ LET c == txn[w].c
           s == Head(txn[w].steps)
       IN  /\ reg' = [reg EXCEPT ![c] = s.st]
           /\ ended' = ended \cup (IF s.st = None /\ reg[c] # None THEN {reg[c].id} ELSE {})
           /\ local' = [u \in Users |-> IF u \notin Locals(w) THEN local[u]
                                        ELSE IF u \in s.add THEN c
                                        ELSE IF u \in s.drop /\ local[u] = c THEN None ELSE local[u]]
           /\ txn' = [txn EXCEPT ![w].steps = Tail(@), ![w].emit = s.out]
    /\ UNCHANGED <<lock, people, sent, reused, afterEnd, ids, counters>>

(* save: the write happens only while the lock is still the worker's; if not,
   the request fails and the worker ends the session for its own sockets. *)
Save(w) ==
    /\ txn[w] # None /\ txn[w].steps # <<>> /\ txn[w].emit = {}
    /\ LET c == txn[w].c
           s == Head(txn[w].steps)
       IN  IF lock[c] = w
             THEN /\ reg' = [reg EXCEPT ![c] = s.st]
                  /\ ended' = ended \cup (IF s.st = None /\ reg[c] # None THEN {reg[c].id} ELSE {})
                  /\ local' = [u \in Users |-> IF u \notin Locals(w) THEN local[u]
                                               ELSE IF u \in s.add THEN c
                                               ELSE IF u \in s.drop /\ local[u] = c THEN None ELSE local[u]]
                  /\ txn' = [txn EXCEPT ![w].steps = Tail(@), ![w].emit = s.out]
             ELSE /\ local' = [u \in Users |-> IF u \in Locals(w) /\ local[u] = c THEN None ELSE local[u]]
                  /\ txn' = [txn EXCEPT ![w] = None]
                  /\ UNCHANGED <<reg, ended>>
    /\ UNCHANGED <<lock, people, sent, reused, afterEnd, ids, counters>>

Emit(w) ==
    /\ txn[w] # None /\ txn[w].emit # {}
    /\ \E m \in txn[w].emit :
         /\ txn' = [txn EXCEPT ![w].emit = @ \ {m}]
         /\ reused' = (reused \/ m \in sent)
         /\ afterEnd' = (afterEnd \/ m.id \in ended)
         /\ sent' = sent \cup {m}
    /\ UNCHANGED <<store, local, people, ended, ids, counters>>

Finish(w) ==
    /\ txn[w] # None /\ txn[w].steps = <<>> /\ txn[w].emit = {}
    /\ lock' = [lock EXCEPT ![txn[w].c] = IF @ = w THEN None ELSE @]
    /\ txn' = [txn EXCEPT ![w] = None]
    /\ UNCHANGED <<reg, local, people, log, ids, counters>>

(* The lock of a transaction that takes more than ten seconds runs out. *)
Lapse(c) ==
    /\ lock[c] # None /\ lapses < MaxLapses
    /\ lapses' = lapses + 1
    /\ lock' = [lock EXCEPT ![c] = None]
    /\ UNCHANGED <<reg, txn, local, people, log, ids, actions, sweeps, pings, changes>>

MissPings(u) ==
    /\ pings < MaxPings /\ u \notin late
    /\ pings' = pings + 1
    /\ late' = late \cup {u}
    /\ UNCHANGED <<store, txn, local, online, active, log, ids, actions, lapses, sweeps, changes>>

Requests == {"start", "join", "bind", "packet", "admit", "leave", "ping"}

Next ==
    \/ \E u, v \in Users, c \in Channels, act \in Requests :
         (act # "admit" => v = u) /\ Handle(u, c, act, v)
    \/ \E u \in Users : Disconnect(u) \/ MissPings(u)
    \/ \E w \in Workers, c \in Channels, u \in Users : Invalidate(w, c, u)
    \/ \E w \in Workers, c \in Channels : SweepChannel(w, c)
    \/ \E w \in Workers : Save(w) \/ Emit(w) \/ Finish(w)
    \/ \E c \in Channels : Lapse(c)

Spec == Init /\ [][Next]_vars

-----------------------------------------------------------------------------
(* "Per-recipient sequence detects missing Pub/Sub deliveries": a participation
   never gets one number for two events, also when a worker stalls past its
   lock ("A stalled worker must never overwrite a newer owner's metadata"). *)
SequenceTells == ~reused

(* The host of a session is an admitted member of it, and only who has bound a
   key is admitted by it. *)
HostAdmitted ==
    \A c \in Channels : IF reg[c] = None THEN TRUE
        ELSE /\ reg[c].host \in Admitted(reg[c])
             /\ \A u \in Admitted(reg[c]) \ {reg[c].host} : reg[c].mem[u].key

(* "Channel access mutations end the session before any further private
   sends": checked where no lock runs out. *)
NoSendAfterEnd == ~afterEnd
=============================================================================
