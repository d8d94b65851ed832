---------------------------- MODULE NoteDocuments ----------------------------
(***************************************************************************)
(* Collaborative editing of a note's page: the documents that socket/      *)
(* main.py and YdocManager of socket/utils.py keep while clients edit, the *)
(* debounced save of a client's snapshot to the note, and the client of    *)
(* RichTextInput/Collaboration.ts.  A handler runs under the document's    *)
(* lock and is one step; messages between a client and the server keep     *)
(* their order.  A document is a set of items: an edit, or the seed a      *)
(* client makes of the saved content when it is the first to open the      *)
(* page.  A page that is replaced from outside has a new generation, and   *)
(* every generation has a document of its own.                             *)
(***************************************************************************)
EXTENDS Naturals, Sequences, FiniteSets, SequencesExt, FiniteSetsExt

CONSTANTS Clients, None,
          Saved,       \* the edits the note holds before anyone opens it
          MaxItems,    \* edits and seeds made
          MaxDrops,    \* lost connections
          MaxFlushes,  \* flushes, which a client makes before it leaves a tab
          MaxReplaced, \* replacements of the page's content
          MaxSize,     \* MAX_DOCUMENT_SIZE, in items
          Threshold    \* COMPACTION_THRESHOLD

DocumentBounds == Saved \subseteq Nat /\ Threshold > 1

Gens == 0..MaxReplaced
Sids == Clients \X (0..MaxDrops)

VARIABLES on,      \* of a client: "off", "joining", "in" or "dropped"
          gen,     \* the generation it opened
          doc,     \* its items
          timer,   \* contentSnapshotTimer is set
          up, down,\* messages on the way to and from the server
          conn,    \* which of its connections the client is on
          log,     \* of a generation's document: the stored updates
          size, users,
          pending, \* the debounced save: None or the content it will write
          db, dbGen,  \* the page's content and generation in the database
          open,    \* generations whose documents were not closed
          born,    \* the generation of each item made, in order
          drops, flushes,
          stored   \* edits of the current generation that the server stored or the note held

client == <<on, gen, doc, timer, conn>>
wire == <<up, down>>
server == <<log, size, users, pending, open>>
note == <<db, dbGen>>
count == <<born, drops, flushes, stored>>
vars == <<client, wire, server, note, count>>

Content(i) == UNION {x.has : x \in i}
Items(g) == UNION Range(log[g])
Seeds(i) == {x \in i : x.seed}
Sid(c) == <<c, conn[c]>>

Init ==
    /\ on = [c \in Clients |-> "off"]
    /\ gen = [c \in Clients |-> 0]
    /\ doc = [c \in Clients |-> {}]
    /\ timer = [c \in Clients |-> FALSE]
    /\ up = [c \in Clients |-> <<>>]
    /\ down = [c \in Clients |-> <<>>]
    /\ conn = [c \in Clients |-> 0]
    /\ log = [g \in Gens |-> <<>>]
    /\ size = [g \in Gens |-> 0]
    /\ users = [g \in Gens |-> {}]
    /\ pending = [g \in Gens |-> None]
    /\ db = Saved /\ dbGen = 0
    /\ open = {0}
    /\ born = <<>> /\ drops = 0 /\ flushes = 0
    /\ stored = Saved

-----------------------------------------------------------------------------
(* The client. *)

Msg(k, i, s) == [kind |-> k, items |-> i, snap |-> s]
Push(c, m) == up' = [up EXCEPT ![c] = Append(@, m)]

Open(c) ==
    /\ on[c] = "off" /\ up[c] = <<>>
    /\ on' = [on EXCEPT ![c] = "joining"]
    /\ gen' = [gen EXCEPT ![c] = dbGen]
    /\ doc' = [doc EXCEPT ![c] = {}]
    /\ timer' = [timer EXCEPT ![c] = FALSE]
    /\ Push(c, Msg("join", {}, {}))
    /\ UNCHANGED <<conn, down, server, note, count>>

(* A local edit of a synced client: the update with a snapshot of the content. *)
Edit(c) ==
    /\ on[c] = "in" /\ Len(born) < MaxItems
    /\ born' = Append(born, gen[c])
    /\ LET e == [n |-> Len(born) + 1, has |-> {Len(born) + 1}, seed |-> FALSE]
       IN  /\ doc' = [doc EXCEPT ![c] = @ \cup {e}]
           /\ Push(c, Msg("update", {e}, Content(doc[c] \cup {e})))
    /\ timer' = [timer EXCEPT ![c] = FALSE]
    /\ UNCHANGED <<on, gen, conn, down, server, note, drops, flushes, stored>>

(* Mutant: a snapshot is not sent for what other clients wrote. *)
SendContentSnapshotMutant(c) ==
    /\ on[c] = "in" /\ timer[c]
    /\ timer' = [timer EXCEPT ![c] = FALSE]
    /\ UNCHANGED <<on, gen, doc, conn, wire, server, note, count>>

(* sendContentSnapshot: half a second after an update of another client. *)
SendContentSnapshot(c) ==
    /\ on[c] = "in" /\ timer[c]
    /\ timer' = [timer EXCEPT ![c] = FALSE]
    /\ Push(c, Msg("snapshot", {}, Content(doc[c])))
    /\ UNCHANGED <<on, gen, doc, conn, down, server, note, count>>

Flush(c) ==
    /\ on[c] = "in" /\ flushes < MaxFlushes
    /\ flushes' = flushes + 1
    /\ timer' = [timer EXCEPT ![c] = FALSE]
    /\ Push(c, Msg("flush", {}, Content(doc[c])))
    /\ UNCHANGED <<on, gen, doc, conn, down, server, note, born, drops, stored>>

(* destroy: a snapshot that is due is sent before the client leaves. *)
Destroy(c) ==
    /\ on[c] \in {"joining", "in"}
    /\ on' = [on EXCEPT ![c] = "off"]
    /\ timer' = [timer EXCEPT ![c] = FALSE]
    /\ up' = [up EXCEPT ![c] = @ \o (IF timer[c] THEN <<Msg("snapshot", {}, Content(doc[c]))>> ELSE <<>>)
                                 \o <<Msg("leave", {}, {})>>]
    /\ down' = [down EXCEPT ![c] = <<>>]
    /\ UNCHANGED <<gen, doc, conn, server, note, count>>

(* The connection is lost with what is on its way; the client comes back with
   the items it has.  The server may notice only later: Disconnect. *)
Drop(c) ==
    /\ on[c] \in {"joining", "in"} /\ drops < MaxDrops
    /\ drops' = drops + 1
    /\ on' = [on EXCEPT ![c] = "dropped"]
    /\ up' = [up EXCEPT ![c] = <<>>]
    /\ down' = [down EXCEPT ![c] = <<>>]
    /\ conn' = [conn EXCEPT ![c] = @ + 1]
    /\ UNCHANGED <<gen, doc, timer, server, note, born, flushes, stored>>

Reconnect(c) ==
    /\ on[c] = "dropped"
    /\ on' = [on EXCEPT ![c] = "joining"]
    /\ Push(c, Msg("join", {}, {}))
    /\ UNCHANGED <<gen, doc, timer, conn, down, server, note, count>>

(* The page is gone from the editor, or loaded anew. *)
GiveUp(c) ==
    /\ on[c] = "dropped"
    /\ on' = [on EXCEPT ![c] = "off"]
    /\ UNCHANGED <<gen, doc, timer, conn, wire, server, note, count>>

(* What the client does with a message: an update, the document's state, or
   the answer to its seed. *)
Receive(c) ==
    /\ down[c] # <<>> /\ on[c] \in {"joining", "in"}
    /\ LET m == Head(down[c]) IN
        /\ down' = [down EXCEPT ![c] = Tail(@)]
        /\ CASE m.kind = "update" ->
                  /\ doc' = [doc EXCEPT ![c] = @ \cup m.items]
                  /\ timer' = [timer EXCEPT ![c] = TRUE]
                  /\ UNCHANGED <<up, on, born>>
             [] m.kind = "state" /\ m.items # {} ->
                  /\ doc' = [doc EXCEPT ![c] = @ \cup m.items]
                  /\ on' = [on EXCEPT ![c] = "in"]
                  /\ UNCHANGED <<up, timer, born>>
             [] m.kind = "state" /\ m.items = {} /\ doc[c] # {} ->
                  /\ Push(c, Msg("resync", doc[c], {}))
                  /\ on' = [on EXCEPT ![c] = "in"]
                  /\ UNCHANGED <<doc, timer, born>>
             [] m.kind = "state" /\ m.items = {} /\ doc[c] = {} /\ m.snap = {} ->
                  /\ on' = [on EXCEPT ![c] = "in"]
                  /\ UNCHANGED <<up, doc, timer, born>>
             [] m.kind = "state" /\ m.items = {} /\ doc[c] = {} /\ m.snap # {} ->
                  /\ Len(born) < MaxItems
                  /\ born' = Append(born, gen[c])
                  /\ Push(c, Msg("init", {[n |-> Len(born) + 1, has |-> m.snap, seed |-> TRUE]}, {}))
                  /\ UNCHANGED <<doc, on, timer>>
             [] m.kind = "seeded" ->
                  /\ doc' = [doc EXCEPT ![c] = @ \cup m.items]
                  /\ on' = [on EXCEPT ![c] = "in"]
                  /\ IF timer[c] THEN UNCHANGED up
                     ELSE Push(c, Msg("snapshot", {}, Content(doc[c] \cup m.items)))
                  /\ UNCHANGED <<timer, born>>
    /\ UNCHANGED <<gen, conn, server, note, drops, flushes, stored>>

-----------------------------------------------------------------------------
(* The server: one handler at a time on a document. *)

Tell(S, m) == [c \in Clients |-> IF c \in S THEN Append(down[c], m) ELSE down[c]]

(* The clients in the document's room that a message reaches. *)
Room(g) == {c \in Clients : Sid(c) \in users[g] /\ gen[c] = g /\ on[c] \in {"joining", "in"}}

(* YdocManager: rolling compaction squashes the oldest half into a snapshot. *)
Compact(l) ==
    IF Len(l) < Threshold THEN l
    ELSE LET mid == Len(l) \div 2
         IN  <<UNION {l[i] : i \in 1..mid}>> \o SubSeq(l, mid + 1, Len(l))

LogSize(l) == FoldSeq(LAMBDA u, n : n + Cardinality(u), 0, l)

(* Mutant: a refused update is counted. *)
AppendToUpdatesMutant(g, u) ==
    /\ size' = [size EXCEPT ![g] = @ + Cardinality(u)]
    /\ IF size[g] + Cardinality(u) > MaxSize THEN UNCHANGED log
       ELSE log' = [log EXCEPT ![g] = Append(@, u)]

(* append_to_updates: size is a counter beside the list, set again by the
   compaction. *)
AppendToUpdates(g, u) ==
    IF size[g] + Cardinality(u) > MaxSize
      THEN UNCHANGED <<log, size>>
      ELSE LET appended == Append(log[g], u)
           IN  /\ log' = [log EXCEPT ![g] = Compact(appended)]
               /\ size' = [size EXCEPT ![g] = IF Len(appended) < Threshold THEN @ + Cardinality(u)
                                              ELSE LogSize(Compact(appended))]

Take(c) == up' = [up EXCEPT ![c] = Tail(@)]
Clear(g) == /\ log' = [log EXCEPT ![g] = <<>>]
            /\ size' = [size EXCEPT ![g] = 0]
            /\ users' = [users EXCEPT ![g] = {}]

(* ydoc_document_join: a client that asks for an old generation is refused. *)
DocumentJoin(c) ==
    /\ up[c] # <<>> /\ Head(up[c]).kind = "join"
    /\ Take(c)
    /\ IF gen[c] = dbGen
         THEN /\ users' = [users EXCEPT ![gen[c]] = @ \cup {Sid(c)}]
              /\ open' = open \cup {gen[c]}
              /\ down' = IF on[c] = "joining" THEN Tell({c}, Msg("state", Items(gen[c]), db)) ELSE down
              /\ UNCHANGED on
         ELSE /\ on' = [on EXCEPT ![c] = "off"]
              /\ UNCHANGED <<users, open, down>>
    /\ UNCHANGED <<gen, doc, timer, conn, log, size, pending, note, count>>

(* The sender has joined the document, and document_page finds its page. *)
MayWrite(c) == Sid(c) \in users[gen[c]] /\ gen[c] = dbGen

(* yjs_document_update with an edit: it is stored, sent to the others, and its
   snapshot replaces the pending save.  The update of a client that comes back
   to an empty document has no snapshot. *)
DocumentUpdate(c) ==
    /\ up[c] # <<>> /\ Head(up[c]).kind \in {"update", "resync"}
    /\ Take(c)
    /\ LET m == Head(up[c])
           g == gen[c]
           fits == size[g] + Cardinality(m.items) <= MaxSize
       IN  IF ~MayWrite(c) THEN UNCHANGED <<log, size, down, pending, stored>>
           ELSE /\ AppendToUpdates(g, m.items)
                /\ down' = IF fits THEN Tell(Room(g) \ {c}, Msg("update", m.items, {})) ELSE down
                /\ stored' = IF fits THEN stored \cup Content(m.items) ELSE stored
                /\ pending' = IF m.kind = "resync" THEN pending ELSE [pending EXCEPT ![g] = m.snap]
    /\ UNCHANGED <<client, users, open, note, born, drops, flushes>>

(* Mutant: the seed is stored whatever the document holds. *)
DocumentInitializeMutant(c) ==
    /\ up[c] # <<>> /\ Head(up[c]).kind = "init"
    /\ Take(c)
    /\ IF MayWrite(c)
         THEN /\ AppendToUpdates(gen[c], Head(up[c]).items)
              /\ down' = [Tell(Room(gen[c]) \ {c}, Msg("update", Head(up[c]).items, {}))
                            EXCEPT ![c] = Append(@, Msg("seeded", Head(up[c]).items, {}))]
         ELSE UNCHANGED <<log, size, down>>
    /\ UNCHANGED <<client, users, pending, open, note, count>>

(* yjs_document_update with initialize: the first seed is stored and every
   other client gets what is stored. *)
DocumentInitialize(c) ==
    /\ up[c] # <<>> /\ Head(up[c]).kind = "init"
    /\ Take(c)
    /\ LET seed == Head(up[c]).items
           g == gen[c]
       IN  CASE ~MayWrite(c) -> UNCHANGED <<log, size, down>>
             [] MayWrite(c) /\ log[g] # <<>> ->
                  /\ down' = Tell(Room(g) \cap {c}, Msg("seeded", Items(g), {}))
                  /\ UNCHANGED <<log, size>>
             [] MayWrite(c) /\ log[g] = <<>> ->
                  /\ AppendToUpdates(g, seed)
                  /\ down' = [Tell(Room(g) \ {c}, Msg("update", seed, {}))
                                EXCEPT ![c] = IF on[c] = "joining" THEN Append(@, Msg("seeded", seed, {})) ELSE @]
    /\ UNCHANGED <<client, users, pending, open, note, count>>

(* yjs_document_update with only a snapshot, and with flush. *)
DocumentSnapshot(c) ==
    /\ up[c] # <<>> /\ Head(up[c]).kind \in {"snapshot", "flush"}
    /\ Take(c)
    /\ LET m == Head(up[c]) IN
        IF ~MayWrite(c) THEN UNCHANGED <<pending, db>>
        ELSE /\ pending' = [pending EXCEPT ![gen[c]] = IF m.kind = "flush" THEN None ELSE m.snap]
             /\ db' = IF m.kind = "flush" THEN m.snap ELSE db
    /\ UNCHANGED <<client, down, log, size, users, open, dbGen, count>>

(* Mutant: the last one out clears the document at once. *)
RemoveUserMutant(g, s) ==
    IF users[g] \ {s} = {}
      THEN Clear(g)
      ELSE /\ users' = [users EXCEPT ![g] = @ \ {s}]
           /\ UNCHANGED <<log, size>>

(* yjs_document_leave, and remove_user_from_all_documents: the last one out
   clears the document unless a save is pending. *)
RemoveUser(g, s) ==
    IF users[g] \ {s} = {} /\ pending[g] = None
      THEN Clear(g)
      ELSE /\ users' = [users EXCEPT ![g] = @ \ {s}]
           /\ UNCHANGED <<log, size>>

DocumentLeave(c) ==
    /\ up[c] # <<>> /\ Head(up[c]).kind = "leave"
    /\ Take(c)
    /\ RemoveUser(gen[c], Sid(c))
    /\ UNCHANGED <<client, down, pending, open, note, count>>

Disconnect(s) ==
    /\ s[2] < conn[s[1]]
    /\ \E g \in Gens :
        /\ s \in users[g]
        /\ RemoveUser(g, s)
    /\ UNCHANGED <<client, wire, pending, open, note, count>>

(* Mutant: the save does not look at the page's generation. *)
DebouncedSaveMutant(g) ==
    /\ pending[g] # None
    /\ db' = pending[g]
    /\ IF users[g] = {} THEN Clear(g) ELSE UNCHANGED <<log, size, users>>
    /\ pending' = [pending EXCEPT ![g] = None]
    /\ UNCHANGED <<client, wire, open, dbGen, count>>

(* debounced_save: the note takes the snapshot if the page still has the
   document's generation, and a document without users is cleared. *)
DebouncedSave(g) ==
    /\ pending[g] # None
    /\ IF g = dbGen
         THEN /\ db' = pending[g]
              /\ IF users[g] = {} THEN Clear(g) ELSE UNCHANGED <<log, size, users>>
         ELSE UNCHANGED <<db, log, size, users>>
    /\ pending' = [pending EXCEPT ![g] = None]
    /\ UNCHANGED <<client, wire, open, dbGen, count>>

(* Notes.update_note_by_id without a generation: the content is replaced. *)
ReplacePage ==
    /\ dbGen < MaxReplaced
    /\ db' = {}
    /\ dbGen' = dbGen + 1
    /\ stored' = {}
    /\ UNCHANGED <<client, wire, server, born, drops, flushes>>

(* close_changed_note_documents, which follows. *)
CloseDocument(g) ==
    /\ g \in open /\ g < dbGen
    /\ open' = open \ {g}
    /\ pending' = [pending EXCEPT ![g] = None]
    /\ Clear(g)
    /\ UNCHANGED <<client, wire, note, count>>

Next ==
    \/ \E c \in Clients :
        \/ Open(c) \/ Edit(c) \/ SendContentSnapshot(c) \/ Flush(c) \/ Destroy(c)
        \/ Drop(c) \/ Reconnect(c) \/ GiveUp(c) \/ Receive(c)
        \/ DocumentJoin(c) \/ DocumentUpdate(c) \/ DocumentInitialize(c)
        \/ DocumentSnapshot(c) \/ DocumentLeave(c)
    \/ \E s \in Sids : Disconnect(s)
    \/ \E g \in Gens : DebouncedSave(g) \/ CloseDocument(g)
    \/ ReplacePage

Spec == Init /\ [][Next]_vars

(* The clients stay: no one leaves or loses the connection. *)
NextStaying == Next /\ \A c \in Clients : on'[c] # "dropped" /\ (on[c] # "off" => on'[c] # "off")

-----------------------------------------------------------------------------
(* An edit the server stored is in the document or in the note: the pending
   save is dropped only "when a new one takes its place" (main.py), and a
   document is cleared only once its content is saved. *)
EditKept == \A e \in stored : e \in Content(Items(dbGen)) \cup db

(* When everything sent has arrived and no save is pending, the note holds the
   document, and every client in it shows it. *)
Settles ==
    (/\ \A c \in Clients : up[c] = <<>> /\ down[c] = <<>> /\ ~timer[c]
     /\ pending[dbGen] = None /\ Items(dbGen) # {})
    => /\ db = Content(Items(dbGen))
       /\ \A c \in Clients : (on[c] = "in" /\ gen[c] = dbGen /\ Sid(c) \in users[dbGen])
                                => doc[c] = Items(dbGen)

(* "The document lock makes initialization first-write-wins ... losing clients
   never apply their own seed" (main.py): no client shows the saved content
   twice. *)
OneSeed == \A c \in Clients : Cardinality(Seeds(doc[c])) <= 1

(* The counter beside the list is the list's size, so that the limit neither
   refuses a document that fits nor admits one that does not. *)
SizeTells == \A g \in Gens : size[g] = LogSize(log[g]) /\ size[g] <= MaxSize

(* The comment of update_page_content, "External replacements invalidate old
   documents": no content of an older generation is written over them. *)
ReplacedStays == \A e \in db : (IF e \in Saved THEN 0 ELSE born[e]) = dbGen
=============================================================================
