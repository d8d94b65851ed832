---------------------------- MODULE ChatHistory -----------------------------
(***************************************************************************)
(* The messages of one chat (models/chats.py, models/chat_messages.py),    *)
(* kept twice: as a forest in the JSON of the chat, and as rows of the     *)
(* chat_message table.  Turns, streamed replies, edits, deletions and      *)
(* whole-history saves of browser tabs change both in one transaction that *)
(* locks the chat; the read path copies what the table lacks in a          *)
(* transaction of its own, from a history read before.                     *)
(*                                                                         *)
(* A list of children is kept as a set: its order decides only which       *)
(* branch is shown.  The text of a message is the number of its writes.    *)
(***************************************************************************)
EXTENDS Naturals, FiniteSets

CONSTANTS Ids,         \* message ids, chosen by the clients
          Asked,       \* the first message
          Answer,      \* and the reply to it
          Tabs,        \* browser tabs of the chat's owner
          Readers,     \* requests that read the messages
          Guests,      \* users with write access besides the owner
          None,
          MaxVer,      \* bound on the writes of a message
          MaxOps       \* bound on the writes of the chat

ChatHistoryAssumption == Asked \in Ids /\ Answer \in Ids

VARIABLES msgs,        \* history.messages
          cur,         \* history.currentId
          rows,        \* chat_message
          running,     \* replies that are being generated
          snap,        \* the history a tab has
          fill,        \* messages a reader is about to copy into the table
          ops

vars == <<msgs, cur, rows, running, snap, fill, ops>>

Users == {"owner"} \cup Guests
Message == [parent : Ids \cup {None}, kids : SUBSET Ids, role : {"user", "assistant"},
            done : {"yes", "no", "unset"}, ver : 0..MaxVer, by : Users]

(* What the table has of a message: the children are not stored. *)
RowOf(m) == [parent |-> m.parent, role |-> m.role, ver |-> m.ver, by |-> m.by,
             done |-> IF m.done = "unset" THEN "yes" ELSE m.done]

(* upsert_message: a row that is there keeps its author, and what the      *)
(* message does not say.                                                   *)
RowAfter(row, m) ==
    [RowOf(m) EXCEPT !.by = row.by, !.done = IF m.done = "unset" THEN row.done ELSE @]

TypeOK ==
    /\ DOMAIN msgs \subseteq Ids /\ \A i \in DOMAIN msgs : msgs[i] \in Message
    /\ cur \in Ids \cup {None} /\ DOMAIN rows \subseteq Ids /\ running \subseteq Ids

-----------------------------------------------------------------------------
(* Operations on a forest H of messages. *)
Children(H, i) == {j \in DOMAIN H : H[j].parent = i}

(* _add_child_id_to_parent *)
AddChild(H, i) ==
    IF H[i].parent \in DOMAIN H THEN [H EXCEPT ![H[i].parent].kids = @ \cup {i}] ELSE H

(* The links part of _repair_chat_current_id. *)
Repair(H) == [i \in DOMAIN H |-> [H[i] EXCEPT !.kids = @ \cup Children(H, i)]]

(* _last_descendant_id: the end of a branch below i; which one depends on  *)
(* the order of the children.                                              *)
Below(H, i) ==
    LET linked(j) == {k \in H[j].kids \cap DOMAIN H : H[k].parent = j}
        next(S) == S \cup UNION {linked(j) : j \in S}
        all == next(next(next(next({i}))))
    IN  {j \in all : linked(j) = {}}

Leaves(H) == {i \in DOMAIN H : H[i].kids = {}}

(* _repair_chat_current_id: a current message is moved to the end of its   *)
(* branch, a missing one becomes the latest leaf.                          *)
RepairedCur(H, c) ==
    IF c \in DOMAIN H THEN Below(H, c) ELSE IF Leaves(H) = {} THEN {c} ELSE Leaves(H)

(* {**base, **more} *)
With(base, more) ==
    [i \in DOMAIN base \cup DOMAIN more |-> IF i \in DOMAIN more THEN more[i] ELSE base[i]]

(* merge_history *)
Merge(existing, incoming) ==
    LET all == With(existing, incoming)
    IN  [i \in DOMAIN all |-> [all[i] EXCEPT !.kids = Children(all, i)]]

MergedCur(H, existing, incoming) ==
    IF incoming \in DOMAIN H THEN incoming ELSE IF existing \in DOMAIN H THEN existing ELSE None

(* upsert_message_to_history: a message that is not there is put below the *)
(* message that lists it, if there is one.                                 *)
Found(H, i) ==
    LET p == {j \in DOMAIN H : i \in H[j].kids} IN IF p = {} THEN {None} ELSE p

New(parent, role, done, by) ==
    [parent |-> parent, kids |-> {}, role |-> role, done |-> done, ver |-> 0, by |-> by]

(* A message made of the text that is saved. *)
Again(parent, role, done) == [New(parent, role, done, "owner") EXCEPT !.ver = 1]

Put(H, i, m) == AddChild(With(H, [j \in {i} |-> m]), i)

Save(H, S) ==
    With(rows, [i \in S |-> IF i \in DOMAIN rows THEN RowAfter(rows[i], H[i]) ELSE RowOf(H[i])])

Count == ops < MaxOps /\ ops' = ops + 1

-----------------------------------------------------------------------------
(* A chat with a first turn; the copies in the table are written after the *)
(* commit, and a failure there is only logged (insert_new_chat).           *)
First(u, a) ==
    [i \in {u, a} |-> IF i = a THEN New(u, "assistant", "no", "owner")
                     ELSE [New(None, "user", "unset", "owner") EXCEPT !.kids = {a}]]

Init ==
    /\ msgs = First(Asked, Answer) /\ cur = Answer /\ running = {Answer}
    /\ \E S \in {{}, {Asked}, {Asked, Answer}} : rows = [i \in S |-> RowOf(msgs[i])]
    /\ snap = [t \in Tabs |-> None] /\ fill = [r \in Readers |-> None] /\ ops = 0

(* Ids are UUIDs: one is new, or stands for the message it was made for. *)
Fresh(i) ==
    /\ i \notin DOMAIN msgs \cup DOMAIN rows \cup running
    /\ \A t \in Tabs : snap[t] # None => i \notin DOMAIN snap[t].msgs
    /\ \A r \in Readers : fill[r] # None => i \notin DOMAIN fill[r]

Drafted(i, parent, role) ==
    \E t \in Tabs : /\ snap[t] # None /\ i \in DOMAIN snap[t].msgs
                    /\ snap[t].msgs[i].parent = parent /\ snap[t].msgs[i].role = role

(* insert_chat_turn: a new user message below p, or one that is there and  *)
(* is answered again, and an unfinished reply.                             *)
InsertTurn(by, u, p, a) ==
    /\ Count /\ u # a
    /\ IF a \in DOMAIN msgs
       THEN /\ msgs[a].role = "assistant" /\ msgs[a].done # "yes" /\ msgs[a].ver = 0
            /\ msgs[a].by = by /\ msgs[a].parent = u
       ELSE Fresh(a) \/ (by = "owner" /\ Drafted(a, u, "assistant"))
    /\ IF u \in DOMAIN msgs
       THEN msgs[u].role = "user" /\ p = msgs[u].parent
       ELSE Fresh(u) \/ (by = "owner" /\ Drafted(u, p, "user"))
    /\ p # None => p \in DOMAIN msgs
    /\ LET H == Put(msgs, u, IF u \in DOMAIN msgs THEN msgs[u] ELSE New(p, "user", "unset", by))
       IN  /\ msgs' = Put(H, a, New(u, "assistant", "no", by))
           /\ cur' = CASE a \notin DOMAIN msgs -> a [] u \notin DOMAIN msgs -> u [] OTHER -> cur
           /\ rows' = Save(msgs', {u, a})
    /\ running' = running \cup {a}
    /\ UNCHANGED <<snap, fill>>

(* upsert_message_to_chat_by_id_and_message_id, with the fields that are   *)
(* new; a message that is gone is created again.                           *)
Upsert(i, role, done) ==
    LET H == Repair(msgs) IN
    IF i \in DOMAIN H
    THEN /\ H[i].ver < MaxVer
         /\ msgs' = AddChild([H EXCEPT ![i].ver = @ + 1,
                                       ![i].done = IF done = "unset" THEN @ ELSE done], i)
         /\ cur' \in RepairedCur(H, cur)
         /\ rows' = Save(msgs', {i})
    ELSE \E p \in Found(H, i) :
         /\ msgs' = Put(H, i, Again(p, role, done))
         /\ cur' = i
         /\ rows' = Save(msgs', {i})

(* The reply is saved while it is generated, and when it ends. *)
Stream(i, end) ==
    /\ Count /\ i \in running /\ Upsert(i, "assistant", IF end THEN "yes" ELSE "unset")
    /\ running' = IF end THEN running \ {i} ELSE running
    /\ UNCHANGED <<snap, fill>>

(* update_chat_message_by_id: the owner rewrites a message that they see.  *)
EditContent(t, i) ==
    /\ Count /\ snap[t] # None /\ i \in DOMAIN snap[t].msgs
    /\ Upsert(i, IF \E j \in Found(Repair(msgs), i) : j # None /\ msgs[j].role = "assistant"
                 THEN "user" ELSE "assistant", "unset")
    /\ UNCHANGED <<running, snap, fill>>

(* add_message_status_... and add_message_files_...: another field of a    *)
(* message that is there; only the first repairs the links.                *)
Annotate(i, repair) ==
    /\ Count /\ i \in running
    /\ msgs' = IF repair THEN Repair(msgs) ELSE msgs
    /\ IF repair THEN cur' \in RepairedCur(msgs', cur) ELSE cur' = cur
    /\ rows' = IF i \in DOMAIN msgs THEN Save(msgs', {i}) ELSE rows
    /\ UNCHANGED <<running, snap, fill>>

(* edit_message_output, for the tool calls of a reply: what the table has  *)
(* of a message goes before what the history has of it.                    *)
EditOutput(i) ==
    /\ Count /\ i \in running \cap (DOMAIN msgs \cup DOMAIN rows)
    /\ LET kids == IF i \in DOMAIN msgs THEN msgs[i].kids ELSE {}
           old == IF i \in DOMAIN rows
                  THEN [parent |-> IF rows[i].parent = None /\ i \in DOMAIN msgs
                                     THEN msgs[i].parent ELSE rows[i].parent,
                        kids |-> kids, role |-> rows[i].role, done |-> rows[i].done,
                        ver |-> rows[i].ver, by |-> rows[i].by]
                  ELSE msgs[i]
       IN  /\ old.role = "assistant" /\ old.ver < MaxVer
           /\ msgs' = With(msgs, [j \in {i} |-> [old EXCEPT !.ver = @ + 1]])
           /\ rows' = Save(msgs', {i})
    /\ UNCHANGED <<cur, running, snap, fill>>

(* delete_message_from_history: the message and its children go, their     *)
(* children move up.                                                       *)
Deleted(H, i) == {i} \cup (H[i].kids \cap DOMAIN H)
MovedUp(H, i) == UNION {H[k].kids : k \in H[i].kids \cap DOMAIN H} \cap DOMAIN H

(* Mutant: the grandchildren keep the parent that is deleted. *)
WithoutMutant(H, i) == [j \in DOMAIN H \ Deleted(H, i) |-> H[j]]

Without(H, i) ==
    LET p == H[i].parent IN
    [j \in DOMAIN H \ Deleted(H, i) |->
        [H[j] EXCEPT !.kids = IF j = p THEN (@ \ {i}) \cup MovedUp(H, i) ELSE @,
                     !.parent = IF j \in MovedUp(H, i) THEN p ELSE @]]

(* Mutant: the parent is shown, also when the first message was deleted. *)
CurAfterMutant(H, p) == {p}

CurAfter(H, p) ==
    LET tops == IF p = None THEN Children(H, None) ELSE {p} \cap DOMAIN H
    IN  IF tops = {} THEN {None} ELSE UNION {Below(H, j) : j \in tops}

(* delete_message_from_chat_by_id_and_message_id: the rows of everything   *)
(* that now has the same parent are written again.                         *)
DeleteMessage(i) ==
    /\ Count
    /\ LET H == Repair(msgs) IN
       IF i \notin DOMAIN H
       THEN msgs' = H /\ cur' \in RepairedCur(H, cur) /\ rows' = rows
       ELSE LET G == Without(H, i) IN
            /\ msgs' = G
            /\ cur' \in CurAfter(G, H[i].parent)
            /\ LET R == Save(G, Children(G, H[i].parent))
               IN  rows' = [j \in DOMAIN R \ Deleted(H, i) |-> R[j]]
    /\ UNCHANGED <<running, snap, fill>>

-----------------------------------------------------------------------------
(* A tab loads the chat (get_chat_by_id repairs what it returns), *)
Load(t) ==
    /\ LET H == Repair(msgs) IN
       \E c \in RepairedCur(H, cur) : snap' = [snap EXCEPT ![t] = [msgs |-> H, cur |-> c]]
    /\ UNCHANGED <<msgs, cur, rows, running, fill, ops>>

(* prepares a turn in its own copy, *)
Draft(t, u, p, a) ==
    /\ snap[t] # None /\ u # a /\ Fresh(u) /\ Fresh(a)
    /\ p \in DOMAIN snap[t].msgs /\ snap[t].msgs[p].role = "assistant"
    /\ LET H == Put(Put(snap[t].msgs, u, New(p, "user", "unset", "owner")),
                    a, New(u, "assistant", "no", "owner"))
       IN  snap' = [snap EXCEPT ![t] = [msgs |-> H, cur |-> a]]
    /\ UNCHANGED <<msgs, cur, rows, running, fill, ops>>

(* Mutant: only the stored state of a reply is looked at. *)
StaleMutant(stored, H, i) ==
    stored[i].by # "owner" \/ (stored[i].role = "assistant" /\ stored[i].done = "no")

(* What update_chat_by_id keeps as it is stored: messages of others, and   *)
(* replies that are unfinished, here or in the copy that is saved.         *)
Stale(stored, H, i) ==
    \/ stored[i].by # "owner"
    \/ stored[i].role = "assistant" /\ "no" \in {stored[i].done, H[i].done}

(* and saves its copy as a whole, with the branch it shows                 *)
(* (update_chat_by_id; set_message_authors makes every message its own).   *)
SaveHistory(t, c) ==
    /\ Count /\ snap[t] # None /\ c \in DOMAIN snap[t].msgs
    /\ LET inc == [i \in DOMAIN snap[t].msgs |-> [snap[t].msgs[i] EXCEPT !.by = "owner"]]
           H == Merge(msgs, inc)
           K == With(H, [i \in {j \in DOMAIN msgs : Stale(msgs, H, j)} |-> msgs[i]])
       IN  /\ msgs' = Merge(K, <<>>)
           /\ cur' = MergedCur(K, cur, c)
           /\ rows' = Save(msgs', {i \in DOMAIN inc : i \in DOMAIN msgs => msgs'[i] # msgs[i]})
    /\ snap' = [snap EXCEPT ![t].cur = c]
    /\ UNCHANGED <<running, fill>>

-----------------------------------------------------------------------------
(* get_messages_map_by_chat_id: what the table lacks is read from the      *)
(* history, all of it or the parents that are missing,                     *)
Missing ==
    IF DOMAIN rows = {} THEN DOMAIN msgs
    ELSE {rows[i].parent : i \in DOMAIN rows} \cap (DOMAIN msgs \ DOMAIN rows)

ReadMap(r) ==
    /\ fill[r] = None /\ Missing # {}
    /\ fill' = [fill EXCEPT ![r] = [i \in Missing |-> RowOf(msgs[i])]]
    /\ UNCHANGED <<msgs, cur, rows, running, snap, ops>>

(* Mutant: the copies replace rows written meanwhile. *)
BackfillMutant(r) ==
    /\ fill[r] # None
    /\ rows' = With(rows, fill[r]) /\ fill' = [fill EXCEPT ![r] = None]
    /\ UNCHANGED <<msgs, cur, running, snap, ops>>

(* and inserted where there is still no row (upsert_messages). *)
Backfill(r) ==
    /\ fill[r] # None
    /\ rows' = With(fill[r], rows) /\ fill' = [fill EXCEPT ![r] = None]
    /\ UNCHANGED <<msgs, cur, running, snap, ops>>

Next ==
    \/ \E by \in Users, u, a \in Ids, p \in Ids \cup {None} : InsertTurn(by, u, p, a)
    \/ \E i \in Ids, end \in BOOLEAN : Stream(i, end) \/ Annotate(i, end)
    \/ \E i \in Ids : EditOutput(i) \/ DeleteMessage(i)
    \/ \E t \in Tabs, i \in Ids : EditContent(t, i) \/ SaveHistory(t, i)
    \/ \E t \in Tabs, u, p, a \in Ids : Draft(t, u, p, a)
    \/ \E t \in Tabs : Load(t)
    \/ \E r \in Readers : ReadMap(r) \/ Backfill(r)

Spec == Init /\ [][Next]_vars

-----------------------------------------------------------------------------
(* The history stays a forest whatever turns, deletions and saves of old   *)
(* copies are mixed: the parent of a message is there, the repaired lists  *)
(* of children are the parent links read backwards, and every message is   *)
(* below a root.                                                           *)
Forest ==
    LET H == Repair(msgs)
        up(S) == S \cup {H[i].parent : i \in S \ {None}}
    IN  /\ \A i \in DOMAIN H : H[i].parent \in DOMAIN H \cup {None}
        /\ \A i \in DOMAIN H : H[i].kids = Children(H, i)
        /\ \A i \in DOMAIN H : None \in up(up(up(up(up({i})))))

(* A chat that has messages shows one of them. *)
CurrentExists == IF DOMAIN msgs = {} THEN cur = None ELSE cur \in DOMAIN msgs

(* The two stores agree on the text and the place of every message that    *)
(* both have, although the copy into the table is made from a history read *)
(* earlier.                                                                *)
StoresAgree ==
    \A i \in DOMAIN msgs \cap DOMAIN rows, f \in {"parent", "role", "ver"} :
        rows[i][f] = msgs[i][f]

(* update_chat_by_id: a copy that a tab took while a reply was generated,  *)
(* and saves at any later time, takes back none of its text and does not   *)
(* make a finished reply unfinished.                                       *)
ReplyKept ==
    \A i \in DOMAIN msgs \cap DOMAIN msgs' :
        msgs[i].role = "assistant" =>
            /\ msgs[i].done = "no" => msgs'[i].ver >= msgs[i].ver
            /\ msgs[i].done = "yes" => msgs'[i].done # "no"
=============================================================================
