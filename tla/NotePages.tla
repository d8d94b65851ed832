------------------------------ MODULE NotePages ------------------------------
(***************************************************************************)
(* The pages of a note (models/notes.py): a forest stored as a list with   *)
(* every subtree together, parent first.  Page operations carry the        *)
(* revision of the structure they were made for, edits of a page may carry *)
(* its revision; each is applied to the note as read and written back only *)
(* if the note is still the one that was read, in up to MaxTries tries.    *)
(***************************************************************************)
EXTENDS Naturals, Sequences, SequencesExt, FiniteSets

CONSTANTS Writers,
          MaxPages,   \* page ids: 0 is main, new pages get 1, 2, ...
          MaxOps,     \* requests
          MaxTries,   \* tries of a request to write the note
          None

VARIABLES pages,    \* the stored list of [id, parent, rev, gen]
          revision, \* pages_revision
          updated,  \* updated_at
          gone,     \* the note has been deleted
          req,      \* req[w]: the request of a writer
          last,     \* id of the newest page
          edits,    \* edits[p]: edits of page p that were answered with success
          ops

vars == <<pages, revision, updated, gone, req, last, edits, ops>>

Ids == 0..MaxPages
Page(i, p) == [id |-> i, parent |-> p, rev |-> 0, gen |-> 0]
IdsOf(ps) == {ps[i].id : i \in DOMAIN ps}
Get(ps, i) == ps[CHOOSE k \in DOMAIN ps : ps[k].id = i]
Children(ps, p) == SelectSeq(ps, LAMBDA x : x.parent = p)

RECURSIVE Preorder(_, _)
Preorder(ps, roots) ==
    IF roots = <<>> THEN <<>>
    ELSE <<Head(roots)>> \o Preorder(ps, Children(ps, Head(roots).id)) \o Preorder(ps, Tail(roots))

(* Mutant: the list is taken as it is. *)
OrderPagesMutant(ps) == ps

(* Siblings keep their order; main is the first of the roots. *)
OrderPages(ps) ==
    LET roots == Children(ps, None)
        isMain(x) == x.id = 0
        notMain(x) == x.id # 0
    IN  Preorder(ps, SelectSeq(roots, isMain) \o SelectSeq(roots, notMain))

(* Mutant: only the children of the page, not what is below them. *)
SubtreeIdsMutant(ps, i) == {i} \cup {p.id : p \in {q \in ToSet(ps) : q.parent = i}}

(* One pass over the list: "all ancestors precede their descendants". *)
SubtreeIds(ps, i) ==
    FoldLeft(LAMBDA acc, p : IF p.parent \in acc THEN acc \cup {p.id} ELSE acc, {i}, ps)

NoReq == [op |-> "none", page |-> None, parent |-> None, before |-> None, new |-> None,
          order |-> <<>>, rev |-> None, tries |-> 0, at |-> "idle", read |-> None]

Init ==
    /\ pages = <<Page(0, None)>> /\ revision = 0 /\ updated = 0 /\ gone = FALSE
    /\ req = [w \in Writers |-> NoReq]
    /\ last = 0 /\ edits = [i \in Ids |-> 0] /\ ops = 0

-----------------------------------------------------------------------------
(* apply_page_operation.  The result is the new list, or None for a refusal. *)

Create(ps, r) ==
    IF r.parent # None /\ r.parent \notin IdsOf(ps) THEN None
    ELSE Append(ps, Page(r.new, r.parent))

Reorder(ps, r) ==
    IF Len(r.order) # Len(ps) \/ ToSet(r.order) # IdsOf(ps) THEN None
    ELSE IF r.order[1] # 0 THEN None
    ELSE [k \in DOMAIN r.order |-> Get(ps, r.order[k])]

(* Mutant: the anchor may be anywhere. *)
IsAnchorMutant(ps, r, rest) == r.before \in IdsOf(rest)

(* before_id: a page outside the branch that the moved page will be next to. *)
IsAnchor(ps, r, rest) == r.before \in IdsOf(rest) /\ Get(ps, r.before).parent = r.parent

Move(ps, r) ==
    LET branch == SubtreeIds(ps, r.page)
        inBranch(p) == p.id \in branch
        rest == SelectSeq(ps, LAMBDA p : ~inBranch(p))
        pos == IF r.before = None THEN Len(rest) + 1
               ELSE IF IsAnchor(ps, r, rest)
                 THEN CHOOSE k \in DOMAIN rest : rest[k].id = r.before
               ELSE 0
        moved == [k \in DOMAIN SelectSeq(ps, inBranch) |->
                    LET p == SelectSeq(ps, inBranch)[k]
                    IN  IF p.id = r.page THEN [p EXCEPT !.parent = r.parent] ELSE p]
    IN  IF r.page = 0 \/ r.before = 0 \/ r.parent \in branch THEN None
        ELSE IF r.parent # None /\ r.parent \notin IdsOf(ps) THEN None
        ELSE IF pos = 0 THEN None
        ELSE SubSeq(rest, 1, pos - 1) \o moved \o SubSeq(rest, pos, Len(rest))

(* Mutant: the children go with the page. *)
DeletePageMutant(ps, r) ==
    IF r.page = 0 THEN None ELSE SelectSeq(ps, LAMBDA p : p.id \notin SubtreeIds(ps, r.page))

(* The children of a deleted page move up to its parent. *)
DeletePage(ps, r) ==
    IF r.page = 0 THEN None
    ELSE LET up == [k \in DOMAIN ps |-> IF ps[k].parent = r.page
                                          THEN [ps[k] EXCEPT !.parent = Get(ps, r.page).parent] ELSE ps[k]]
         IN  SelectSeq(up, LAMBDA p : p.id # r.page)

(* A copy of the whole branch, behind it; its pages start over. *)
Duplicate(ps, r) ==
    LET branch == SelectSeq(ps, LAMBDA p : p.id \in SubtreeIds(ps, r.page))
        newId(i) == r.new + (CHOOSE k \in DOMAIN branch : branch[k].id = i) - 1
        copies == [k \in DOMAIN branch |->
                     Page(newId(branch[k].id),
                          IF branch[k].parent \in IdsOf(branch) THEN newId(branch[k].parent) ELSE branch[k].parent)]
        end == CHOOSE k \in DOMAIN ps : ps[k] = branch[Len(branch)]
    IN  SubSeq(ps, 1, end) \o copies \o SubSeq(ps, end + 1, Len(ps))

Apply(ps, r) ==
    CASE r.op = "create" -> Create(ps, r)
      [] r.op = "reorder" -> Reorder(ps, r)
      [] r.page \notin IdsOf(ps) -> None
      [] r.op = "rename" -> ps
      [] r.op = "move" -> Move(ps, r)
      [] r.op = "delete" -> DeletePage(ps, r)
      [] OTHER -> Duplicate(ps, r)

(* update_page_content: an edit from outside the collaboration replaces the
   page's document; with a revision it must be the page's. *)
EditPage(ps, r) ==
    IF r.page \notin IdsOf(ps) THEN None
    ELSE IF r.rev # None /\ r.rev # Get(ps, r.page).rev THEN None
    ELSE [k \in DOMAIN ps |-> IF ps[k].id = r.page THEN [ps[k] EXCEPT !.rev = @ + 1, !.gen = @ + 1] ELSE ps[k]]

-----------------------------------------------------------------------------
(* Requests: made for the pages and the revision the client has.  A client
   that has no answer creates the page again, under the same id. *)
Branch(r) == IF r.op = "duplicate" THEN Cardinality(SubtreeIds(pages, r.page)) ELSE 1

Request(w, r) ==
    /\ req[w] = NoReq /\ ops < MaxOps /\ ~gone
    /\ LET fresh == r.op \in {"create", "duplicate"} /\ r.new = None
       IN  /\ fresh => last + Branch(r) <= MaxPages
           /\ last' = IF fresh THEN last + Branch(r) ELSE last
           /\ req' = [req EXCEPT ![w] = [r EXCEPT !.at = "read", !.new = IF fresh THEN last + 1 ELSE r.new]]
    /\ ops' = ops + 1
    /\ UNCHANGED <<pages, revision, updated, gone, edits>>

Orders == {p \in [DOMAIN pages -> IdsOf(pages)] : ToSet(p) = IdsOf(pages)}
Parents == IdsOf(pages) \cup {None}

SendRequest(w) ==
    \/ \E p \in Parents : Request(w, [NoReq EXCEPT !.op = "create", !.parent = p, !.rev = revision])
    \/ \E p \in Parents : last > 0 /\ Request(w, [NoReq EXCEPT !.op = "create", !.parent = p, !.new = last, !.rev = revision])
    \/ \E o \in Orders : Request(w, [NoReq EXCEPT !.op = "reorder", !.order = o, !.rev = revision])
    \/ \E i \in IdsOf(pages), p, b \in Parents :
         Request(w, [NoReq EXCEPT !.op = "move", !.page = i, !.parent = p, !.before = b, !.rev = revision])
    \/ \E i \in IdsOf(pages), o \in {"rename", "delete", "duplicate"} :
         Request(w, [NoReq EXCEPT !.op = o, !.page = i, !.rev = revision])
    \/ \E i \in IdsOf(pages) : \E v \in {None, Get(pages, i).rev} :
         Request(w, [NoReq EXCEPT !.op = "edit", !.page = i, !.rev = v])

(* update_note_by_id: a try reads the note... *)
ReadNote(w) ==
    /\ req[w].at = "read"
    /\ req' = [req EXCEPT ![w] = IF gone THEN NoReq
                                 ELSE [@ EXCEPT !.at = "write", !.read = [ps |-> pages, rev |-> revision, upd |-> updated]]]
    /\ UNCHANGED <<pages, revision, updated, gone, last, edits, ops>>

Repeated(r) == r.op \in {"create", "duplicate"} /\ r.new \in IdsOf(r.read.ps)

(* Mutant: the note is written over whatever it has become. *)
UnchangedSinceMutant(read) == ~gone

(* The WHERE clause of the write. *)
UnchangedSince(read) == ~gone /\ updated = read.upd

(* ... applies the change, and writes if updated_at is what it read.  A try
   that comes too late is made again, up to the limit. *)
WriteNote(w) ==
    /\ req[w].at = "write"
    /\ LET r == req[w]
           new == IF r.op = "edit" THEN EditPage(r.read.ps, r)
                  ELSE IF Repeated(r) THEN r.read.ps
                  ELSE IF r.rev # r.read.rev THEN None ELSE Apply(r.read.ps, r)
       IN  IF new = None
             THEN req' = [req EXCEPT ![w] = NoReq] /\ UNCHANGED <<pages, revision, updated, edits>>
           ELSE IF ~UnchangedSince(r.read)
             THEN /\ req' = [req EXCEPT ![w] = IF r.tries + 1 = MaxTries THEN NoReq
                                               ELSE [@ EXCEPT !.tries = @ + 1, !.at = "read"]]
                  /\ UNCHANGED <<pages, revision, updated, edits>>
             ELSE /\ pages' = OrderPages(new)
                  /\ revision' = r.read.rev + (IF r.op = "edit" \/ Repeated(r) THEN 0 ELSE 1)
                  /\ updated' = updated + 1
                  /\ edits' = IF r.op = "edit" THEN [edits EXCEPT ![r.page] = @ + 1] ELSE edits
                  /\ req' = [req EXCEPT ![w] = NoReq]
    /\ UNCHANGED <<gone, last, ops>>

DeleteNote ==
    /\ ~gone /\ ops < MaxOps
    /\ gone' = TRUE /\ ops' = ops + 1
    /\ UNCHANGED <<pages, revision, updated, req, last, edits>>

Next ==
    \/ \E w \in Writers : SendRequest(w) \/ ReadNote(w) \/ WriteNote(w)
    \/ DeleteNote

Spec == Init /\ [][Next]_vars

-----------------------------------------------------------------------------
(* The stored list is a forest in preorder with unique ids and main first, so
   that subtree_ids may read it in one pass: "Tabs are in preorder, so all
   ancestors precede their descendants". *)
WellOrdered ==
    /\ pages[1].id = 0 /\ pages[1].parent = None
    /\ \A i, j \in DOMAIN pages : pages[i].id = pages[j].id => i = j
    /\ pages = Preorder(pages, Children(pages, None))
    /\ Len(pages) = Cardinality(IdsOf(pages))

(* "CAS protects the entire JSON from writers on other pages and other
   workers": every edit that succeeded is in the revision of its page. *)
EditsCounted == \A p \in ToSet(pages) : p.rev = edits[p.id]

(* "Deleting one tab never silently deletes its children's content": no step
   takes more than one page from the note. *)
OnePageGoes == Cardinality(IdsOf(pages) \ IdsOf(pages')) <= 1

(* A moved page ends right before the sibling it was dropped on, with its
   subpages, or last among its new siblings. *)
MovePlaces ==
    \A w \in Writers : (req[w].op = "move" /\ pages' # pages /\ req'[w] = NoReq) =>
      LET sib == Children(pages', req[w].parent)
          k == CHOOSE n \in DOMAIN sib : sib[n].id = req[w].page
      IN  /\ req[w].page \in IdsOf(sib)
          /\ IF req[w].before \in {None, req[w].page} THEN k = Len(sib)
             ELSE IF k < Len(sib) THEN sib[k + 1].id = req[w].before ELSE FALSE
=============================================================================
