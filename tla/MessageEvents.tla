---------------------------- MODULE MessageEvents ----------------------------
(***************************************************************************)
(* get_event_emitter and _make_channel_emitter of socket/main.py: what the *)
(* pipeline and its tools emit for a message.  Text, embeds, files and     *)
(* sources are stored by reading the message and writing it back, and the  *)
(* viewers of a shared chat or a channel get the output with a throttle.   *)
(* The emitters of one message run side by side.                           *)
(***************************************************************************)
EXTENDS Naturals, Sequences, SequencesExt

CONSTANTS Emitters,
          Kinds,      \* the kinds of events emitted: "message", "embeds", "files", "source"
          MaxItems,   \* items emitted
          None

VARIABLES stored,   \* stored[k]: the list of kind k in the message
          own,      \* own[e]: the files an emitter has emitted so far
          job,      \* job[e]: an event whose list has been read
          items,    \* items emitted; each is a number
          output,   \* the length of the output
          shown,    \* the output the viewers were last sent
          ended     \* the final event has been emitted

vars == <<stored, own, job, items, output, shown, ended>>
AllKinds == {"message", "embeds", "files", "source"}
NoJob == [kind |-> None, new |-> <<>>, read |-> <<>>]

Init ==
    /\ stored = [k \in AllKinds |-> <<>>]
    /\ own = [e \in Emitters |-> <<>>]
    /\ job = [e \in Emitters |-> NoJob]
    /\ items = 0 /\ output = 0 /\ shown = 0 /\ ended = FALSE

(* Mutant: what is stored is appended, whether it is there or not. *)
MergeMessageFilesMutant(files, existing) == files \o existing

(* Append the existing files that are not among the event's own. *)
MergeMessageFiles(files, existing) ==
    FoldLeft(LAMBDA acc, f : IF Contains(acc, f) THEN acc ELSE Append(acc, f), files, existing)

(* An event is emitted and the message is read; a files event carries all files
   of its emitter. *)
EmitEvent(e, k) ==
    /\ job[e] = NoJob /\ items < MaxItems /\ ~ended
    /\ items' = items + 1
    /\ LET new == IF k = "files" THEN Append(own[e], items + 1) ELSE <<items + 1>>
       IN  /\ own' = IF k = "files" THEN [own EXCEPT ![e] = new] ELSE own
           /\ job' = [job EXCEPT ![e] = [kind |-> k, new |-> new, read |-> stored[k]]]
    /\ UNCHANGED <<stored, output, shown, ended>>

(* Mutant: embeds that are stored already are not kept. *)
StoredListMutant(j) ==
    CASE j.kind = "embeds" -> j.new
      [] j.kind = "files" -> MergeMessageFiles(j.new, j.read)
      [] OTHER -> j.read \o j.new

StoredList(j) ==
    CASE j.kind = "embeds" -> j.new \o j.read
      [] j.kind = "files" -> MergeMessageFiles(j.new, j.read)
      [] OTHER -> j.read \o j.new

StoreEvent(e) ==
    /\ job[e] # NoJob
    /\ stored' = [stored EXCEPT ![job[e].kind] = StoredList(job[e])]
    /\ job' = [job EXCEPT ![e] = NoJob]
    /\ UNCHANGED <<own, items, output, shown, ended>>

(* A completion event: the output has grown.  The viewers get it at most every
   150 milliseconds. *)
Completion(due) ==
    /\ ~ended /\ items < MaxItems
    /\ items' = items + 1
    /\ output' = output + 1
    /\ shown' = IF due THEN output + 1 ELSE shown
    /\ UNCHANGED <<stored, own, job, ended>>

(* Mutant: the throttle also holds back the final event. *)
FinalMutant(due) ==
    /\ ~ended
    /\ ended' = TRUE
    /\ shown' = IF due THEN output ELSE shown
    /\ UNCHANGED <<stored, own, job, items, output>>

(* The final event is not a delta and passes the throttle. *)
Final(due) ==
    /\ ~ended
    /\ ended' = TRUE
    /\ shown' = output
    /\ UNCHANGED <<stored, own, job, items, output>>

Next ==
    \/ \E e \in Emitters, k \in Kinds : EmitEvent(e, k)
    \/ \E e \in Emitters : StoreEvent(e)
    \/ \E due \in BOOLEAN : Completion(due) \/ Final(due)

Spec == Init /\ [][Next]_vars

-----------------------------------------------------------------------------
(* "blindly extending it with what is already stored on the message duplicates
   entries": no file is listed twice, however many emitters there are. *)
FilesOnce == \A i, j \in DOMAIN stored["files"] : stored["files"][i] = stored["files"][j] => i = j

(* What one emitter has stored stays stored: no text, embed, file or source of
   an earlier event is lost with a later one. *)
EventsKept == \A k \in AllKinds : ToSet(stored[k]) \subseteq ToSet(stored'[k])

(* The viewers of a shared chat or a channel end with the whole output. *)
ViewersEndFull == ended => shown = output
=============================================================================
