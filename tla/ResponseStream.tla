--------------------------- MODULE ResponseStream ---------------------------
(* The copy of a reply in progress that a page which is opened late reads  *)
(* from Redis (tasks.py; save_current_response_stream and                  *)
(* save_response_delta in utils/middleware.py): one value per task, a      *)
(* snapshot line followed by the deltas appended since.  A delta is known  *)
(* by its place in the reply; only its length matters to the writer, which *)
(* appends when the length of the value is the one it expects.             *)
EXTENDS Naturals, Sequences, FiniteSets, FiniteSetsExt

CONSTANTS Lens,         \* lengths of the text of a delta
          Base,         \* length of an empty snapshot
          Overhead,     \* length of an appended line beyond its text
          None,
          MaxDeltas,    \* bound on the deltas of a reply
          MaxFaults,    \* bound on commands that fail and on expiries
          MaxLate       \* bound on failed commands the server still executes

ResponseStreamAssumption ==
    /\ Lens \subseteq Nat \ {0} /\ Base \in Nat \ {0} /\ Overhead \in Nat /\ MaxDeltas \in Nat
    /\ MaxFaults \in Nat /\ MaxLate \in Nat

VARIABLES out,          \* lengths of the deltas of the reply so far
          value,        \* Redis: deltas in the snapshot, places of those appended
          strlen,       \* Redis: length of the value
          streamSize, snapshotSize, \* of the writer; 0 asks for a snapshot
          pc,           \* "idle", "append", "chunk" or "done"
          late,         \* appends left in a connection the writer gave up
          faults

vars == <<out, value, strlen, streamSize, snapshotSize, pc, late, faults>>

Text(n)  == MapThenSumSet(LAMBDA i : out[i], 1 .. n)
Line(i)  == out[i] + Overhead
Snapshot == [n |-> Len(out), app |-> <<>>]

TypeOK ==
    /\ out \in Seq(Lens) /\ strlen \in Nat /\ streamSize \in Nat /\ snapshotSize \in Nat
    /\ pc \in {"idle", "append", "chunk", "done"} /\ faults \in 0 .. MaxFaults

Init ==
    /\ out = <<>> /\ value = None /\ strlen = 0 /\ streamSize = 0 /\ snapshotSize = 0
    /\ pc = "idle" /\ late = {} /\ faults = 0

-----------------------------------------------------------------------------
(* A text delta of the provider's chunk: it is in the output when          *)
(* save_response_delta runs.  A value that would outgrow twice its         *)
(* snapshot is due for a new one.                                          *)
Delta(d) ==
    /\ pc \in {"idle", "chunk"} /\ Len(out) < MaxDeltas
    /\ out' = Append(out, d)
    /\ IF streamSize # 0 /\ streamSize + d + Overhead <= snapshotSize * 2
       THEN pc' = "append" /\ UNCHANGED streamSize
       ELSE pc' = "chunk" /\ streamSize' = 0
    /\ UNCHANGED <<value, strlen, snapshotSize, late, faults>>

(* Any other event, or an error in the chunk, asks for a snapshot. *)
Event ==
    /\ pc \in {"idle", "chunk"}
    /\ pc' = "chunk" /\ streamSize' = 0
    /\ UNCHANGED <<out, value, strlen, snapshotSize, late, faults>>

(* Mutant: a delta is appended to whatever is there. *)
FitsMutant(size) == value # None

(* The script compares the length of the value. *)
Fits(size) == strlen = size /\ value # None

AppendTo(size, i, len) ==
    IF Fits(size)
    THEN value' = [n |-> value.n, app |-> Append(value.app, i)] /\ strlen' = strlen + len
    ELSE UNCHANGED <<value, strlen>>

(* append_response_stream *)
AppendDelta ==
    /\ pc = "append" /\ pc' = "chunk"
    /\ AppendTo(streamSize, Len(out), Line(Len(out)))
    /\ streamSize' = IF Fits(streamSize) THEN streamSize + Line(Len(out)) ELSE 0
    /\ UNCHANGED <<out, snapshotSize, late, faults>>

Fault == faults < MaxFaults /\ faults' = faults + 1

(* The reply of the script is lost: it was executed, and the retry of the  *)
(* client finds another length.                                            *)
AppendUnanswered ==
    /\ pc = "append" /\ Fault /\ pc' = "chunk" /\ streamSize' = 0
    /\ AppendTo(streamSize, Len(out), Line(Len(out)))
    /\ UNCHANGED <<out, snapshotSize, late>>

(* The script does not reach the server, or not yet. *)
AppendFails ==
    /\ pc = "append" /\ Fault /\ pc' = "chunk" /\ streamSize' = 0
    /\ late' \in {late} \cup
          {late \cup {[size |-> streamSize, i |-> Len(out), len |-> Line(Len(out))]} :
              x \in {1} \cap 1 .. MaxLate - Cardinality(late)}
    /\ UNCHANGED <<out, value, strlen, snapshotSize>>

AppendLate ==
    /\ \E c \in late : AppendTo(c.size, c.i, c.len) /\ late' = late \ {c}
    /\ UNCHANGED <<out, streamSize, snapshotSize, pc, faults>>

(* Mutant: a failed append is forgotten. *)
EndChunkMutant ==
    /\ pc = "chunk" /\ pc' = "idle"
    /\ IF snapshotSize = 0
       THEN /\ value' = Snapshot /\ strlen' = Base + Text(Len(out))
            /\ streamSize' = strlen' /\ snapshotSize' = strlen'
       ELSE streamSize' = strlen /\ UNCHANGED <<value, strlen, snapshotSize>>
    /\ UNCHANGED <<out, late, faults>>

(* The end of the chunk: save_response_stream, when it is due. *)
EndChunk ==
    /\ pc = "chunk" /\ pc' = "idle"
    /\ IF streamSize = 0
       THEN /\ value' = Snapshot /\ strlen' = Base + Text(Len(out))
            /\ streamSize' = strlen' /\ snapshotSize' = strlen'
       ELSE UNCHANGED <<value, strlen, streamSize, snapshotSize>>
    /\ UNCHANGED <<out, late, faults>>

SaveFails ==
    /\ pc = "chunk" /\ streamSize = 0 /\ Fault /\ pc' = "idle"
    /\ snapshotSize' = 0
    /\ UNCHANGED <<out, value, strlen, streamSize, late>>

(* REDIS_RESPONSE_STREAM_TTL *)
Expire ==
    /\ value # None /\ Fault
    /\ value' = None /\ strlen' = 0
    /\ UNCHANGED <<out, streamSize, snapshotSize, pc, late>>

(* The reply is saved in the chat and its copy cleared. *)
Clear ==
    /\ pc = "idle" /\ pc' = "done"
    /\ value' = None /\ strlen' = 0 /\ streamSize' = 0 /\ snapshotSize' = 0
    /\ UNCHANGED <<out, late, faults>>

Next ==
    \/ \E d \in Lens : Delta(d)
    \/ Event \/ AppendDelta \/ AppendUnanswered \/ AppendFails \/ AppendLate
    \/ EndChunk \/ SaveFails \/ Expire \/ Clear

Spec == Init /\ [][Next]_vars

-----------------------------------------------------------------------------
(* Whoever loads the value (load_response_stream) gets a prefix of the     *)
(* reply: no delta is missing, repeated or out of order, whatever commands *)
(* failed, were retried or expired.                                        *)
ReadsPrefix ==
    value # None =>
        /\ \A k \in 1 .. Len(value.app) : value.app[k] = value.n + k
        /\ value.n + Len(value.app) <= Len(out)

(* Between chunks the copy is not behind the reply, unless it has expired  *)
(* or the writer knows that it has to write a new snapshot.                *)
UpToDate ==
    pc = "idle" /\ streamSize # 0 /\ value # None => value.n + Len(value.app) = Len(out)
=============================================================================
