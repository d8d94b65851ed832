--------------------------- MODULE Replies_proofs ---------------------------
(***************************************************************************)
(* Proofs about how a reply comes to those who wait for it: the queue of   *)
(* calls per conversation of the bot gateway, the channels a worker is     *)
(* subscribed to, and the copy of a reply that others read.                *)
(* A component after the first is an instance, and a theorem speaks of the *)
(* variables of its own component only.                                    *)
(***************************************************************************)
EXTENDS KeyedSerialQueue, Sequences, FiniteSetTheorems, TLAPS

CONSTANTS Joiners, Rooms, Main, None, MaxReconnects, MaxErrors, Lens, Base, Overhead,
          MaxDeltas, MaxFaults, MaxLate

VARIABLES call, dirty, queued, busy, batch, serial, chans, dropping, pipe, back, subs,
          reconnects, errors, out, value, strlen, streamSize, snapshotSize, late, faults

(* What the provers may take for a step, on a busy machine. *)
USE ZenonT(3), SMTT(30), ZenonT(30)

-----------------------------------------------------------------------------
(* Proofs about the per-conversation queue, for any number of calls and    *)
(* keys and any depth limit.                                               *)

TimedOutKey(k) == \E u \in Tasks : keyOf[u] = k /\ pc[u] = "timedOut"

(* While no wait on k has timed out, the entry of the tails map is linked  *)
(* behind every other call of k inside, and those form one chain.          *)
ChainInv ==
    \A k \in Keys : ~TimedOutKey(k) =>
        /\ tails[k] = NoTask => Inside(k) = {}
        /\ tails[k] # NoTask => Inside(k) \subseteq {tails[k]} \cup ahead[tails[k]]
        /\ \A s, t \in Inside(k) : s = t \/ s \in ahead[t] \/ t \in ahead[s]

(* Without a bound on the wait no call times out. *)
UntimedInv == ~Timed => \A t \in Tasks : pc[t] # "timedOut"

QueueInv == /\ TypeOK
        /\ DepthIsInside
        /\ TailIsInside
        /\ NeverOvertakesChain
        /\ ChainInv
        /\ UntimedInv

(* The inductive invariant gives the overlap property: of two running      *)
(* calls of one key one waited for the other, which has then left.         *)
LEMMA IInvSerial == QueueInv => SerialUnlessTimedOut
<1> SUFFICES ASSUME QueueInv,
                    NEW s \in Tasks, NEW t \in Tasks,
                    s # t, pc[s] = "running", pc[t] = "running",
                    keyOf[s] = keyOf[t], ~TimedOutKey(keyOf[s])
             PROVE  FALSE
  BY DEF SerialUnlessTimedOut, TimedOutKey
<1>1. keyOf[s] \in Keys
  BY DEF QueueInv, TypeOK
<1>2. s \in Inside(keyOf[s]) /\ t \in Inside(keyOf[s])
  BY DEF Inside
<1>3. s \in ahead[t] \/ t \in ahead[s]
  BY <1>1, <1>2 DEF QueueInv, ChainInv
<1>4. Released(s) \/ Released(t)
  BY <1>3 DEF QueueInv, NeverOvertakesChain, Settled
<1> QED
  BY <1>4 DEF Released

(* The sets of calls inside stay finite, so their cardinality moves by one *)
(* when one call enters or leaves.                                         *)
LEMMA InsideFinite == \A k \in Keys : IsFiniteSet(Inside(k))
<1> TAKE k \in Keys
<1>1. Inside(k) \subseteq Tasks
  BY DEF Inside
<1> QED
  BY <1>1, FS_Subset, KeyedSerialQueueAssumption

(* The initial states satisfy the inductive invariant. *)
LEMMA InitQueueInv == Init => QueueInv
<1> SUFFICES ASSUME Init PROVE QueueInv
  OBVIOUS
<1>1. TypeOK
  BY KeyedSerialQueueAssumption DEF Init, TypeOK, PCs
<1>2. \A k \in Keys : Inside(k) = {}
  BY DEF Init, Inside
<1>3. DepthIsInside
  BY <1>2, FS_EmptySet DEF Init, DepthIsInside
<1>4. TailIsInside /\ NeverOvertakesChain /\ UntimedInv
  BY DEF Init, TailIsInside, NeverOvertakesChain, UntimedInv
<1>5. ChainInv
  BY <1>2 DEF ChainInv, Init
<1> QED
  BY <1>1, <1>3, <1>4, <1>5 DEF QueueInv

(* run() up to its first await preserves the invariant: the call joins the *)
(* end of the chain.                                                       *)
LEMMA EnterIInv == ASSUME QueueInv, NEW t \in Tasks, Enter(t) PROVE QueueInv'
<1> DEFINE k == keyOf[t]
<1> USE KeyedSerialQueueAssumption
<1>0. /\ TypeOK /\ DepthIsInside /\ TailIsInside
      /\ NeverOvertakesChain /\ ChainInv /\ UntimedInv
  BY DEF QueueInv
<1>1. k \in Keys /\ tails[k] \in Tasks \cup {NoTask} /\ depths[k] \in 0 .. maxDepthPerKey
  BY <1>0 DEF TypeOK
<1>2. /\ pc[t] = "idle"
      /\ depths[k] < maxDepthPerKey
      /\ depths' = [depths EXCEPT ![k] = depths[k] + 1]
      /\ ahead' = [ahead EXCEPT ![t] = IF tails[k] = NoTask THEN {}
                                       ELSE {tails[k]} \cup ahead[tails[k]]]
      /\ tails' = [tails EXCEPT ![k] = t]
      /\ pc' = [pc EXCEPT ![t] = "waiting"]
      /\ keyOf' = keyOf
  BY DEF Enter
<1>3. TypeOK'
  <2>1. depths[k] + 1 \in 0 .. maxDepthPerKey
    BY <1>1, <1>2
  <2>2. (IF tails[k] = NoTask THEN {} ELSE {tails[k]} \cup ahead[tails[k]]) \in SUBSET Tasks
    BY <1>0, <1>1 DEF TypeOK
  <2> QED
    BY <1>0, <1>1, <1>2, <2>1, <2>2 DEF TypeOK, PCs
<1>4. \A j \in Keys : Inside(j)' = IF j = k THEN Inside(j) \cup {t} ELSE Inside(j)
  BY <1>0, <1>2 DEF Inside, TypeOK
<1>5. t \notin Inside(k)
  BY <1>2 DEF Inside
<1>6. DepthIsInside'
  <2> SUFFICES ASSUME NEW j \in Keys PROVE depths'[j] = Cardinality(Inside(j)')
    BY DEF DepthIsInside
  <2>1. CASE j = k
    <3>1. Cardinality(Inside(k) \cup {t}) = Cardinality(Inside(k)) + 1
      BY <1>1, <1>5, InsideFinite, FS_AddElement
    <3> QED
      BY <2>1, <3>1, <1>0, <1>1, <1>2, <1>4 DEF DepthIsInside, TypeOK
  <2>2. CASE j # k
    BY <2>2, <1>0, <1>1, <1>2, <1>4 DEF DepthIsInside, TypeOK
  <2> QED
    BY <2>1, <2>2
<1>7. TailIsInside'
  BY <1>0, <1>1, <1>2, <1>4 DEF TailIsInside, TypeOK
<1>8. NeverOvertakesChain'
  BY <1>0, <1>2 DEF NeverOvertakesChain, Settled, Released, TypeOK
<1>9. ChainInv'
  <2> SUFFICES ASSUME NEW j \in Keys, ~TimedOutKey(j)'
               PROVE  /\ tails'[j] = NoTask => Inside(j)' = {}
                      /\ tails'[j] # NoTask =>
                            Inside(j)' \subseteq {tails'[j]} \cup ahead'[tails'[j]]
                      /\ \A a, b \in Inside(j)' : a = b \/ a \in ahead'[b] \/ b \in ahead'[a]
    BY DEF ChainInv
  <2>1. ~TimedOutKey(j)
    BY <1>0, <1>2 DEF TimedOutKey, TypeOK
  <2>2. /\ tails[j] = NoTask => Inside(j) = {}
        /\ tails[j] # NoTask => Inside(j) \subseteq {tails[j]} \cup ahead[tails[j]]
        /\ \A a, b \in Inside(j) : a = b \/ a \in ahead[b] \/ b \in ahead[a]
    BY <2>1, <1>0 DEF ChainInv
  <2>3. \A a \in Tasks : a # t => ahead'[a] = ahead[a]
    BY <1>0, <1>2 DEF TypeOK
  <2>4. CASE j # k
    <3>1. tails'[j] = tails[j] /\ Inside(j)' = Inside(j)
      BY <2>4, <1>0, <1>1, <1>2, <1>4 DEF TypeOK
    <3>2. t \notin Inside(j) /\ Inside(j) \subseteq Tasks
      BY <2>4 DEF Inside
    <3>3. tails[j] # NoTask => tails[j] \in Inside(j)
      BY <1>0 DEF TailIsInside
    <3> QED
      BY <3>1, <3>2, <3>3, <2>2, <2>3
  <2>5. CASE j = k
    <3>1. Inside(j) \subseteq ahead'[t]
      BY <2>2, <2>5, <1>0, <1>1, <1>2 DEF TypeOK
    <3>2. tails'[j] = t /\ Inside(j)' = Inside(j) \cup {t}
      BY <2>5, <1>0, <1>1, <1>2, <1>4 DEF TypeOK
    <3>3. Inside(j) \subseteq Tasks /\ t # NoTask /\ t \notin Inside(j)
      BY <2>5, <1>5 DEF Inside
    <3> HIDE DEF k
    <3> QED
      BY <3>1, <3>2, <3>3, <2>2, <2>3
  <2> QED
    BY <2>4, <2>5
<1>10. UntimedInv'
  BY <1>0, <1>2 DEF UntimedInv, TypeOK
<1> QED
  BY <1>3, <1>6, <1>7, <1>8, <1>9, <1>10 DEF QueueInv

(* A call leaves run() on either path.  The tail is dropped only when the  *)
(* leaving call is last in the chain; if it ran, everything before it has  *)
(* already left, and if it timed out the key is no longer covered.         *)
LEMMA LeaveIInv ==
    ASSUME QueueInv, NEW t \in Tasks, NEW how \in {"done", "timedOut"},
           Leave(t, how), pc[t] \in {"waiting", "running"},
           how = "done" => pc[t] = "running",
           how = "timedOut" => Timed
    PROVE  QueueInv'
<1> DEFINE k == keyOf[t]
<1> USE KeyedSerialQueueAssumption
<1>0. /\ TypeOK /\ DepthIsInside /\ TailIsInside
      /\ NeverOvertakesChain /\ ChainInv /\ UntimedInv
  BY DEF QueueInv
<1>1. k \in Keys /\ depths[k] \in 0 .. maxDepthPerKey
  BY <1>0 DEF TypeOK
<1>2. /\ pc' = [pc EXCEPT ![t] = how]
      /\ tails' = IF tails[k] = t THEN [tails EXCEPT ![k] = NoTask] ELSE tails
      /\ depths' = [depths EXCEPT ![k] = depths[k] - 1]
      /\ keyOf' = keyOf /\ ahead' = ahead
  BY DEF Leave, LeaveTails
<1>3. t \in Inside(k)
  BY DEF Inside
<1>4. \A j \in Keys : Inside(j)' = IF j = k THEN Inside(j) \ {t} ELSE Inside(j)
  BY <1>0, <1>2 DEF Inside, TypeOK
<1>5. /\ Cardinality(Inside(k) \ {t}) = Cardinality(Inside(k)) - 1
      /\ Cardinality(Inside(k)) \in Nat
  BY <1>1, <1>3, InsideFinite, FS_RemoveElement, FS_CardinalityType
<1>6. depths[k] - 1 \in 0 .. maxDepthPerKey
  <2>1. Cardinality(Inside(k) \ {t}) \in Nat
    BY <1>1, InsideFinite, FS_RemoveElement, FS_CardinalityType
  <2> QED
    BY <2>1, <1>0, <1>1, <1>5 DEF DepthIsInside
<1>7. TypeOK'
  BY <1>0, <1>1, <1>2, <1>6 DEF TypeOK, PCs
<1>8. DepthIsInside'
  <2> SUFFICES ASSUME NEW j \in Keys PROVE depths'[j] = Cardinality(Inside(j)')
    BY DEF DepthIsInside
  <2>1. CASE j = k
    BY <2>1, <1>0, <1>1, <1>2, <1>4, <1>5 DEF DepthIsInside, TypeOK
  <2>2. CASE j # k
    BY <2>2, <1>0, <1>1, <1>2, <1>4 DEF DepthIsInside, TypeOK
  <2> QED
    BY <2>1, <2>2
<1>9. TailIsInside'
  <2> SUFFICES ASSUME NEW j \in Keys, tails'[j] # NoTask PROVE tails'[j] \in Inside(j)'
    BY DEF TailIsInside
  <2>1. tails'[j] = tails[j] /\ (j = k => tails[j] # t)
    BY <1>0, <1>1, <1>2 DEF TypeOK
  <2>2. tails[j] \in Inside(j)
    BY <2>1, <1>0 DEF TailIsInside
  <2> QED
    BY <2>1, <2>2, <1>4
<1>10. NeverOvertakesChain'
  BY <1>0, <1>2 DEF NeverOvertakesChain, Settled, Released, TypeOK
<1>11. ChainInv'
  <2> SUFFICES ASSUME NEW j \in Keys, ~TimedOutKey(j)'
               PROVE  /\ tails'[j] = NoTask => Inside(j)' = {}
                      /\ tails'[j] # NoTask =>
                            Inside(j)' \subseteq {tails'[j]} \cup ahead'[tails'[j]]
                      /\ \A a, b \in Inside(j)' : a = b \/ a \in ahead'[b] \/ b \in ahead'[a]
    BY DEF ChainInv
  <2>1. ~TimedOutKey(j) /\ (j = k => how = "done")
    BY <1>0, <1>2 DEF TimedOutKey, TypeOK
  <2>2. /\ tails[j] = NoTask => Inside(j) = {}
        /\ tails[j] # NoTask => Inside(j) \subseteq {tails[j]} \cup ahead[tails[j]]
        /\ \A a, b \in Inside(j) : a = b \/ a \in ahead[b] \/ b \in ahead[a]
    BY <2>1, <1>0 DEF ChainInv
  <2>3. Inside(j)' \subseteq Inside(j)
    BY <1>4
  <2>4. CASE j = k /\ tails[j] = t
    <3>1. pc[t] = "running"
      BY <2>1, <2>4
    <3>2. \A s \in ahead[t] : s \notin Inside(j)
      BY <3>1, <1>0 DEF NeverOvertakesChain, Settled, Released, Inside
    <3>3. Inside(j) \subseteq {t} \cup ahead[t]
      BY <2>2, <2>4
    <3>4. Inside(j)' = {}
      BY <3>2, <3>3, <2>4, <1>4
    <3>5. tails'[j] = NoTask
      BY <2>4, <1>0, <1>2 DEF TypeOK
    <3> QED
      BY <3>4, <3>5
  <2>5. CASE ~(j = k /\ tails[j] = t)
    <3>1. tails'[j] = tails[j] /\ ahead' = ahead
      BY <2>5, <1>0, <1>1, <1>2 DEF TypeOK
    <3> QED
      BY <3>1, <2>2, <2>3
  <2> QED
    BY <2>4, <2>5
<1>12. UntimedInv'
  BY <1>0, <1>2 DEF UntimedInv, TypeOK
<1> QED
  BY <1>7, <1>8, <1>9, <1>10, <1>11, <1>12 DEF QueueInv

(* The steps that change only the program counter of t. *)
LEMMA MoveIInv ==
    ASSUME QueueInv, NEW t \in Tasks,
           Refuse(t) \/ Start(t) \/ UNCHANGED vars
    PROVE  QueueInv'
<1>0. /\ TypeOK /\ DepthIsInside /\ TailIsInside
      /\ NeverOvertakesChain /\ ChainInv /\ UntimedInv
  BY DEF QueueInv
<1>1. /\ keyOf' = keyOf /\ ahead' = ahead /\ tails' = tails /\ depths' = depths
      /\ \A s \in Tasks : /\ Released(s)' <=> Released(s)
                          /\ pc'[s] = "timedOut" <=> pc[s] = "timedOut"
                          /\ pc'[s] \in {"waiting", "running"} <=> pc[s] \in {"waiting", "running"}
                          /\ pc'[s] = "running" => pc[s] = "running" \/ Settled(s)
      /\ pc' \in [Tasks -> PCs]
  BY <1>0 DEF TypeOK, PCs, Released, Refuse, Start, vars
<1>2. \A k \in Keys : Inside(k)' = Inside(k)
  BY <1>1 DEF Inside
<1>3. \A k \in Keys : TimedOutKey(k)' <=> TimedOutKey(k)
  BY <1>1 DEF TimedOutKey
<1>4. TypeOK' /\ DepthIsInside' /\ TailIsInside' /\ UntimedInv'
  BY <1>0, <1>1, <1>2 DEF TypeOK, DepthIsInside, TailIsInside, UntimedInv
<1>5. NeverOvertakesChain'
  BY <1>0, <1>1 DEF NeverOvertakesChain, Settled, TypeOK
<1>6. ChainInv'
  BY <1>0, <1>1, <1>2, <1>3 DEF ChainInv
<1> QED
  BY <1>4, <1>5, <1>6 DEF QueueInv

(* The inductive invariant holds throughout. *)
LEMMA IInvAlways == Spec => []QueueInv
<1>1. QueueInv /\ [Next]_vars => QueueInv'
  <2> SUFFICES ASSUME QueueInv, [Next]_vars PROVE QueueInv'
    OBVIOUS
  <2>1. CASE UNCHANGED vars
    <3>1. CASE Tasks = {}
      BY <3>1, <2>1 DEF vars, QueueInv, TypeOK, DepthIsInside, TailIsInside, Inside,
                        NeverOvertakesChain, ChainInv, UntimedInv, TimedOutKey
    <3>2. CASE Tasks # {}
      BY <3>2, <2>1, MoveIInv
    <3> QED
      BY <3>1, <3>2
  <2>2. ASSUME NEW t \in Tasks, Refuse(t) \/ Start(t) PROVE QueueInv'
    BY <2>2, MoveIInv
  <2>3. ASSUME NEW t \in Tasks, Enter(t) PROVE QueueInv'
    BY <2>3, EnterIInv
  <2>4. ASSUME NEW t \in Tasks, Finish(t) PROVE QueueInv'
    BY <2>4, LeaveIInv DEF Finish
  <2>5. ASSUME NEW t \in Tasks, TimeOut(t) PROVE QueueInv'
    BY <2>5, LeaveIInv DEF TimeOut
  <2> QED
    BY <2>1, <2>2, <2>3, <2>4, <2>5 DEF Next
<1> QED
  BY InitQueueInv, <1>1, PTL DEF Spec

(* The variables keep their types; in particular the depth counter never   *)
(* goes below zero or above the limit.                                     *)
THEOREM TypeCorrect == Spec => []TypeOK
<1>1. QueueInv => TypeOK
  BY DEF QueueInv
<1> QED
  BY IInvAlways, <1>1, PTL

(* Whichever way calls leave run(), the depth counter of a key is the      *)
(* number of calls admitted and not yet gone.                              *)
THEOREM DepthCounts == Spec => []DepthIsInside
<1>1. QueueInv => DepthIsInside
  BY DEF QueueInv
<1> QED
  BY IInvAlways, <1>1, PTL

(* The tails map never keeps an entry of a call that has left run().       *)
THEOREM TailsAreInside == Spec => []TailIsInside
<1>1. QueueInv => TailIsInside
  BY DEF QueueInv
<1> QED
  BY IInvAlways, <1>1, PTL

(* Calls of one conversation overlap only once a wait of that conversation *)
(* has timed out.                                                          *)
THEOREM SerialBeforeTimeout == Spec => []SerialUnlessTimedOut
BY IInvAlways, IInvSerial, PTL

(* With maxWaitMs = 0, the constructor's default, calls of one             *)
(* conversation never overlap.                                             *)
THEOREM SerialWithoutTimeout == ~Timed => (Spec => []SerialPerKey)
<1> SUFFICES ASSUME ~Timed PROVE Spec => []SerialPerKey
  OBVIOUS
<1>1. QueueInv => SerialPerKey
  <2>1. QueueInv => UntimedInv
    BY DEF QueueInv
  <2> QED
    BY <2>1, IInvSerial DEF UntimedInv, SerialUnlessTimedOut, SerialPerKey
<1> QED
  BY IInvAlways, <1>1, PTL

-----------------------------------------------------------------------------
C == INSTANCE RoomChannels

(* The channels of a worker. *)

Channel == Rooms \cup {Main}
Command == [op : {"sub", "unsub", "ping"}, cs : SUBSET Channel, n : Nat]

Removes(m, r) == m.op = "unsub" /\ r \in m.cs

(* Redis has channel r subscribed once it has executed the commands of q. *)
Subscribed(q, s, r) ==
    \/ r \in s /\ \A k \in DOMAIN q : ~Removes(q[k], r)
    \/ \E i \in DOMAIN q :
          /\ q[i].op = "sub" /\ r \in q[i].cs
          /\ \A k \in DOMAIN q : k > i => ~Removes(q[k], r)

(* After a PING with number n come only PINGs. *)
PingsLast(q, n) ==
    \A i, k \in DOMAIN q : i < k /\ q[i].op = "ping" /\ q[i].n = n => q[k].op = "ping"

Numbered(q, n) == \A i \in DOMAIN q : q[i].n <= n

RoomTypes ==
    /\ serial \in Nat /\ pipe \in Seq(Command) /\ back \in Seq(Command)
    /\ subs \subseteq Channel /\ chans \subseteq Channel /\ dropping \subseteq Channel
    /\ DOMAIN call = Joiners /\ queued \subseteq Joiners /\ batch \subseteq Joiners
    /\ \A j \in Joiners : call[j].at # "out" => call[j].room \in Rooms

(* Joins that wait are in their rooms; those of the batch are in rooms that   *)
(* the worker has subscribed and is not leaving.                              *)
RoomBatch ==
    /\ (~busy => batch = {}) /\ queued \cap batch = {}
    /\ \A j \in queued \cup batch : call[j].at = "wait"
    /\ \A j \in batch : call[j].room \in chans \ dropping

(* The PING of the batch is behind every subscription that was sent. *)
RoomPings ==
    /\ Numbered(pipe, serial) /\ Numbered(back, serial) /\ PingsLast(pipe, serial)
    /\ (\E i \in DOMAIN back : back[i].op = "ping" /\ back[i].n = serial)
          => \A k \in DOMAIN pipe : pipe[k].op = "ping"

RoomLink == \A r \in chans \ dropping : Subscribed(pipe, subs, r)

RoomInv == RoomTypes /\ RoomBatch /\ RoomPings /\ RoomLink

(* A command at the end of the queue keeps a subscription it does not remove. *)
LEMMA SubscribedAppend ==
  ASSUME NEW q \in Seq(Command), NEW m \in Command, NEW s, NEW r,
         Subscribed(q, s, r), ~Removes(m, r)
  PROVE  Subscribed(Append(q, m), s, r)
  BY DEF Subscribed, Removes

(* A subscription at the end of the queue is not removed. *)
LEMMA SubscribedLast ==
  ASSUME NEW q \in Seq(Command), NEW m \in Command, NEW s, NEW r, m.op = "sub", r \in m.cs
  PROVE  Subscribed(Append(q, m), s, r)
  <1>1. Append(q, m)[Len(q) + 1] = m /\ DOMAIN Append(q, m) = 1 .. Len(q) + 1
    OBVIOUS
  <1>2. QED
    BY <1>1 DEF Subscribed, Removes

(* What Redis executes is what the queue promised. *)
LEMMA SubscribedTail ==
  ASSUME NEW q \in Seq(Command), NEW s, NEW t, NEW r, q # <<>>, Subscribed(q, s, r),
         t = CASE Head(q).op = "sub" -> s \cup Head(q).cs
               [] Head(q).op = "unsub" -> s \ Head(q).cs
               [] OTHER -> s
  PROVE  Subscribed(Tail(q), t, r)
  <1>1. /\ Head(q) = q[1] /\ Head(q) \in Command /\ 1 \in DOMAIN q
        /\ \A k \in DOMAIN Tail(q) : Tail(q)[k] = q[k + 1] /\ k + 1 \in DOMAIN q
        /\ \A k \in DOMAIN q : k # 1 => k - 1 \in DOMAIN Tail(q) /\ Tail(q)[k - 1] = q[k]
        /\ DOMAIN q \subseteq Nat /\ DOMAIN Tail(q) \subseteq Nat
    OBVIOUS
  <1>2. CASE r \in s /\ \A k \in DOMAIN q : ~Removes(q[k], r)
    <2>1. r \in t
      BY <1>1, <1>2 DEF Removes
    <2>2. \A k \in DOMAIN Tail(q) : ~Removes(Tail(q)[k], r)
      BY <1>1, <1>2
    <2>3. QED
      BY <2>1, <2>2 DEF Subscribed
  <1>3. ASSUME NEW i \in DOMAIN q, q[i].op = "sub", r \in q[i].cs,
               \A k \in DOMAIN q : k > i => ~Removes(q[k], r)
        PROVE  Subscribed(Tail(q), t, r)
    <2>1. CASE i = 1
      <3>1. r \in t
        BY <1>1, <1>3, <2>1
      <3>2. \A k \in DOMAIN Tail(q) : ~Removes(Tail(q)[k], r)
        BY <1>1, <1>3, <2>1
      <3>3. QED
        BY <3>1, <3>2 DEF Subscribed
    <2>2. CASE i # 1
      <3>1. i - 1 \in DOMAIN Tail(q) /\ Tail(q)[i - 1] = q[i]
        BY <1>1, <2>2
      <3>2. \A k \in DOMAIN Tail(q) : k > i - 1 => ~Removes(Tail(q)[k], r)
        BY <1>1, <1>3
      <3>3. QED
        BY <1>3, <3>1, <3>2 DEF Subscribed
    <2>3. QED
      BY <2>1, <2>2
  <1>4. QED
    BY <1>2, <1>3 DEF Subscribed

(* RoomInv holds at the start: only the manager's channel is on its way. *)
LEMMA RoomInit == C!Init => RoomInv
  BY DEF C!Init, C!NewCall, C!Sub, RoomInv, RoomTypes, RoomBatch, RoomPings, RoomLink, Channel,
         Command,
       Subscribed, Removes, PingsLast, Numbered

(* The commands of a queue whose first one is taken. *)
LEMMA QueueTail ==
  ASSUME NEW q \in Seq(Command), q # <<>>
  PROVE  /\ Tail(q) \in Seq(Command) /\ DOMAIN q \subseteq Nat /\ DOMAIN Tail(q) \subseteq Nat
         /\ Head(q) = q[1] /\ Head(q) \in Command /\ 1 \in DOMAIN q
         /\ \A k \in DOMAIN Tail(q) : k + 1 \in DOMAIN q /\ Tail(q)[k] = q[k + 1]
  OBVIOUS

(* The commands of a queue with one more at its end. *)
LEMMA QueueAppend ==
  ASSUME NEW q \in Seq(Command), NEW m \in Command
  PROVE  /\ Append(q, m) \in Seq(Command) /\ DOMAIN q = 1 .. Len(q) /\ Len(q) \in Nat
         /\ DOMAIN Append(q, m) = 1 .. (Len(q) + 1) /\ Append(q, m)[Len(q) + 1] = m
         /\ \A k \in DOMAIN q : Append(q, m)[k] = q[k]
  OBVIOUS

(* _sync_rooms sends a command only when it names a channel; a channel that   *)
(* is subscribed stays so unless the command removes it.                      *)
LEMMA QueueSend ==
  ASSUME NEW q \in Seq(Command), NEW m \in Command, NEW s, NEW n \in Nat,
         Numbered(q, n), m.n <= n
  PROVE  /\ C!Send(q, m) \in Seq(Command) /\ Numbered(C!Send(q, m), n)
         /\ \A r : Subscribed(q, s, r) /\ ~Removes(m, r) => Subscribed(C!Send(q, m), s, r)
         /\ \A r : m.op = "sub" /\ r \in m.cs => Subscribed(C!Send(q, m), s, r)
  <1>1. CASE m.cs = {}
    BY <1>1 DEF C!Send
  <1>2. CASE m.cs # {}
    <2>1. C!Send(q, m) = Append(q, m)
      BY <1>2 DEF C!Send
    <2>2. Append(q, m) \in Seq(Command) /\ Numbered(Append(q, m), n)
      BY QueueAppend DEF Numbered
    <2>3. QED
      BY <2>1, <2>2, SubscribedAppend, SubscribedLast
  <1>3. QED
    BY <1>1, <1>2

(* Every step keeps RoomInv. *)
LEMMA RoomNext == RoomInv /\ [C!Next]_C!vars => RoomInv'
  <1> SUFFICES ASSUME RoomInv, [C!Next]_C!vars
               PROVE  RoomInv'
    OBVIOUS
  <1> USE DEF RoomInv
  <1>1. ASSUME NEW j \in Joiners, NEW r \in Rooms, C!EnterRoom(j, r)
        PROVE  RoomInv'
    <2>1. RoomTypes'
      BY <1>1 DEF C!EnterRoom, C!wait, C!client, C!link, RoomTypes
    <2>2. RoomBatch'
      BY <1>1 DEF C!EnterRoom, C!NewCall, C!wait, C!client, C!link, RoomTypes, RoomBatch
    <2>3. QED
      BY <1>1, <2>1, <2>2 DEF C!EnterRoom, C!wait, C!client, C!link, RoomPings, RoomLink
  <1>2. ASSUME NEW j \in Joiners, C!LeaveRoom(j)
        PROVE  RoomInv'
    <2>1. RoomTypes'
      BY <1>2 DEF C!LeaveRoom, C!client, C!link, RoomTypes
    <2>2. RoomBatch'
      BY <1>2 DEF C!LeaveRoom, C!client, C!link, RoomTypes, RoomBatch
    <2>3. QED
      BY <1>2, <2>1, <2>2 DEF C!LeaveRoom, C!client, C!link, RoomPings, RoomLink
  <1>3. CASE C!SyncRooms
    <2> DEFINE added   == C!Wanted \ (chans \ dropping)
               removed == (chans \ C!Wanted) \ dropping
               q1 == C!Send(pipe, C!Sub(added))
               q2 == C!Send(q1, C!Unsub(removed))
    <2>1. C!Wanted \subseteq Channel
      BY DEF C!Wanted, Channel, RoomTypes
    <2>2. C!Sub(added) \in Command /\ C!Unsub(removed) \in Command /\ C!Ping(serial + 1) \in Command
      BY <2>1 DEF C!Sub, C!Unsub, C!Ping, Command, RoomTypes
    <2>3. /\ pipe' = Append(q2, C!Ping(serial + 1)) /\ serial' = serial + 1
          /\ chans' = chans \cup added /\ dropping' = (dropping \ added) \cup removed
          /\ busy' = TRUE /\ batch' = queued /\ queued' = {} /\ UNCHANGED <<call, back, subs>>
      BY <1>3 DEF C!SyncRooms
    <2>4. /\ q1 \in Seq(Command) /\ Numbered(q1, serial)
          /\ \A r : r \in added => Subscribed(q1, subs, r)
          /\ \A r : Subscribed(pipe, subs, r) => Subscribed(q1, subs, r)
      <3>1. C!Sub(added).op = "sub" /\ C!Sub(added).cs = added /\ C!Sub(added).n = 0
        BY DEF C!Sub
      <3>2. \A r : ~Removes(C!Sub(added), r)
        BY <3>1 DEF Removes
      <3>3. pipe \in Seq(Command) /\ serial \in Nat /\ Numbered(pipe, serial)
        BY DEF RoomTypes, RoomPings
      <3> DEFINE m == C!Sub(added)
      <3>4. m \in Command /\ m.op = "sub" /\ m.cs = added /\ m.n <= serial /\ q1 = C!Send(pipe, m)
        <4>1. m \in Command /\ q1 = C!Send(pipe, m)
          BY <2>2
        <4>2. m.op = "sub" /\ m.cs = added /\ m.n = 0
          BY <3>1
        <4> HIDE DEF m, q1, added
        <4>3. QED
          BY <3>3, <4>1, <4>2
      <3>5. \A r : ~Removes(m, r)
        BY <3>2
      <3> HIDE DEF added, m, q1
      <3>6. /\ C!Send(pipe, m) \in Seq(Command) /\ Numbered(C!Send(pipe, m), serial)
            /\ \A r : Subscribed(pipe, subs, r) /\ ~Removes(m, r) => Subscribed(C!Send(pipe, m), subs, r)
            /\ \A r : m.op = "sub" /\ r \in m.cs => Subscribed(C!Send(pipe, m), subs, r)
        BY <3>3, <3>4, QueueSend
      <3>7. QED
        BY <3>4, <3>5, <3>6
    <2>5. /\ q2 \in Seq(Command) /\ Numbered(q2, serial)
          /\ \A r : Subscribed(q1, subs, r) /\ r \notin removed => Subscribed(q2, subs, r)
      <3>1. C!Unsub(removed).cs = removed /\ C!Unsub(removed).n = 0
        BY DEF C!Unsub
      <3>2. \A r : r \notin removed => ~Removes(C!Unsub(removed), r)
        BY <3>1 DEF Removes
      <3>3. serial \in Nat
        BY DEF RoomTypes
      <3> DEFINE m == C!Unsub(removed)
      <3>4. m \in Command /\ m.n <= serial /\ q2 = C!Send(q1, m)
        BY <2>2, <3>1, <3>3
      <3>5. \A r : r \notin removed => ~Removes(m, r)
        BY <3>2
      <3> HIDE DEF added, removed, m, q1, q2
      <3>6. /\ C!Send(q1, m) \in Seq(Command) /\ Numbered(C!Send(q1, m), serial)
            /\ \A r : Subscribed(q1, subs, r) /\ ~Removes(m, r) => Subscribed(C!Send(q1, m), subs, r)
        BY <2>4, <3>3, <3>4, QueueSend
      <3>7. QED
        BY <3>4, <3>5, <3>6
    <2>6. RoomLink'
      <3>1. ASSUME NEW r \in chans' \ dropping'
            PROVE  Subscribed(pipe', subs', r)
        <4>1. r \notin removed /\ (r \in added \/ r \in chans \ dropping)
          BY <2>3, <3>1
        <4>2. Subscribed(q1, subs, r)
          BY <2>4, <4>1 DEF RoomLink
        <4>3. Subscribed(q2, subs, r)
          BY <2>5, <4>1, <4>2
        <4>4. ~Removes(C!Ping(serial + 1), r)
          BY DEF Removes, C!Ping
        <4> HIDE DEF q1, q2
        <4>5. QED
          BY <2>2, <2>3, <2>5, <4>3, <4>4, SubscribedAppend
      <3>2. QED
        BY <3>1 DEF RoomLink
    <2>7. RoomBatch'
      <3>1. ASSUME NEW j \in queued
            PROVE  call[j].at = "wait" /\ call[j].room \in C!Wanted
        BY DEF RoomBatch, RoomTypes, C!Wanted
      <3>2. QED
        BY <2>3, <3>1 DEF RoomBatch
    <2>8. RoomPings'
      <3> HIDE DEF q1, q2
      <3> DEFINE m == C!Ping(serial + 1)
      <3>1. m.op = "ping" /\ m.n = serial + 1 /\ m \in Command /\ serial \in Nat
        BY <2>2 DEF C!Ping, RoomTypes
      <3> HIDE DEF m
      <3>2. /\ DOMAIN pipe' = 1 .. (Len(q2) + 1) /\ DOMAIN q2 = 1 .. Len(q2) /\ Len(q2) \in Nat
            /\ pipe'[Len(q2) + 1] = m /\ \A k \in DOMAIN q2 : pipe'[k] = q2[k] /\ q2[k] \in Command
        BY <2>3, <2>5, <3>1, QueueAppend DEF m
      <3>3. \A k \in DOMAIN q2 : q2[k].n \in Nat /\ q2[k].n <= serial
        BY <2>5, <3>2 DEF Numbered, Command
      <3>4. Numbered(pipe', serial + 1) /\ PingsLast(pipe', serial + 1)
        BY <3>1, <3>2, <3>3 DEF Numbered, PingsLast
      <3>5. \A k \in DOMAIN back : back[k].n \in Nat /\ back[k].n <= serial
        <4>1. \A k \in DOMAIN back : back[k] \in Command
          BY DEF RoomTypes
        <4>2. QED
          BY <4>1 DEF RoomPings, Numbered, Command
      <3>6. QED
        BY <2>3, <3>1, <3>4, <3>5 DEF RoomPings, Numbered
    <2>9. RoomTypes'
      <3> HIDE DEF q1, q2
      <3>1. pipe' \in Seq(Command)
        BY <2>2, <2>3, <2>5, QueueAppend
      <3>2. chans' \subseteq Channel /\ dropping' \subseteq Channel
        BY <2>1, <2>3 DEF RoomTypes
      <3>3. QED
        BY <2>3, <3>1, <3>2 DEF RoomTypes
    <2>10. QED
      BY <2>6, <2>7, <2>8, <2>9
  <1>4. CASE C!Redis
    <2>1. /\ pipe # <<>> /\ pipe' = Tail(pipe) /\ back' = Append(back, Head(pipe))
          /\ subs' = CASE Head(pipe).op = "sub" -> subs \cup Head(pipe).cs
                       [] Head(pipe).op = "unsub" -> subs \ Head(pipe).cs
                       [] OTHER -> subs
          /\ UNCHANGED <<call, queued, busy, batch, serial, chans, dropping>>
      BY <1>4 DEF C!Redis, C!queue, C!wait, C!client
    <2>2. pipe \in Seq(Command) /\ back \in Seq(Command) /\ serial \in Nat
      BY DEF RoomTypes
    <2>3. /\ Tail(pipe) \in Seq(Command) /\ DOMAIN pipe \subseteq Nat /\ DOMAIN Tail(pipe) \subseteq Nat
          /\ Head(pipe) = pipe[1] /\ Head(pipe) \in Command /\ 1 \in DOMAIN pipe
          /\ \A k \in DOMAIN Tail(pipe) : k + 1 \in DOMAIN pipe /\ Tail(pipe)[k] = pipe[k + 1]
      BY <2>1, <2>2, QueueTail
    <2> DEFINE m == Head(pipe)
    <2>4. /\ Append(back, m) \in Seq(Command) /\ DOMAIN back = 1 .. Len(back) /\ Len(back) \in Nat
          /\ DOMAIN Append(back, m) = 1 .. (Len(back) + 1) /\ Append(back, m)[Len(back) + 1] = m
          /\ \A k \in DOMAIN back : Append(back, m)[k] = back[k]
      BY <2>2, <2>3, QueueAppend
    <2>5. RoomTypes'
      <3>1. m.cs \subseteq Channel
        BY <2>3 DEF Command
      <3>2. subs' \subseteq Channel
        BY <2>1, <3>1 DEF RoomTypes
      <3>3. QED
        BY <2>1, <2>3, <2>4, <3>2 DEF RoomTypes
    <2>6. RoomBatch'
      BY <2>1 DEF RoomBatch
    <2>7. RoomLink'
      BY <2>1, <2>2, SubscribedTail DEF RoomLink
    <2>8. Numbered(pipe', serial) /\ Numbered(back', serial) /\ PingsLast(pipe', serial)
      <3>1. Numbered(pipe', serial)
        BY <2>1, <2>3 DEF RoomPings, Numbered
      <3>2. Numbered(back', serial)
        <4>1. pipe[1].n <= serial
          BY <2>3 DEF RoomPings, Numbered
        <4>2. ASSUME NEW k \in DOMAIN back'
              PROVE  back'[k].n <= serial
          <5>1. k \in DOMAIN back \/ k = Len(back) + 1
            BY <2>1, <2>4
          <5>2. QED
            BY <2>1, <2>3, <2>4, <4>1, <5>1 DEF RoomPings, Numbered
        <4>3. QED
          BY <4>2 DEF Numbered
      <3>3. PingsLast(pipe', serial)
        <4>1. ASSUME NEW i \in DOMAIN Tail(pipe), NEW k \in DOMAIN Tail(pipe), i < k,
                     Tail(pipe)[i].op = "ping", Tail(pipe)[i].n = serial
              PROVE  Tail(pipe)[k].op = "ping"
          <5>1. i + 1 < k + 1 /\ i + 1 \in DOMAIN pipe /\ k + 1 \in DOMAIN pipe
            BY <2>3, <4>1
          <5>2. QED
            BY <2>3, <4>1, <5>1 DEF RoomPings, PingsLast
        <4>2. QED
          BY <2>1, <4>1 DEF PingsLast
      <3>4. QED
        BY <3>1, <3>2, <3>3
    <2>9. ASSUME NEW i \in DOMAIN back', back'[i].op = "ping", back'[i].n = serial, NEW k \in DOMAIN pipe'
          PROVE  pipe'[k].op = "ping"
      <3>1. k + 1 \in DOMAIN pipe /\ pipe'[k] = pipe[k + 1] /\ 1 < k + 1
        BY <2>1, <2>3
      <3>2. CASE i \in DOMAIN back
        BY <2>1, <2>4, <2>9, <3>1, <3>2 DEF RoomPings
      <3>3. CASE i = Len(back) + 1
        BY <2>1, <2>3, <2>4, <2>9, <3>1, <3>3 DEF RoomPings, PingsLast
      <3>4. QED
        BY <2>1, <2>4, <3>2, <3>3
    <2>10. RoomPings'
      BY <2>1, <2>8, <2>9 DEF RoomPings
    <2>11. QED
      BY <2>5, <2>6, <2>7, <2>10
  <1>5. CASE C!ReadSubscribe
    <2>1. /\ back # <<>> /\ back' = Tail(back) /\ pipe' \in {pipe, Append(pipe, C!Ping(serial))}
          /\ UNCHANGED <<call, queued, busy, batch, serial, chans, dropping, subs>>
      BY <1>5 DEF C!ReadSubscribe, C!wait, C!client
    <2>2. pipe \in Seq(Command) /\ back \in Seq(Command) /\ serial \in Nat
      BY DEF RoomTypes
    <2>3. /\ Tail(back) \in Seq(Command)
          /\ \A k \in DOMAIN Tail(back) : k + 1 \in DOMAIN back /\ Tail(back)[k] = back[k + 1]
      BY <2>1, <2>2, QueueTail
    <2> DEFINE m == C!Ping(serial)
    <2>4. m \in Command /\ m.op = "ping" /\ m.n = serial
      BY <2>2 DEF C!Ping, Command
    <2> HIDE DEF m
    <2>5. /\ Append(pipe, m) \in Seq(Command) /\ DOMAIN pipe = 1 .. Len(pipe) /\ Len(pipe) \in Nat
          /\ DOMAIN Append(pipe, m) = 1 .. (Len(pipe) + 1) /\ Append(pipe, m)[Len(pipe) + 1] = m
          /\ \A k \in DOMAIN pipe : Append(pipe, m)[k] = pipe[k]
      BY <2>2, <2>4, QueueAppend
    <2>6. CASE pipe' = pipe
      BY <2>1, <2>3, <2>6 DEF RoomTypes, RoomBatch, RoomLink, RoomPings, Numbered
    <2>7. CASE pipe' = Append(pipe, m)
      <3>1. RoomTypes' /\ RoomBatch'
        BY <2>1, <2>3, <2>5, <2>7 DEF RoomTypes, RoomBatch
      <3>2. RoomLink'
        BY <2>1, <2>2, <2>4, <2>7, SubscribedAppend DEF RoomLink, Removes
      <3>3. RoomPings'
        <4> \A k \in DOMAIN pipe' : (k \in DOMAIN pipe /\ pipe'[k] = pipe[k]) \/ pipe'[k] = m
          BY <2>5, <2>7
        <4>1. Numbered(pipe', serial) /\ Numbered(back', serial)
          <5>1. Numbered(back', serial)
            BY <2>1, <2>3 DEF RoomPings, Numbered
          <5>2. Numbered(pipe', serial)
            BY <2>2, <2>4 DEF RoomPings, Numbered
          <5>3. QED
            BY <5>1, <5>2
        <4>2. PingsLast(pipe', serial)
          BY <2>4, <2>5, <2>7 DEF RoomPings, PingsLast
        <4>3. ASSUME NEW i \in DOMAIN back', back'[i].op = "ping", back'[i].n = serial,
                     NEW k \in DOMAIN pipe'
              PROVE  pipe'[k].op = "ping"
          <5>1. i + 1 \in DOMAIN back /\ back[i + 1].op = "ping" /\ back[i + 1].n = serial
            BY <2>1, <2>3, <4>3
          <5>2. QED
            BY <2>4, <4>3, <5>1 DEF RoomPings
        <4>4. QED
          BY <2>1, <4>1, <4>2, <4>3 DEF RoomPings
      <3>4. QED
        BY <3>1, <3>2, <3>3
    <2>8. QED
      BY <2>1, <2>6, <2>7 DEF m
  <1>6. CASE C!ReadUnsubscribe
    <2>1. /\ back # <<>> /\ back' = Tail(back) /\ dropping' \subseteq dropping
          /\ chans' \subseteq chans /\ chans \ dropping \subseteq chans' \ dropping'
          /\ chans' \ dropping' \subseteq chans \ dropping
          /\ UNCHANGED <<call, queued, busy, batch, serial, pipe, subs>>
      BY <1>6 DEF C!ReadUnsubscribe, C!queue, C!wait
    <2>2. back \in Seq(Command)
      BY DEF RoomTypes
    <2>3. /\ Tail(back) \in Seq(Command)
          /\ \A k \in DOMAIN Tail(back) : k + 1 \in DOMAIN back /\ Tail(back)[k] = back[k + 1]
      BY <2>1, <2>2, QueueTail
    <2>4. RoomTypes' /\ RoomBatch'
      BY <2>1, <2>3 DEF RoomTypes, RoomBatch
    <2>5. RoomPings' /\ RoomLink'
      BY <2>1, <2>3 DEF RoomPings, RoomLink, Numbered
    <2>6. QED
      BY <2>4, <2>5
  <1>7. CASE C!ReadPong
    <2>1. /\ back # <<>> /\ back' = Tail(back)
          /\ UNCHANGED <<queued, serial, chans, dropping, pipe, subs>>
          /\ \/ UNCHANGED <<call, batch, busy>>
             \/ call' = C!Released /\ batch' = {} /\ busy' = FALSE
      BY <1>7 DEF C!ReadPong, C!queue, C!client
    <2>2. back \in Seq(Command)
      BY DEF RoomTypes
    <2>3. /\ Tail(back) \in Seq(Command)
          /\ \A k \in DOMAIN Tail(back) : k + 1 \in DOMAIN back /\ Tail(back)[k] = back[k + 1]
      BY <2>1, <2>2, QueueTail
    <2>4. RoomTypes' /\ RoomBatch'
      <3>1. CASE UNCHANGED <<call, batch, busy>>
        BY <2>1, <2>3, <3>1 DEF RoomTypes, RoomBatch
      <3>2. CASE call' = C!Released /\ batch' = {} /\ busy' = FALSE
        BY <2>1, <2>3, <3>2 DEF RoomTypes, RoomBatch, C!Released
      <3>3. QED
        BY <2>1, <3>1, <3>2
    <2>5. RoomPings' /\ RoomLink'
      BY <2>1, <2>3 DEF RoomPings, RoomLink, Numbered
    <2>6. QED
      BY <2>4, <2>5
  <1>8. ASSUME NEW cs \in SUBSET Channel, pipe' = <<C!Sub(cs)>>, back' = <<>>, chans' = cs, dropping' = {},
               serial' \in Nat
        PROVE  RoomPings' /\ RoomLink' /\ pipe' \in Seq(Command) /\ back' \in Seq(Command)
    <2> DEFINE m == C!Sub(cs)
    <2>1. m \in Command /\ m.op = "sub" /\ m.cs = cs /\ m.n = 0
      BY DEF C!Sub, Command
    <2> HIDE DEF m
    <2>2. pipe' = <<m>>
      BY <1>8 DEF m
    <2>3. DOMAIN pipe' = {1} /\ pipe'[1] = m /\ DOMAIN back' = {}
      BY <1>8, <2>2
    <2>4. RoomPings'
      BY <1>8, <2>1, <2>3 DEF RoomPings, Numbered, PingsLast
    <2>5. RoomLink'
      BY <1>8, <2>1, <2>3 DEF RoomLink, Subscribed, Removes
    <2>6. QED
      BY <1>8, <2>1, <2>2, <2>4, <2>5
  <1>9. CASE C!Reconnect
    <2>1. RoomPings' /\ RoomLink' /\ pipe' \in Seq(Command) /\ back' \in Seq(Command)
      BY <1>8, <1>9 DEF C!Reconnect, C!wait, RoomTypes
    <2>2. RoomTypes' /\ RoomBatch'
      BY <1>9, <2>1 DEF C!Reconnect, C!queue, C!wait, RoomTypes, RoomBatch
    <2>3. QED
      BY <2>1, <2>2
  <1>10. CASE C!Retry
    <2>1. {Main} \in SUBSET Channel
      BY DEF Channel
    <2>2. RoomPings' /\ RoomLink' /\ pipe' \in Seq(Command) /\ back' \in Seq(Command)
      BY <1>8, <1>10, <2>1 DEF C!Retry
    <2>3. RoomTypes' /\ RoomBatch'
      BY <1>10, <2>1, <2>2 DEF C!Retry, RoomTypes, RoomBatch
    <2>4. QED
      BY <2>2, <2>3
  <1>11. CASE UNCHANGED C!vars
    BY <1>11 DEF C!vars, C!queue, C!wait, C!client, C!link, RoomTypes, RoomBatch, RoomPings,
           RoomLink
  <1>12. QED
    BY <1>1, <1>2, <1>3, <1>4, <1>5, <1>6, <1>7, <1>9, <1>10, <1>11 DEF C!Next, C!Listener

(* RoomInv is an invariant of the channels of a worker. *)
THEOREM RoomsInv == C!Spec => []RoomInv
  BY RoomInit, RoomNext, PTL DEF C!Spec

(* _listen_to_rooms: "PONG confirms Redis processed the subscriptions before  *)
(* a join returns", for any joins and leaves, any reconnects inside redis-py  *)
(* and any errors of the listener.                                            *)
THEOREM RoomsJoinSubscribed == C!Spec => [][C!JoinSubscribed]_C!vars
  <1>1. RoomInv /\ [C!Next]_C!vars => [C!JoinSubscribed]_C!vars
    <2> SUFFICES ASSUME RoomInv, C!Next,
                        NEW j \in Joiners, call[j].at = "wait", call'[j].at = "in"
                 PROVE  call[j].room \in subs
      BY DEF C!JoinSubscribed
    <2> USE DEF RoomInv
    <2>1. ASSUME NEW i \in Joiners, NEW r \in Rooms, C!EnterRoom(i, r)
          PROVE  FALSE
      BY <2>1 DEF C!EnterRoom, RoomTypes
    <2>2. ASSUME NEW i \in Joiners, C!LeaveRoom(i)
          PROVE  FALSE
      BY <2>2 DEF C!LeaveRoom, RoomTypes
    <2>3. C!Listener \/ C!Redis \/ C!Reconnect \/ C!Retry
      BY <2>1, <2>2 DEF C!Next
    <2>4. call' # call
      OBVIOUS
    <2>5. C!ReadPong
      BY <2>3, <2>4 DEF C!Listener, C!SyncRooms, C!ReadSubscribe, C!ReadUnsubscribe, C!Redis,
             C!Reconnect,
           C!Retry
    <2>6. j \in batch /\ back # <<>> /\ Head(back).op = "ping" /\ Head(back).n = serial
      BY <2>4, <2>5 DEF C!ReadPong, C!Released, RoomTypes
    <2>7. 1 \in DOMAIN back /\ Head(back) = back[1]
      BY <2>6, QueueTail DEF RoomTypes
    <2>8. \A k \in DOMAIN pipe : pipe[k].op = "ping"
      BY <2>6, <2>7 DEF RoomPings
    <2>9. Subscribed(pipe, subs, call[j].room)
      BY <2>6 DEF RoomBatch, RoomLink
    <2>10. QED
      BY <2>8, <2>9 DEF Subscribed
  <1>2. QED
    BY <1>1, RoomsInv, PTL DEF C!Spec

-----------------------------------------------------------------------------
S == INSTANCE ResponseStream

(* The copy of a reply in progress.                                        *)

Copied == value.n + Len(value.app)

(* While the writer knows the length of the value, the copy has all deltas   *)
(* but the one that is about to be appended.                                 *)
StreamInv ==
    /\ out \in Seq(Lens) /\ late = {}
    /\ value # None =>
          /\ value.n \in Nat /\ value.app \in Seq(Nat)
          /\ \A k \in 1 .. Len(value.app) : value.app[k] = value.n + k
          /\ Copied <= Len(out)
    /\ pc = "append" => streamSize # 0
    /\ value # None /\ streamSize # 0 =>
          IF pc = "append" THEN Copied + 1 = Len(out) ELSE Copied = Len(out)

LEMMA StreamInit == S!Init => StreamInv
  BY DEF S!Init, StreamInv, Copied

(* An append that fits adds the delta that is missing, at its place. *)
LEMMA StreamAppends ==
  ASSUME StreamInv, pc = "append", S!AppendTo(streamSize, Len(out), S!Line(Len(out))), out' = out,
         value # None, value' # value
  PROVE  /\ value' # None => value'.n \in Nat /\ value'.app \in Seq(Nat)
         /\ value' # None => \A k \in 1 .. Len(value'.app) : value'.app[k] = value'.n + k
         /\ value' # None => Copied' = Len(out)
  <1>1. value' = [n |-> value.n, app |-> Append(value.app, Len(out))]
    BY DEF S!AppendTo
  <1>2. value.n \in Nat /\ value.app \in Seq(Nat) /\ Len(out) \in Nat /\ Copied + 1 = Len(out)
    BY DEF StreamInv
  <1>3. /\ value'.n = value.n
        /\ value'.app = Append(value.app, Len(out))
    BY <1>1
  <1>4. /\ value'.app \in Seq(Nat) /\ Len(value'.app) = Len(value.app) + 1
        /\ \A k \in 1 .. Len(value.app) : value'.app[k] = value.app[k]
        /\ value'.app[Len(value.app) + 1] = Len(out)
    BY <1>2, <1>3
  <1>5. \A k \in 1 .. Len(value.app) : value.app[k] = value.n + k
    BY DEF StreamInv
  <1>6. Copied' = Len(out)
    BY <1>2, <1>3, <1>4 DEF Copied
  <1>7. ASSUME NEW k \in 1 .. Len(value'.app)
        PROVE  value'.app[k] = value'.n + k
    <2>1. CASE k = Len(value.app) + 1
      <3>1. value'.app[k] = Len(out)
        BY <1>4, <2>1
      <3>2. Len(value.app) \in Nat /\ value.n + Len(value.app) + 1 = Len(out)
        BY <1>2 DEF Copied
      <3>3. QED
        BY <1>2, <1>3, <2>1, <3>1, <3>2
    <2>2. CASE k # Len(value.app) + 1
      <3>1. k \in 1 .. Len(value.app)
        BY <1>2, <1>4, <2>2
      <3>2. QED
        BY <1>3, <1>4, <1>5, <3>1
    <2>3. QED
      BY <2>1, <2>2
  <1>8. QED
    BY <1>2, <1>3, <1>4, <1>6, <1>7

(* Every step keeps StreamInv when no command is executed late. *)
LEMMA StreamNext ==
  ASSUME MaxLate = 0, StreamInv, [S!Next]_S!vars
  PROVE  StreamInv'
  <1>1. CASE \E d \in Lens : S!Delta(d)
    BY <1>1 DEF StreamInv, Copied, S!Delta
  <1>2. CASE S!Event
    BY <1>2 DEF StreamInv, Copied, S!Event
  <1>3. CASE S!AppendDelta
    BY <1>3, StreamAppends DEF StreamInv, Copied, S!AppendDelta, S!AppendTo, S!Fits
  <1>4. CASE S!AppendUnanswered
    BY <1>4, StreamAppends DEF StreamInv, Copied, S!AppendUnanswered, S!AppendTo, S!Fits
  <1>5. CASE S!AppendFails
    <2>1. late' = {}
      <3>0. S!Cardinality(late) = Cardinality(late)
        BY DEF S!Cardinality, Cardinality, S!IsFiniteSet, IsFiniteSet
      <3>1. S!Cardinality(late) = 0 /\ late = {}
        BY <3>0, FS_EmptySet DEF StreamInv
      <3> DEFINE room == {1} \cap 1 .. MaxLate - S!Cardinality(late)
                 cmd == [size |-> streamSize, i |-> Len(out), len |-> S!Line(Len(out))]
      <3>2. \A x : x \notin room
        BY <3>1
      <3>3. late' \in {late} \cup {late \cup {cmd} : x \in room}
        BY <1>5 DEF S!AppendFails
      <3> HIDE DEF room, cmd
      <3>4. QED
        BY <3>1, <3>2, <3>3
    <2>2. QED
      BY <1>5, <2>1 DEF StreamInv, Copied, S!AppendFails
  <1>6. CASE S!AppendLate
    BY <1>6 DEF StreamInv, S!AppendLate
  <1>7. CASE S!EndChunk
    <2>1. CASE streamSize # 0
      BY <1>7, <2>1 DEF StreamInv, Copied, S!EndChunk
    <2>2. CASE streamSize = 0
      <3>1. value' = [n |-> Len(out), app |-> <<>>]
        BY <1>7, <2>2 DEF S!EndChunk, S!Snapshot
      <3>2. value'.n = Len(out) /\ value'.app = <<>> /\ Len(out) \in Nat
        BY <3>1 DEF StreamInv
      <3>3. Copied' = Len(out) /\ value'.app \in Seq(Nat) /\ Len(value'.app) = 0
        BY <3>2 DEF Copied
      <3>4. QED
        BY <1>7, <3>2, <3>3 DEF StreamInv, S!EndChunk
    <2>3. QED
      BY <2>1, <2>2
  <1>8. CASE S!SaveFails
    BY <1>8 DEF StreamInv, Copied, S!SaveFails
  <1>9. CASE S!Expire
    BY <1>9 DEF StreamInv, Copied, S!Expire
  <1>10. CASE S!Clear
    BY <1>10 DEF StreamInv, Copied, S!Clear
  <1>11. CASE UNCHANGED S!vars
    BY <1>11 DEF StreamInv, Copied, S!vars
  <1>12. QED
    BY <1>1, <1>2, <1>3, <1>4, <1>5, <1>6, <1>7, <1>8, <1>9, <1>10, <1>11 DEF S!Next

(* append_response_stream and save_response_stream: whoever loads the value   *)
(* gets a prefix of the reply, for any lengths of deltas, snapshots and       *)
(* lines, although commands fail, go unanswered or the value expires.  A      *)
(* command that the server executes after the writer gave it up is excluded:  *)
(* the lengths may then agree by chance.                                      *)
THEOREM StreamReadsPrefix ==
  ASSUME MaxLate = 0
  PROVE  S!Spec => []S!ReadsPrefix
  <1>1. StreamInv /\ [S!Next]_S!vars => StreamInv'
    BY StreamNext
  <1>2. StreamInv => S!ReadsPrefix
    BY DEF StreamInv, Copied, S!ReadsPrefix
  <1>3. QED
    BY <1>1, <1>2, StreamInit, PTL DEF S!Spec

(* Between chunks the copy is not behind the reply, unless it has expired or  *)
(* the writer knows that a snapshot is due.                                   *)
THEOREM StreamUpToDate ==
  ASSUME MaxLate = 0
  PROVE  S!Spec => []S!UpToDate
  <1>1. StreamInv /\ [S!Next]_S!vars => StreamInv'
    BY StreamNext
  <1>2. StreamInv => S!UpToDate
    BY DEF StreamInv, Copied, S!UpToDate
  <1>3. QED
    BY <1>1, <1>2, StreamInit, PTL DEF S!Spec
=============================================================================
