-------------------------- MODULE Subagents_proofs --------------------------
(* Proofs about Subagents, for every set of delegations, every limit of    *)
(* slots and every number of turns, cancellations and faults.              *)
EXTENDS Subagents, FiniteSetTheorems, TLAPS

(* What the provers may take for a step, on a busy machine. *)
USE ZenonT(3), SMTT(30), ZenonT(30)

(* So far, neither a cancellation before the first step of a task nor a    *)
(* write to Redis that failed: what gives a slot back never or twice.      *)
NoAborts == aborts = 0 /\ errors = 0

(* So far, the completion handler accepted every turn. *)
NoRefusals == refused = 0

Holding(m) == {d \in Jobs : mode[d] = m /\ job[d] \in {"creating", "created", "running"}}

(* The types of the delegations, the slots, the results, the turns, the    *)
(* calls and the counters.                                                 *)
JobTypes ==
    /\ job \in [Jobs -> {"idle", "refused", "queued", "creating", "created", "running", "failed",
                         "aborted", "result", "added", "done"}]
    /\ mode \in [Jobs -> {None, "background", "foreground"}] /\ owner \in [Jobs -> 0..MaxTurns]
SlotTypes == active \subseteq Jobs /\ permits \in Nat
ResultTypes ==
    /\ at \in [Jobs -> 0..MaxTurns] /\ pend \subseteq Jobs /\ before \in [Jobs -> SUBSET Jobs]
    /\ alive \in BOOLEAN
TurnTypes ==
    /\ turn \in [Turns -> {"no", "running", "ended", "done"}] /\ from \in [Turns -> SUBSET Jobs]
    /\ made \in Turns /\ last \in 0..MaxTurns
CallTypes ==
    /\ proc \in [Callers -> {"no", "wait", "idle", "in", "taken"}]
    /\ next \in [Callers -> 0..MaxTurns] /\ lock \in Callers \cup {None}
BoundTypes == aborts \in 0..MaxAborts /\ errors \in 0..MaxErrors /\ refused \in 0..MaxRefused
Types == JobTypes /\ SlotTypes /\ ResultTypes /\ TurnTypes /\ CallTypes /\ BoundTypes

(* A delegation that was made has a mode, and waits only in the foreground. *)
ModeInv ==
    \A d \in Jobs : job[d] # "idle" =>
        /\ mode[d] \in {"background", "foreground"}
        /\ (job[d] = "queued" => mode[d] = "foreground")

(* The slots that are taken are those of delegations that hold one. *)
SlotInv ==
    /\ Cardinality(active) <= MaxAsync
    /\ NoAborts =>
         /\ active = Holding("background")
         /\ permits + Cardinality(Holding("foreground")) = MaxConcurrent

(* A result that waits or is answered was put into the history. *)
ResultInv ==
    /\ \A d \in Jobs : (d \in pend \/ \E t \in Turns : d \in from[t]) => job[d] \in {"added", "done"}
    /\ \A t \in Turns : t > made => from[t] = {} /\ turn[t] = "no"

(* It waits, or it is in one turn. *)
OnceInv ==
    \A d \in Jobs :
        /\ d \in pend => \A t \in Turns : d \notin from[t]
        /\ \A t, u \in Turns : d \in from[t] /\ d \in from[u] => t = u

(* Only a delegation or a turn that has ended looks for results. *)
CallInv ==
    /\ \A d \in Jobs : proc[d] # "no" => job[d] = "done"
    /\ \A t \in Turns : proc[t] # "no" => turn[t] = "done"

(* The lock of the chat is held from the second look to the start of the   *)
(* turn, whose reply exists by then and does not run yet.                  *)
LockInv ==
    \A x \in Callers :
        /\ proc[x] \in {"in", "taken"} => lock = x
        /\ proc[x] = "taken" => next[x] \in Turns /\ turn[next[x]] = "no" /\ next[x] <= made

(* While a result waits, somebody who will look for it is under way. *)
WaitInv ==
    (NoRefusals /\ alive /\ pend # {}) =>
        \/ \E t \in Turns : turn[t] \in {"running", "ended"}
        \/ \E x \in Callers : proc[x] # "no"
        \/ \E d \in Jobs : job[d] = "added"

(* A reply that was begun and does not run yet is about to. *)
BegunInv ==
    (NoRefusals /\ alive) =>
        \A t \in Turns : (t <= made /\ turn[t] = "no") =>
            \E x \in Callers : proc[x] = "taken" /\ next[x] = t

(* The inductive invariant. *)
IInv ==
    /\ Types /\ ModeInv /\ SlotInv /\ ResultInv /\ OnceInv
    /\ CallInv /\ LockInv /\ WaitInv /\ BegunInv

-----------------------------------------------------------------------------
(* What taking and giving back a slot does to those that hold one. *)
LEMMA HoldMore ==
    ASSUME SubagentsAssumption, Types, NEW d \in Jobs, NEW m \in {"background", "foreground"},
           d \notin Holding(m),
           mode'[d] = m, job'[d] = "creating",
           \A e \in Jobs : e # d => mode'[e] = mode[e] /\ job'[e] = job[e],
           job[d] \in {"idle", "queued"}
    PROVE  /\ Holding(m)' = Holding(m) \cup {d}
           /\ \A n \in {"background", "foreground"} : n # m => Holding(n)' = Holding(n)
           /\ Cardinality(Holding(m)') = Cardinality(Holding(m)) + 1
<1>1. Holding(m)' = Holding(m) \cup {d}
  BY DEF Holding
<1>2. ASSUME NEW n \in {"background", "foreground"}, n # m PROVE Holding(n)' = Holding(n)
  BY <1>2 DEF Holding
<1>3. IsFiniteSet(Holding(m))
  BY FS_Subset DEF Holding, SubagentsAssumption
<1> QED
  BY <1>1, <1>2, <1>3, FS_AddElement

LEMMA HoldLess ==
    ASSUME SubagentsAssumption, Types, NEW d \in Jobs, NEW m \in {"background", "foreground"},
           d \in Holding(m), mode' = mode,
           job'[d] \notin {"creating", "created", "running"},
           \A e \in Jobs : e # d => job'[e] = job[e]
    PROVE  /\ Holding(m)' = Holding(m) \ {d}
           /\ \A n \in {"background", "foreground"} : n # m => Holding(n)' = Holding(n)
           /\ Cardinality(Holding(m)') = Cardinality(Holding(m)) - 1
           /\ Cardinality(Holding(m)) \in Nat /\ Cardinality(Holding(m)') \in Nat
<1>1. Holding(m)' = Holding(m) \ {d}
  BY DEF Holding
<1>2. ASSUME NEW n \in {"background", "foreground"}, n # m PROVE Holding(n)' = Holding(n)
  BY <1>2 DEF Holding
<1>3. IsFiniteSet(Holding(m))
  BY FS_Subset DEF Holding, SubagentsAssumption
<1> QED
  BY <1>1, <1>2, <1>3, FS_RemoveElement, FS_CardinalityType, FS_Subset

(* The turn after the one that was made last. *)
Succession(m) ==
    /\ m + 1 > m /\ m + 1 <= m + 1 /\ (m < MaxTurns => m + 1 \in Turns)
    /\ \A t \in Turns : /\ t \in 0..MaxTurns
                        /\ t > m + 1 => t > m /\ t # m + 1
                        /\ t <= m + 1 => t <= m \/ t = m + 1
                        /\ t <= m => t # m + 1 /\ t <= m + 1

LEMMA NextTurn ==
    ASSUME SubagentsAssumption, NEW m \in Turns
    PROVE  Succession(m)
  BY DEF SubagentsAssumption, Turns, Succession

LEMMA IInvSuccession == SubagentsAssumption /\ IInv => Succession(made)
  BY NextTurn DEF IInv, Types, TurnTypes

(* A delegation that goes on before its result exists leaves the chat and  *)
(* those that look for results alone.                                      *)
LEMMA QuietStep ==
    ASSUME SubagentsAssumption, IInv, NEW d \in Jobs, job[d] \notin {"added", "done"},
           NEW l, job' = [job EXCEPT ![d] = l], UNCHANGED <<chat, calls, refused>>
    PROVE  ResultInv' /\ OnceInv' /\ CallInv' /\ LockInv' /\ WaitInv' /\ BegunInv'
<1> USE DEF chat, calls
<1>1. ResultInv'
  BY DEF IInv, Types, JobTypes, ResultTypes, TurnTypes, ResultInv
<1>2. OnceInv' /\ LockInv' /\ BegunInv'
  BY DEF IInv, OnceInv, LockInv, BegunInv, NoRefusals
<1>3. CallInv'
  BY DEF IInv, Types, JobTypes, TurnTypes, CallTypes, CallInv
<1>4. WaitInv'
  BY DEF IInv, Types, JobTypes, ResultTypes, TurnTypes, CallTypes, BoundTypes, WaitInv, NoRefusals
<1> QED
  BY <1>1, <1>2, <1>3, <1>4

(* Release gives one slot back, of a delegation that ends with it. *)
LEMMA ReleaseStep ==
    ASSUME SubagentsAssumption, IInv, NEW d \in Jobs,
           job[d] \in {"creating", "created", "running"}, Release(d), mode' = mode,
           UNCHANGED <<aborts, errors>>,
           job' \in [Jobs -> {"idle", "refused", "queued", "creating", "created", "running",
                              "failed", "aborted", "result", "added", "done"}],
           job'[d] \notin {"creating", "created", "running"},
           \A e \in Jobs : e # d => job'[e] = job[e]
    PROVE  SlotInv' /\ active' \subseteq Jobs /\ permits' \in Nat
<1>1. mode[d] \in {"background", "foreground"} /\ d \in Holding(mode[d])
  BY DEF IInv, ModeInv, Holding
<1>2. active' \subseteq active /\ IsFiniteSet(active)
  BY FS_Subset DEF Release, IInv, Types, SlotTypes, SubagentsAssumption
<1>3. Cardinality(active') <= MaxAsync
  BY <1>2, FS_Subset, FS_CardinalityType DEF IInv, SlotInv, SubagentsAssumption
<1>4. active' \subseteq Jobs /\ permits' \in Nat
  BY DEF Release, IInv, Types, SlotTypes
<1>5. ASSUME NoAborts
      PROVE  /\ active' = Holding("background")'
             /\ permits' + Cardinality(Holding("foreground")') = MaxConcurrent
  <2>1. CASE mode[d] = "background"
    BY <1>1, <1>5, <2>1, HoldLess DEF Release, IInv, SlotInv
  <2>2. CASE mode[d] = "foreground"
    BY <1>1, <1>5, <2>2, HoldLess DEF Release, IInv, SlotInv, Types, SlotTypes, JobTypes, BoundTypes
  <2> QED
    BY <1>1, <2>1, <2>2
<1> QED
  BY <1>3, <1>4, <1>5 DEF SlotInv, NoAborts

-----------------------------------------------------------------------------
LEMMA InitIInv == SubagentsAssumption /\ Init => IInv
<1> SUFFICES ASSUME SubagentsAssumption, Init PROVE IInv
  OBVIOUS
<1>1. Types
  BY DEF Types, JobTypes, SlotTypes, ResultTypes, TurnTypes, CallTypes, BoundTypes,
     SubagentsAssumption, Init, Turns, Callers
<1>2. ModeInv /\ ResultInv /\ OnceInv /\ CallInv /\ LockInv /\ WaitInv /\ BegunInv
  BY DEF SubagentsAssumption, Init, Turns, Callers, ModeInv, ResultInv, OnceInv, CallInv,
     LockInv, WaitInv, BegunInv
<1>3. SlotInv
  <2>1. active = {} /\ Holding("background") = {} /\ Holding("foreground") = {}
    BY DEF Init, Holding
  <2>2. permits = MaxConcurrent /\ MaxConcurrent \in Nat /\ MaxAsync \in Nat
    BY DEF Init, SubagentsAssumption
  <2>3. Cardinality({}) = 0
    BY FS_EmptySet
  <2> QED
    BY <2>1, <2>2, <2>3 DEF SlotInv
<1> QED
  BY <1>1, <1>2, <1>3 DEF IInv

(* delegate, up to the point where the delegation has a slot. *)
LEMMA DelegateIInv ==
    ASSUME SubagentsAssumption, IInv, NEW d \in Jobs,
           \/ \E t \in 1..MaxDelegating : DelegateBackground(d, t) \/ DelegateForeground(d, t)
           \/ Acquire(d) \/ GiveUp(d)
    PROVE  IInv'
<1>1. ASSUME NEW t \in 1..MaxDelegating, DelegateBackground(d, t) PROVE IInv'
  <2>1. IsFiniteSet(active) /\ d \notin Holding("background") /\ t \in 0..MaxTurns
    BY <1>1, FS_Subset DEF DelegateBackground, IInv, Types, JobTypes, SlotTypes,
       SubagentsAssumption, Holding
  <2>2. Types'
    <3>1. JobTypes'
      BY <1>1, <2>1 DEF DelegateBackground, IInv, Types, JobTypes, chat, calls, bounds
    <3>2. SlotTypes'
      BY <1>1, <2>1 DEF DelegateBackground, IInv, Types, SlotTypes, chat, calls, bounds
    <3>3. ResultTypes'
      BY <1>1, <2>1 DEF DelegateBackground, IInv, Types, ResultTypes, chat, calls, bounds
    <3>4. TurnTypes'
      BY <1>1, <2>1 DEF DelegateBackground, IInv, Types, TurnTypes, chat, calls, bounds
    <3>5. CallTypes'
      BY <1>1, <2>1 DEF DelegateBackground, IInv, Types, CallTypes, chat, calls, bounds
    <3>6. BoundTypes'
      BY <1>1, <2>1 DEF DelegateBackground, IInv, Types, BoundTypes, chat, calls, bounds
    <3> QED
      BY <3>1, <3>2, <3>3, <3>4, <3>5, <3>6 DEF Types
  <2>3. ModeInv'
    BY <1>1 DEF DelegateBackground, IInv, Types, JobTypes, ModeInv
  <2>4. SlotInv'
    <3>1. CASE Cardinality(active) >= MaxAsync
      <4>1. Holding("background")' = Holding("background") /\ Holding("foreground")' = Holding("foreground")
        BY <1>1, <3>1 DEF DelegateBackground, IInv, Types, JobTypes, Holding
      <4> QED
        BY <1>1, <3>1, <4>1 DEF DelegateBackground, IInv, SlotInv, NoAborts, bounds
    <3>2. CASE ~(Cardinality(active) >= MaxAsync)
      <4>1. /\ Holding("background")' = Holding("background") \cup {d}
            /\ Holding("foreground")' = Holding("foreground")
        BY <1>1, <2>1, <3>2, HoldMore DEF DelegateBackground, IInv, Types, JobTypes
      <4>2. Cardinality(active') <= MaxAsync
        <5>1. active' = active \cup {d}
          BY <1>1, <3>2 DEF DelegateBackground
        <5>2. Cardinality(active) \in Nat
          BY <2>1, FS_CardinalityType
        <5>3. Cardinality(active') = IF d \in active THEN Cardinality(active) ELSE Cardinality(active) + 1
          BY <2>1, <5>1, FS_AddElement
        <5> QED
          BY <3>2, <5>2, <5>3 DEF SubagentsAssumption
      <4> QED
        BY <1>1, <3>2, <4>1, <4>2 DEF DelegateBackground, IInv, SlotInv, NoAborts, bounds
    <3> QED
      BY <3>1, <3>2
  <2>5. ResultInv' /\ OnceInv' /\ CallInv' /\ LockInv' /\ WaitInv' /\ BegunInv'
    <3>1. job[d] \notin {"added", "done"} /\ UNCHANGED <<chat, calls, refused>>
      BY <1>1 DEF DelegateBackground, bounds
    <3>2. \E l : job' = [job EXCEPT ![d] = l]
      BY <1>1 DEF DelegateBackground
    <3> QED
      BY <3>1, <3>2, QuietStep
  <2> QED
    BY <2>2, <2>3, <2>4, <2>5 DEF IInv
<1>2. ASSUME NEW t \in 1..MaxDelegating, DelegateForeground(d, t) PROVE IInv'
  <2>1. Types'
    <3>1. JobTypes'
      BY <1>2 DEF DelegateForeground, IInv, Types, JobTypes, slots, chat, calls, bounds,
         SubagentsAssumption
    <3>2. SlotTypes'
      BY <1>2 DEF DelegateForeground, IInv, Types, SlotTypes, slots, chat, calls, bounds,
         SubagentsAssumption
    <3>3. ResultTypes'
      BY <1>2 DEF DelegateForeground, IInv, Types, ResultTypes, slots, chat, calls, bounds,
         SubagentsAssumption
    <3>4. TurnTypes'
      BY <1>2 DEF DelegateForeground, IInv, Types, TurnTypes, slots, chat, calls, bounds,
         SubagentsAssumption
    <3>5. CallTypes'
      BY <1>2 DEF DelegateForeground, IInv, Types, CallTypes, slots, chat, calls, bounds,
         SubagentsAssumption
    <3>6. BoundTypes'
      BY <1>2 DEF DelegateForeground, IInv, Types, BoundTypes, slots, chat, calls, bounds,
         SubagentsAssumption
    <3> QED
      BY <3>1, <3>2, <3>3, <3>4, <3>5, <3>6 DEF Types
  <2>2. ModeInv'
    BY <1>2 DEF DelegateForeground, IInv, Types, JobTypes, ModeInv
  <2>3. SlotInv'
    <3>1. Holding("background")' = Holding("background") /\ Holding("foreground")' = Holding("foreground")
      BY <1>2 DEF DelegateForeground, IInv, Types, JobTypes, Holding
    <3> QED
      BY <1>2, <3>1 DEF DelegateForeground, IInv, SlotInv, NoAborts, slots, bounds
  <2>4. ResultInv' /\ OnceInv' /\ CallInv' /\ LockInv' /\ WaitInv' /\ BegunInv'
    BY <1>2, QuietStep DEF DelegateForeground, bounds
  <2> QED
    BY <2>1, <2>2, <2>3, <2>4 DEF IInv
<1>3. ASSUME Acquire(d) PROVE IInv'
  <2>1. Types'
    <3>1. JobTypes'
      BY <1>3 DEF Acquire, IInv, Types, JobTypes, chat, calls, bounds
    <3>2. SlotTypes'
      BY <1>3 DEF Acquire, IInv, Types, SlotTypes, chat, calls, bounds
    <3>3. ResultTypes'
      BY <1>3 DEF Acquire, IInv, Types, ResultTypes, chat, calls, bounds
    <3>4. TurnTypes'
      BY <1>3 DEF Acquire, IInv, Types, TurnTypes, chat, calls, bounds
    <3>5. CallTypes'
      BY <1>3 DEF Acquire, IInv, Types, CallTypes, chat, calls, bounds
    <3>6. BoundTypes'
      BY <1>3 DEF Acquire, IInv, Types, BoundTypes, chat, calls, bounds
    <3> QED
      BY <3>1, <3>2, <3>3, <3>4, <3>5, <3>6 DEF Types
  <2>2. ModeInv'
    BY <1>3 DEF Acquire, IInv, Types, JobTypes, ModeInv
  <2>3. SlotInv'
    <3>1. mode[d] = "foreground" /\ d \notin Holding("foreground")
      BY <1>3 DEF Acquire, IInv, ModeInv, Holding
    <3>2. /\ Holding("background")' = Holding("background")
          /\ Cardinality(Holding("foreground")') = Cardinality(Holding("foreground")) + 1
      BY <1>3, <3>1, HoldMore DEF Acquire, IInv, Types, JobTypes
    <3>3. Cardinality(Holding("foreground")) \in Nat
      BY FS_Subset, FS_CardinalityType DEF Holding, SubagentsAssumption
    <3> QED
      BY <1>3, <3>2, <3>3 DEF Acquire, IInv, Types, JobTypes, SlotTypes, BoundTypes, SlotInv,
         NoAborts, bounds
  <2>4. ResultInv' /\ OnceInv' /\ CallInv' /\ LockInv' /\ WaitInv' /\ BegunInv'
    BY <1>3, QuietStep DEF Acquire, bounds
  <2> QED
    BY <2>1, <2>2, <2>3, <2>4 DEF IInv
<1>4. ASSUME GiveUp(d) PROVE IInv'
  <2>1. Types'
    <3>1. JobTypes'
      BY <1>4 DEF GiveUp, IInv, Types, JobTypes, slots, chat, calls
    <3>2. SlotTypes'
      BY <1>4 DEF GiveUp, IInv, Types, SlotTypes, slots, chat, calls
    <3>3. ResultTypes'
      BY <1>4 DEF GiveUp, IInv, Types, ResultTypes, slots, chat, calls
    <3>4. TurnTypes'
      BY <1>4 DEF GiveUp, IInv, Types, TurnTypes, slots, chat, calls
    <3>5. CallTypes'
      BY <1>4 DEF GiveUp, IInv, Types, CallTypes, slots, chat, calls
    <3>6. BoundTypes'
      BY <1>4 DEF GiveUp, IInv, Types, BoundTypes, slots, chat, calls
    <3> QED
      BY <3>1, <3>2, <3>3, <3>4, <3>5, <3>6 DEF Types
  <2>2. ModeInv'
    BY <1>4 DEF GiveUp, IInv, Types, JobTypes, ModeInv
  <2>3. SlotInv'
    <3>1. Holding("background")' = Holding("background") /\ Holding("foreground")' = Holding("foreground")
      BY <1>4 DEF GiveUp, IInv, Types, JobTypes, Holding
    <3> QED
      BY <1>4, <3>1 DEF GiveUp, IInv, SlotInv, NoAborts, slots
  <2>4. ResultInv' /\ OnceInv' /\ CallInv' /\ LockInv' /\ WaitInv' /\ BegunInv'
    BY <1>4, QuietStep DEF GiveUp
  <2> QED
    BY <2>1, <2>2, <2>3, <2>4 DEF IInv
<1> QED
  BY <1>1, <1>2, <1>3, <1>4

(* The delegation ends, with its slot given back: its chat cannot be made, *)
(* or run_reserved returns or is cancelled.                                *)
LEMMA EndIInv ==
    ASSUME SubagentsAssumption, IInv, NEW d \in Jobs, CreateFails(d) \/ Finish(d) \/ Stop(d)
    PROVE  IInv'
<1>1. PICK l \in {"failed", "result", "done"} : job' = [job EXCEPT ![d] = l]
  BY DEF CreateFails, Finish, Stop, After
<1>2. /\ job[d] \in {"creating", "created", "running"} /\ Release(d)
      /\ UNCHANGED <<mode, owner, chat, calls, aborts, errors, refused>>
  BY DEF CreateFails, Finish, Stop, bounds
<1>3. job' \in [Jobs -> {"idle", "refused", "queued", "creating", "created", "running",
                         "failed", "aborted", "result", "added", "done"}]
  BY <1>1 DEF IInv, Types, JobTypes, SlotTypes, ResultTypes, TurnTypes, CallTypes, BoundTypes
<1>4. SlotInv' /\ active' \subseteq Jobs /\ permits' \in Nat
  <2>1. job'[d] \notin {"creating", "created", "running"} /\ \A e \in Jobs : e # d => job'[e] = job[e]
    BY <1>1 DEF IInv, Types, JobTypes, SlotTypes, ResultTypes, TurnTypes, CallTypes, BoundTypes
  <2> QED
    BY <1>2, <1>3, <2>1, ReleaseStep
<1>5. Types'
  <2>1. JobTypes'
    BY <1>2, <1>3, <1>4 DEF IInv, Types, JobTypes, chat, calls
  <2>2. SlotTypes'
    BY <1>2, <1>3, <1>4 DEF IInv, Types, SlotTypes, chat, calls
  <2>3. ResultTypes'
    BY <1>2, <1>3, <1>4 DEF IInv, Types, ResultTypes, chat, calls
  <2>4. TurnTypes'
    BY <1>2, <1>3, <1>4 DEF IInv, Types, TurnTypes, chat, calls
  <2>5. CallTypes'
    BY <1>2, <1>3, <1>4 DEF IInv, Types, CallTypes, chat, calls
  <2>6. BoundTypes'
    BY <1>2, <1>3, <1>4 DEF IInv, Types, BoundTypes, chat, calls
  <2> QED
    BY <2>1, <2>2, <2>3, <2>4, <2>5, <2>6 DEF Types
<1>6. ModeInv'
  BY <1>1, <1>2 DEF IInv, Types, JobTypes, ModeInv
<1>7. ResultInv' /\ OnceInv' /\ CallInv' /\ LockInv' /\ WaitInv' /\ BegunInv'
  BY <1>1, <1>2, QuietStep
<1> QED
  BY <1>4, <1>5, <1>6, <1>7 DEF IInv

(* The task of the delegation, its registration and its first step. *)
LEMMA TaskIInv ==
    ASSUME SubagentsAssumption, IInv, NEW d \in Jobs,
           CreateTask(d) \/ Begin(d) \/ Abort(d) \/ RegisterFails(d)
    PROVE  IInv'
<1>1. ASSUME CreateTask(d) \/ Begin(d) \/ Abort(d) PROVE IInv'
  <2>1. PICK l \in {"created", "running", "aborted"} : job' = [job EXCEPT ![d] = l]
    BY <1>1 DEF CreateTask, Begin, Abort
  <2>2. job[d] \in {"creating", "created"} /\ UNCHANGED <<mode, owner, slots, chat, calls, errors, refused>>
    BY <1>1 DEF CreateTask, Begin, Abort, bounds
  <2>3. Types'
    <3>1. aborts' \in 0..MaxAborts
      BY <1>1 DEF CreateTask, Begin, Abort, bounds, IInv, Types, BoundTypes, SubagentsAssumption
    <3>2. BoundTypes'
      BY <2>2, <3>1 DEF IInv, Types, BoundTypes
    <3>3. JobTypes'
      BY <2>1, <2>2 DEF IInv, Types, JobTypes
    <3>4. SlotTypes' /\ ResultTypes' /\ TurnTypes' /\ CallTypes'
      BY <2>2 DEF IInv, Types, SlotTypes, ResultTypes, TurnTypes, CallTypes, slots, chat, calls
    <3> QED
      BY <3>2, <3>3, <3>4 DEF Types
  <2>4. ModeInv'
    BY <2>1, <2>2 DEF IInv, Types, JobTypes, ModeInv
  <2>5. SlotInv'
    <3>1. ASSUME NoAborts' PROVE NoAborts /\ l # "aborted"
      <4>1. CASE Abort(d)
        BY <3>1, <4>1 DEF Abort, IInv, Types, BoundTypes, NoAborts
      <4>2. CASE CreateTask(d) \/ Begin(d)
        <5>1. job'[d] # "aborted" /\ job'[d] = l
          BY <2>1, <4>2 DEF CreateTask, Begin, IInv, Types, JobTypes
        <5> QED
          BY <3>1, <4>2, <5>1 DEF CreateTask, Begin, NoAborts, bounds
      <4> QED
        BY <1>1, <4>1, <4>2
    <3>2. ASSUME NoAborts', NEW m PROVE Holding(m)' = Holding(m)
      BY <2>1, <2>2, <3>1, <3>2 DEF IInv, Types, BoundTypes, JobTypes, Holding
    <3> QED
      BY <2>2, <3>1, <3>2 DEF IInv, SlotInv, slots
  <2>6. ResultInv' /\ OnceInv' /\ CallInv' /\ LockInv' /\ WaitInv' /\ BegunInv'
    BY <2>1, <2>2, QuietStep
  <2> QED
    BY <2>3, <2>4, <2>5, <2>6 DEF IInv
<1>2. ASSUME RegisterFails(d) PROVE IInv'
  <2>1. Types'
    <3>1. JobTypes'
      BY <1>2 DEF RegisterFails, Release, IInv, Types, JobTypes, chat, calls, SubagentsAssumption
    <3>2. SlotTypes'
      BY <1>2 DEF RegisterFails, Release, IInv, Types, SlotTypes, chat, calls, SubagentsAssumption
    <3>3. ResultTypes'
      BY <1>2 DEF RegisterFails, Release, IInv, Types, ResultTypes, chat, calls, SubagentsAssumption
    <3>4. TurnTypes'
      BY <1>2 DEF RegisterFails, Release, IInv, Types, TurnTypes, chat, calls, SubagentsAssumption
    <3>5. CallTypes'
      BY <1>2 DEF RegisterFails, Release, IInv, Types, CallTypes, chat, calls, SubagentsAssumption
    <3>6. BoundTypes'
      BY <1>2 DEF RegisterFails, Release, IInv, Types, BoundTypes, chat, calls, SubagentsAssumption
    <3> QED
      BY <3>1, <3>2, <3>3, <3>4, <3>5, <3>6 DEF Types
  <2>2. SlotInv'
    <3>1. ~NoAborts'
      BY <1>2 DEF RegisterFails, NoAborts, IInv, Types, BoundTypes
    <3>2. active' \subseteq active /\ IsFiniteSet(active)
      BY <1>2, FS_Subset DEF RegisterFails, Release, IInv, Types, SlotTypes, SubagentsAssumption
    <3>3. Cardinality(active') <= MaxAsync
      BY <3>2, FS_Subset, FS_CardinalityType DEF IInv, SlotInv, SubagentsAssumption
    <3> QED
      BY <3>1, <3>3 DEF SlotInv
  <2>3. ModeInv' /\ ResultInv'
    BY <1>2 DEF RegisterFails, chat, calls, IInv, ModeInv, ResultInv
  <2>4. OnceInv' /\ CallInv'
    BY <1>2 DEF RegisterFails, chat, calls, IInv, OnceInv, CallInv
  <2>5. LockInv' /\ WaitInv'
    BY <1>2 DEF RegisterFails, chat, calls, IInv, LockInv, WaitInv, NoRefusals
  <2>6. BegunInv'
    BY <1>2 DEF RegisterFails, chat, calls, IInv, BegunInv, NoRefusals
  <2> QED
    BY <2>1, <2>2, <2>3, <2>4, <2>5, <2>6 DEF IInv
<1> QED
  BY <1>1, <1>2

(* A step that leaves the slots and the modes alone, and no delegation     *)
(* where it holds one, keeps what is known of the slots.                   *)
LEMMA SlotsKept ==
    ASSUME IInv, UNCHANGED <<mode, slots, aborts, errors>>, \A e \in Jobs : job'[e] # job[e] =>
               /\ job[e] \in {"result", "added"} /\ job'[e] \in {"added", "done"}
    PROVE  SlotInv' /\ ModeInv'
<1>1. ASSUME NEW m PROVE Holding(m)' = Holding(m)
  BY DEF Holding
<1>2. SlotInv'
  BY <1>1 DEF IInv, SlotInv, NoAborts, slots
<1>3. ModeInv'
  BY DEF IInv, ModeInv
<1> QED
  BY <1>2, <1>3

(* run_background puts the result into the history ... *)
LEMMA AddResultIInv ==
    ASSUME SubagentsAssumption, IInv, NEW d \in Jobs, AddResult(d)
    PROVE  IInv'
<1>1. Newest \subseteq 0..MaxTurns
  BY DEF Newest, IInv, Types, TurnTypes, Turns, SubagentsAssumption
<1>2. Types'
  <2>1. at' \in [Jobs -> 0..MaxTurns]
    BY <1>1 DEF AddResult, IInv, Types, ResultTypes
  <2>2. JobTypes'
    BY DEF AddResult, IInv, Types, JobTypes
  <2>3. ResultTypes'
    BY <2>1 DEF AddResult, IInv, Types, ResultTypes
  <2>4. SlotTypes' /\ TurnTypes' /\ CallTypes' /\ BoundTypes'
    BY DEF AddResult, IInv, Types, SlotTypes, TurnTypes, CallTypes, BoundTypes, slots, calls, bounds
  <2> QED
    BY <2>2, <2>3, <2>4 DEF Types
<1>3. SlotInv' /\ ModeInv'
  BY SlotsKept DEF AddResult, IInv, Types, JobTypes, SlotTypes, BoundTypes, bounds
<1>4. d \notin pend /\ \A t \in Turns : d \notin from[t]
  BY DEF AddResult, IInv, ResultInv
<1>5. ResultInv' /\ OnceInv'
  <2>1. /\ pend' \subseteq pend \cup {d} /\ UNCHANGED <<turn, from, made>>
        /\ job'[d] \in {"added", "done"} /\ \A e \in Jobs : e # d => job'[e] = job[e]
    BY DEF AddResult, IInv, Types, JobTypes
  <2>2. ResultInv'
    BY <2>1 DEF IInv, ResultInv
  <2>3. OnceInv'
    BY <1>4, <2>1 DEF IInv, OnceInv
  <2> QED
    BY <2>2, <2>3
<1>6. CallInv' /\ LockInv' /\ BegunInv'
  <2>1. \A e \in Jobs : job[e] = "done" => job'[e] = "done"
    BY DEF AddResult, IInv, Types, JobTypes
  <2>2. CallInv'
    BY <2>1 DEF AddResult, IInv, CallInv, calls
  <2>3. LockInv' /\ BegunInv'
    BY DEF AddResult, IInv, LockInv, BegunInv, calls, NoRefusals, bounds
  <2> QED
    BY <2>2, <2>3
<1>7. WaitInv'
  BY DEF AddResult, IInv, Types, JobTypes, ResultTypes, TurnTypes, CallTypes, BoundTypes,
     WaitInv, calls, NoRefusals, bounds
<1> QED
  BY <1>2, <1>3, <1>5, <1>6, <1>7 DEF IInv

(* ... and looks for results if no turn runs. *)
LEMMA ResultAddedIInv ==
    ASSUME SubagentsAssumption, IInv, NEW d \in Jobs, ResultAdded(d)
    PROVE  IInv'
<1>1. Types'
  <2>1. JobTypes'
    BY DEF ResultAdded, IInv, Types, JobTypes, slots, chat, bounds, Callers
  <2>2. SlotTypes'
    BY DEF ResultAdded, IInv, Types, SlotTypes, slots, chat, bounds, Callers
  <2>3. ResultTypes'
    BY DEF ResultAdded, IInv, Types, ResultTypes, slots, chat, bounds, Callers
  <2>4. TurnTypes'
    BY DEF ResultAdded, IInv, Types, TurnTypes, slots, chat, bounds, Callers
  <2>5. CallTypes'
    BY DEF ResultAdded, IInv, Types, CallTypes, slots, chat, bounds, Callers
  <2>6. BoundTypes'
    BY DEF ResultAdded, IInv, Types, BoundTypes, slots, chat, bounds, Callers
  <2> QED
    BY <2>1, <2>2, <2>3, <2>4, <2>5, <2>6 DEF Types
<1>2. SlotInv' /\ ModeInv'
  BY SlotsKept DEF ResultAdded, IInv, Types, JobTypes, SlotTypes, BoundTypes, bounds
<1>3. ResultInv' /\ OnceInv'
  BY DEF ResultAdded, IInv, Types, JobTypes, ResultTypes, TurnTypes, ResultInv, OnceInv, chat
<1>4. d \in Callers /\ d \notin Turns /\ proc[d] = "no"
  BY DEF ResultAdded, IInv, CallInv, Callers, SubagentsAssumption, Turns
<1>5. CallInv'
  BY <1>4 DEF ResultAdded, IInv, Types, JobTypes, TurnTypes, CallTypes, CallInv, chat
<1>6. LockInv' /\ BegunInv'
  BY <1>4 DEF ResultAdded, IInv, Types, TurnTypes, CallTypes, BoundTypes, LockInv, BegunInv,
     chat, NoRefusals, bounds
<1>7. WaitInv'
  BY <1>4 DEF ResultAdded, IInv, Types, JobTypes, ResultTypes, TurnTypes, CallTypes, BoundTypes,
     WaitInv, chat, Active, NoRefusals, bounds
<1> QED
  BY <1>1, <1>2, <1>3, <1>5, <1>6, <1>7 DEF IInv

(* The turns of the chat begin, end and are deleted with it. *)
LEMMA TurnIInv ==
    ASSUME SubagentsAssumption, IInv,
           UserTurn \/ DeleteChat \/ \E t \in Turns : EndTurn(t) \/ TurnEnded(t)
    PROVE  IInv'
<1>1. ASSUME UserTurn PROVE IInv'
  <2>1. made + 1 \in Turns /\ turn[made + 1] = "no"
    <3>1. made + 1 \in Turns /\ made + 1 > made
      BY <1>1, IInvSuccession DEF UserTurn, Succession
    <3> QED
      BY <3>1 DEF IInv, ResultInv
  <2>a. /\ made' = made + 1 /\ turn'[made + 1] = "running"
        /\ \A t \in Turns : t # made + 1 => turn'[t] = turn[t]
        /\ \A t \in Turns : t > made' => t > made /\ t # made + 1
        /\ \A t \in Turns : t <= made' => t <= made \/ t = made + 1
    BY <1>1, <2>1, IInvSuccession DEF UserTurn, IInv, Types, TurnTypes, Succession
  <2>2. Types'
    <3>1. JobTypes'
      BY <1>1, <2>1 DEF UserTurn, IInv, Types, JobTypes, slots, calls
    <3>2. SlotTypes'
      BY <1>1, <2>1 DEF UserTurn, IInv, Types, SlotTypes, slots, calls
    <3>3. ResultTypes'
      BY <1>1, <2>1 DEF UserTurn, IInv, Types, ResultTypes, slots, calls
    <3>4. TurnTypes'
      BY <1>1, <2>1 DEF UserTurn, IInv, Types, TurnTypes, slots, calls
    <3>5. CallTypes'
      BY <1>1, <2>1 DEF UserTurn, IInv, Types, CallTypes, slots, calls
    <3>6. BoundTypes'
      BY <1>1, <2>1 DEF UserTurn, IInv, Types, BoundTypes, slots, calls
    <3> QED
      BY <3>1, <3>2, <3>3, <3>4, <3>5, <3>6 DEF Types
  <2>3. SlotInv' /\ ModeInv'
    BY <1>1, SlotsKept DEF UserTurn, bounds
  <2>4. ResultInv' /\ OnceInv'
    <3>1. ResultInv'
      BY <1>1, <2>a DEF UserTurn, IInv, ResultInv
    <3>2. OnceInv'
      BY <1>1 DEF UserTurn, IInv, OnceInv
    <3> QED
      BY <3>1, <3>2
  <2>5. CallInv'
    BY <1>1, <2>1, <2>a DEF UserTurn, IInv, CallInv, calls
  <2>6. LockInv'
    <3>1. ASSUME NEW x \in Callers, proc'[x] = "taken"
          PROVE  next'[x] \in Turns /\ turn'[next'[x]] = "no" /\ next'[x] <= made'
      <4>1. next[x] \in Turns /\ turn[next[x]] = "no" /\ next[x] <= made /\ next'[x] = next[x]
        BY <1>1, <3>1 DEF UserTurn, IInv, LockInv, calls
      <4>2. next[x] # made + 1 /\ next[x] <= made + 1
        BY <4>1, IInvSuccession DEF Succession
      <4> QED
        BY <2>a, <4>1, <4>2
    <3> QED
      BY <1>1, <3>1 DEF UserTurn, IInv, LockInv, calls
  <2>7. WaitInv'
    BY <2>1, <2>a DEF WaitInv
  <2>8. BegunInv'
    <3>1. \A t \in Turns : t <= made' /\ turn'[t] = "no" => t <= made /\ turn[t] = "no"
      BY <2>a
    <3> QED
      BY <1>1, <3>1 DEF UserTurn, IInv, BegunInv, calls, NoRefusals
  <2> QED
    BY <2>2, <2>3, <2>4, <2>5, <2>6, <2>7, <2>8 DEF IInv
<1>2. ASSUME DeleteChat PROVE IInv'
  <2>1. SlotInv' /\ ModeInv'
    BY <1>2, SlotsKept DEF DeleteChat, bounds
  <2>2. Types' /\ ResultInv' /\ OnceInv' /\ CallInv' /\ LockInv' /\ WaitInv' /\ BegunInv'
    <3>1. Types'
      BY <1>2 DEF DeleteChat, IInv, Types, JobTypes, SlotTypes, ResultTypes, TurnTypes,
         CallTypes, BoundTypes, slots, calls, bounds
    <3>2. ResultInv' /\ OnceInv'
      BY <1>2 DEF DeleteChat, IInv, ResultInv, OnceInv
    <3>3. CallInv' /\ LockInv'
      BY <1>2 DEF DeleteChat, IInv, CallInv, LockInv, calls
    <3>4. WaitInv' /\ BegunInv'
      BY <1>2 DEF DeleteChat, WaitInv, BegunInv
    <3> QED
      BY <3>1, <3>2, <3>3, <3>4
  <2> QED
    BY <2>1, <2>2 DEF IInv
<1>3. ASSUME NEW t \in Turns, EndTurn(t) PROVE IInv'
  <2>1. Types'
    <3>1. JobTypes'
      BY <1>3 DEF EndTurn, IInv, Types, JobTypes, slots, calls, bounds, Turns, SubagentsAssumption
    <3>2. SlotTypes'
      BY <1>3 DEF EndTurn, IInv, Types, SlotTypes, slots, calls, bounds, Turns, SubagentsAssumption
    <3>3. ResultTypes'
      BY <1>3 DEF EndTurn, IInv, Types, ResultTypes, slots, calls, bounds, Turns,
         SubagentsAssumption
    <3>4. TurnTypes'
      <4>1. turn' \in [Turns -> {"no", "running", "ended", "done"}]
        BY <1>3 DEF EndTurn, IInv, Types, TurnTypes
      <4>2. last' \in 0..MaxTurns
        BY <1>3 DEF EndTurn, IInv, Types, TurnTypes, Turns, SubagentsAssumption
      <4> QED
        BY <1>3, <4>1, <4>2 DEF EndTurn, IInv, Types, TurnTypes
    <3>5. CallTypes'
      BY <1>3 DEF EndTurn, IInv, Types, CallTypes, slots, calls, bounds, Turns, SubagentsAssumption
    <3>6. BoundTypes'
      BY <1>3 DEF EndTurn, IInv, Types, BoundTypes, slots, calls, bounds, Turns, SubagentsAssumption
    <3> QED
      BY <3>1, <3>2, <3>3, <3>4, <3>5, <3>6 DEF Types
  <2>2. SlotInv' /\ ModeInv'
    BY <1>3, SlotsKept DEF EndTurn, bounds
  <2>3. ResultInv' /\ OnceInv' /\ CallInv' /\ LockInv'
    <3>1. \A u \in Turns : u # t => turn'[u] = turn[u]
      BY <1>3 DEF EndTurn, IInv, Types, TurnTypes
    <3>2. ResultInv' /\ OnceInv'
      BY <1>3, <3>1 DEF EndTurn, IInv, ResultInv, OnceInv
    <3>3. CallInv'
      BY <1>3, <3>1 DEF EndTurn, IInv, CallInv, calls
    <3>4. LockInv'
      BY <1>3, <3>1 DEF EndTurn, IInv, LockInv, calls
    <3> QED
      BY <3>2, <3>3, <3>4
  <2>4. WaitInv' /\ BegunInv'
    <3>1. turn'[t] = "ended" /\ \A u \in Turns : u # t => turn'[u] = turn[u]
      BY <1>3 DEF EndTurn, IInv, Types, TurnTypes
    <3>2. WaitInv'
      BY <3>1 DEF WaitInv
    <3>3. BegunInv'
      <4>1. \A u \in Turns : turn'[u] = "no" => turn[u] = "no"
        BY <3>1
      <4> QED
        BY <1>3, <4>1 DEF EndTurn, IInv, BegunInv, calls, bounds, NoRefusals
    <3> QED
      BY <3>2, <3>3
  <2> QED
    BY <2>1, <2>2, <2>3, <2>4 DEF IInv
<1>4. ASSUME NEW t \in Turns, TurnEnded(t) PROVE IInv'
  <2>1. t \in Callers /\ t \notin Jobs /\ proc[t] = "no"
    BY <1>4 DEF TurnEnded, IInv, CallInv, Callers, SubagentsAssumption, Turns
  <2>a. /\ turn[t] = "ended" /\ turn'[t] = "done" /\ \A u \in Turns : u # t => turn'[u] = turn[u]
        /\ proc'[t] \in {"no", "wait"} /\ (~Active => proc'[t] = "wait")
        /\ \A y \in Callers : y # t => proc'[y] = proc[y]
        /\ UNCHANGED <<job, pend, from, made, alive, next, lock, refused>>
    BY <1>4, <2>1 DEF TurnEnded, IInv, Types, TurnTypes, CallTypes, bounds
  <2>2. Types'
    <3>1. JobTypes'
      BY <1>4, <2>1 DEF TurnEnded, IInv, Types, JobTypes, slots, bounds
    <3>2. SlotTypes'
      BY <1>4, <2>1 DEF TurnEnded, IInv, Types, SlotTypes, slots, bounds
    <3>3. ResultTypes'
      BY <1>4, <2>1 DEF TurnEnded, IInv, Types, ResultTypes, slots, bounds
    <3>4. TurnTypes'
      BY <1>4, <2>1 DEF TurnEnded, IInv, Types, TurnTypes, slots, bounds
    <3>5. CallTypes'
      BY <1>4, <2>1 DEF TurnEnded, IInv, Types, CallTypes, slots, bounds
    <3>6. BoundTypes'
      BY <1>4, <2>1 DEF TurnEnded, IInv, Types, BoundTypes, slots, bounds
    <3> QED
      BY <3>1, <3>2, <3>3, <3>4, <3>5, <3>6 DEF Types
  <2>3. SlotInv' /\ ModeInv'
    BY <1>4, SlotsKept DEF TurnEnded, bounds
  <2>4. ResultInv' /\ OnceInv'
    BY <2>a DEF IInv, ResultInv, OnceInv
  <2>5. CallInv' /\ LockInv' /\ BegunInv'
    <3>1. CallInv'
      BY <2>1, <2>a DEF IInv, CallInv, Callers
    <3>2. LockInv'
      BY <2>1, <2>a DEF IInv, LockInv
    <3>3. BegunInv'
      BY <2>1, <2>a DEF IInv, BegunInv, NoRefusals
    <3> QED
      BY <3>1, <3>2, <3>3
  <2>6. WaitInv'
    <3>1. CASE Active
      BY <2>a, <3>1 DEF WaitInv, Active
    <3>2. CASE ~Active
      BY <2>1, <2>a, <3>2 DEF WaitInv
    <3> QED
      BY <3>1, <3>2
  <2> QED
    BY <2>2, <2>3, <2>4, <2>5, <2>6 DEF IInv
<1> QED
  BY <1>1, <1>2, <1>3, <1>4

(* process_pending_internal_messages up to the second look, and when       *)
(* nothing waits.                                                          *)
LEMMA LookIInv ==
    ASSUME SubagentsAssumption, IInv, NEW x \in Callers,
           WaitOver(x) \/ EnterLock(x) \/ NothingWaits(x)
    PROVE  IInv'
<1>1. UNCHANGED <<job, mode, owner, slots, chat, next, bounds>> /\ proc[x] \in {"wait", "idle", "in"}
  BY DEF WaitOver, EnterLock, NothingWaits
<1>2. PICK l \in {"no", "idle", "in"} : proc' = [proc EXCEPT ![x] = l]
  BY DEF WaitOver, EnterLock, NothingWaits
<1>3. Types'
  <2>1. JobTypes'
    BY <1>1, <1>2 DEF WaitOver, EnterLock, NothingWaits, IInv, Types, JobTypes, slots, chat, bounds
  <2>2. SlotTypes'
    BY <1>1, <1>2 DEF WaitOver, EnterLock, NothingWaits, IInv, Types, SlotTypes, slots, chat, bounds
  <2>3. ResultTypes'
    BY <1>1, <1>2 DEF WaitOver, EnterLock, NothingWaits, IInv, Types, ResultTypes, slots, chat,
       bounds
  <2>4. TurnTypes'
    BY <1>1, <1>2 DEF WaitOver, EnterLock, NothingWaits, IInv, Types, TurnTypes, slots, chat, bounds
  <2>5. CallTypes'
    BY <1>1, <1>2 DEF WaitOver, EnterLock, NothingWaits, IInv, Types, CallTypes, slots, chat, bounds
  <2>6. BoundTypes'
    BY <1>1, <1>2 DEF WaitOver, EnterLock, NothingWaits, IInv, Types, BoundTypes, slots, chat,
       bounds
  <2> QED
    BY <2>1, <2>2, <2>3, <2>4, <2>5, <2>6 DEF Types
<1>4. SlotInv' /\ ModeInv'
  BY <1>1, SlotsKept DEF bounds
<1>5. ResultInv' /\ OnceInv'
  BY <1>1 DEF IInv, ResultInv, OnceInv, chat
<1>6. CallInv'
  BY <1>1, <1>2 DEF IInv, Types, JobTypes, TurnTypes, CallTypes, CallInv, chat
<1>7. LockInv'
  <2>1. proc'[x] = l /\ \A y \in Callers : y # x => proc'[y] = proc[y]
    BY <1>2 DEF IInv, Types, CallTypes
  <2>2. ASSUME NEW y \in Callers, proc'[y] \in {"in", "taken"} PROVE lock' = y
    <3>1. CASE WaitOver(x)
      BY <1>2, <2>1, <2>2, <3>1 DEF WaitOver, IInv, Types, CallTypes, LockInv
    <3>2. CASE EnterLock(x)
      <4>1. \A z \in Callers : proc[z] \notin {"in", "taken"}
        BY <3>2 DEF EnterLock, IInv, LockInv, SubagentsAssumption, Callers, Turns
      <4>2. y = x /\ proc'[x] # "no"
        BY <2>1, <2>2, <4>1
      <4> QED
        BY <3>2, <4>2 DEF EnterLock, IInv, Types, CallTypes
    <3>3. CASE NothingWaits(x)
      <4>1. proc'[x] = "no" /\ lock = x
        BY <3>3 DEF NothingWaits, IInv, Types, CallTypes, LockInv
      <4> QED
        BY <2>1, <2>2, <4>1 DEF IInv, LockInv
    <3> QED
      BY <3>1, <3>2, <3>3
  <2>3. \A y \in Callers : proc'[y] = "taken" => proc[y] = "taken"
    BY <1>2, <2>1
  <2> QED
    BY <1>1, <2>2, <2>3 DEF IInv, LockInv, chat
<1>8. WaitInv'
  BY <1>1, <1>2 DEF WaitOver, EnterLock, NothingWaits, IInv, Types, JobTypes, ResultTypes,
     TurnTypes, CallTypes, BoundTypes, WaitInv, chat, Active, NoRefusals, bounds
<1>9. BegunInv'
  BY <1>1, <1>2 DEF IInv, Types, TurnTypes, CallTypes, BoundTypes, BegunInv, chat, NoRefusals,
     bounds
<1> QED
  BY <1>3, <1>4, <1>5, <1>6, <1>7, <1>8, <1>9 DEF IInv

(* The results below one message are put into one turn. *)
LEMMA TakeIInv ==
    ASSUME SubagentsAssumption, IInv, NEW x \in Callers, Take(x)
    PROVE  IInv'
<1>1. made + 1 \in Turns /\ turn[made + 1] = "no" /\ from[made + 1] = {} /\ Batch \subseteq pend
  <2>1. made + 1 \in Turns /\ made + 1 > made
    BY IInvSuccession DEF Take, Succession
  <2>2. Batch \subseteq pend
    BY DEF Batch
  <2> QED
    BY <2>1, <2>2 DEF IInv, ResultInv
<1> HIDE DEF Batch
<1>a. /\ made' = made + 1 /\ made + 1 \in 0..MaxTurns
      /\ \A t \in Turns : t > made' => t > made /\ t # made + 1
      /\ \A t \in Turns : t <= made' => t <= made \/ t = made + 1
      /\ \A t \in Turns : t <= made => t <= made'
  BY <1>1, IInvSuccession DEF Take, Succession
<1>b. /\ UNCHANGED <<turn, job, lock, alive, refused>>
      /\ \A t \in Turns : t # made + 1 => from'[t] = from[t]
      /\ proc[x] = "in" /\ proc'[x] = "taken" /\ next'[x] = made + 1
      /\ \A y \in Callers : y # x => proc'[y] = proc[y] /\ next'[y] = next[y]
  BY DEF Take, IInv, Types, TurnTypes, CallTypes, bounds
<1>2. Types'
  <2>1. JobTypes'
    BY <1>1 DEF Take, IInv, Types, JobTypes, slots, bounds, Turns
  <2>2. SlotTypes'
    BY <1>1 DEF Take, IInv, Types, SlotTypes, slots, bounds, Turns
  <2>3. ResultTypes'
    BY <1>1 DEF Take, IInv, Types, ResultTypes, slots, bounds, Turns
  <2>4. TurnTypes'
    <3>1. Batch \subseteq Jobs
      BY <1>1 DEF IInv, Types, ResultTypes
    <3>2. from' \in [Turns -> SUBSET Jobs]
      BY <1>1, <3>1 DEF Take, IInv, Types, TurnTypes
    <3> QED
      BY <1>1, <3>2 DEF Take, IInv, Types, TurnTypes
  <2>5. CallTypes'
    BY <1>a DEF Take, IInv, Types, CallTypes
  <2>6. BoundTypes'
    BY <1>1 DEF Take, IInv, Types, BoundTypes, slots, bounds, Turns
  <2> QED
    BY <2>1, <2>2, <2>3, <2>4, <2>5, <2>6 DEF Types
<1>3. SlotInv' /\ ModeInv'
  BY SlotsKept DEF Take, bounds
<1>4. ResultInv'
  <2>1. ASSUME NEW d \in Jobs, d \in pend' \/ \E t \in Turns : d \in from'[t]
        PROVE  job'[d] \in {"added", "done"}
    BY <1>1, <2>1 DEF Take, IInv, Types, JobTypes, ResultTypes, TurnTypes, ResultInv
  <2>2. \A t \in Turns : t > made' => from'[t] = {} /\ turn'[t] = "no"
    BY <1>a, <1>b DEF IInv, ResultInv
  <2> QED
    BY <2>1, <2>2 DEF ResultInv
<1>5. OnceInv'
  BY <1>1 DEF Take, IInv, Types, ResultTypes, TurnTypes, OnceInv
<1>6. CallInv'
  BY <1>b DEF IInv, CallInv, Callers
<1>7. LockInv'
  <2>1. made + 1 <= made' /\ turn'[made + 1] = "no"
    BY <1>1, <1>a, <1>b, IInvSuccession DEF Succession
  <2> QED
    BY <1>1, <1>a, <1>b, <2>1 DEF IInv, LockInv
<1>8. WaitInv'
  BY DEF Take, IInv, Types, JobTypes, ResultTypes, TurnTypes, CallTypes, BoundTypes, WaitInv,
     NoRefusals, bounds
<1>9. BegunInv'
  <2>1. ASSUME NoRefusals', alive', NEW t \in Turns, t <= made', turn'[t] = "no"
        PROVE  \E y \in Callers : proc'[y] = "taken" /\ next'[y] = t
    <3>1. CASE t = made + 1
      BY <1>b, <3>1
    <3>2. CASE t <= made
      <4>1. PICK y \in Callers : proc[y] = "taken" /\ next[y] = t
        BY <1>b, <2>1, <3>2 DEF IInv, BegunInv, NoRefusals
      <4> QED
        BY <1>b, <4>1
    <3> QED
      BY <1>a, <2>1, <3>1, <3>2
  <2> QED
    BY <2>1 DEF BegunInv
<1> QED
  BY <1>2, <1>3, <1>4, <1>5, <1>6, <1>7, <1>8, <1>9 DEF IInv

(* The turn starts, or it does not. *)
LEMMA StartIInv ==
    ASSUME SubagentsAssumption, IInv, NEW x \in Callers, StartTurn(x) \/ StartFails(x)
    PROVE  IInv'
<1>1. ASSUME StartTurn(x) PROVE IInv'
  <2>1. next[x] \in Turns /\ turn[next[x]] = "no" /\ next[x] <= made
    BY <1>1 DEF StartTurn, IInv, LockInv
  <2>2. Types'
    <3>1. JobTypes'
      BY <1>1, <2>1 DEF StartTurn, IInv, Types, JobTypes, slots, bounds, SubagentsAssumption
    <3>2. SlotTypes'
      BY <1>1, <2>1 DEF StartTurn, IInv, Types, SlotTypes, slots, bounds, SubagentsAssumption
    <3>3. ResultTypes'
      BY <1>1, <2>1 DEF StartTurn, IInv, Types, ResultTypes, slots, bounds, SubagentsAssumption
    <3>4. TurnTypes'
      BY <1>1, <2>1 DEF StartTurn, IInv, Types, TurnTypes, slots, bounds, SubagentsAssumption
    <3>5. CallTypes'
      <4>1. 0 \in 0..MaxTurns
        BY DEF SubagentsAssumption
      <4> QED
        BY <1>1, <4>1 DEF StartTurn, IInv, Types, CallTypes
    <3>6. BoundTypes'
      BY <1>1, <2>1 DEF StartTurn, IInv, Types, BoundTypes, slots, bounds, SubagentsAssumption
    <3> QED
      BY <3>1, <3>2, <3>3, <3>4, <3>5, <3>6 DEF Types
  <2>3. SlotInv' /\ ModeInv'
    BY <1>1, SlotsKept DEF StartTurn, bounds
  <2>4. ResultInv' /\ OnceInv'
    <3>1. \A t \in Turns : t > made => t # next[x] /\ turn'[t] = turn[t]
      <4>1. \A t \in Turns : t > made => t # next[x]
        BY <2>1 DEF IInv, Types, TurnTypes, Turns
      <4> QED
        BY <1>1, <4>1 DEF StartTurn, IInv, Types, TurnTypes
    <3>2. ResultInv'
      BY <1>1, <3>1 DEF StartTurn, IInv, ResultInv
    <3>3. OnceInv'
      BY <1>1 DEF StartTurn, IInv, OnceInv
    <3> QED
      BY <3>2, <3>3
  <2>5. CallInv'
    <3>1. \A t \in Turns : t # next[x] => turn'[t] = turn[t]
      BY <1>1 DEF StartTurn, IInv, Types, TurnTypes
    <3>2. \A y \in Callers : proc'[y] # "no" => proc[y] # "no"
      BY <1>1 DEF StartTurn, IInv, Types, CallTypes
    <3>3. proc[next[x]] = "no"
      BY <2>1 DEF IInv, CallInv
    <3> QED
      BY <1>1, <3>1, <3>2, <3>3 DEF StartTurn, IInv, CallInv, Callers
  <2>6. LockInv'
    BY <1>1, <2>1 DEF StartTurn, IInv, Types, TurnTypes, CallTypes, LockInv
  <2>7. WaitInv'
    BY <1>1, <2>1 DEF StartTurn, IInv, Types, JobTypes, ResultTypes, TurnTypes, CallTypes,
       BoundTypes, WaitInv, NoRefusals, bounds
  <2>8. BegunInv'
    BY <1>1, <2>1 DEF StartTurn, IInv, Types, TurnTypes, CallTypes, BoundTypes, BegunInv,
       NoRefusals, bounds
  <2> QED
    BY <2>2, <2>3, <2>4, <2>5, <2>6, <2>7, <2>8 DEF IInv
<1>2. ASSUME StartFails(x) PROVE IInv'
  <2>1. Types'
    <3>1. JobTypes'
      BY <1>2 DEF StartFails, IInv, Types, JobTypes, slots, chat, SubagentsAssumption
    <3>2. SlotTypes'
      BY <1>2 DEF StartFails, IInv, Types, SlotTypes, slots, chat, SubagentsAssumption
    <3>3. ResultTypes'
      BY <1>2 DEF StartFails, IInv, Types, ResultTypes, slots, chat, SubagentsAssumption
    <3>4. TurnTypes'
      BY <1>2 DEF StartFails, IInv, Types, TurnTypes, slots, chat, SubagentsAssumption
    <3>5. CallTypes'
      <4>1. 0 \in 0..MaxTurns
        BY DEF SubagentsAssumption
      <4> QED
        BY <1>2, <4>1 DEF StartFails, IInv, Types, CallTypes
    <3>6. BoundTypes'
      <4>1. refused' \in 0..MaxRefused
        <5>1. refused \in 0..MaxRefused /\ MaxRefused \in Nat
          BY DEF IInv, Types, BoundTypes, SubagentsAssumption
        <5>2. refused' = refused \/ (refused < MaxRefused /\ refused' = refused + 1)
          BY <1>2 DEF StartFails
        <5> QED
          BY <5>1, <5>2
      <4> QED
        BY <1>2, <4>1 DEF StartFails, IInv, Types, BoundTypes
    <3> QED
      BY <3>1, <3>2, <3>3, <3>4, <3>5, <3>6 DEF Types
  <2>2. SlotInv' /\ ModeInv'
    BY <1>2, SlotsKept DEF StartFails, bounds
  <2>3. ResultInv' /\ OnceInv'
    BY <1>2 DEF StartFails, IInv, ResultInv, OnceInv, chat
  <2>4. CallInv'
    <3>1. \A y \in Callers : proc'[y] # "no" => proc[y] # "no"
      BY <1>2 DEF StartFails, IInv, Types, CallTypes
    <3> QED
      BY <1>2, <3>1 DEF StartFails, IInv, CallInv, Callers, chat
  <2>5. LockInv'
    BY <1>2 DEF StartFails, IInv, Types, TurnTypes, CallTypes, LockInv, chat
  <2>6. NoRefusals' => ~alive'
    <3>1. CASE ~alive
      BY <1>2, <3>1 DEF StartFails, chat
    <3>2. CASE refused' = refused + 1
      BY <3>2 DEF IInv, Types, BoundTypes, NoRefusals, SubagentsAssumption
    <3> QED
      BY <1>2, <3>1, <3>2 DEF StartFails
  <2>7. WaitInv' /\ BegunInv'
    BY <2>6 DEF WaitInv, BegunInv
  <2> QED
    BY <2>1, <2>2, <2>3, <2>4, <2>5, <2>7 DEF IInv
<1> QED
  BY <1>1, <1>2

(* Every step keeps the invariant. *)
LEMMA NextIInv == SubagentsAssumption /\ IInv /\ [Next]_vars => IInv'
<1> SUFFICES ASSUME SubagentsAssumption, IInv, [Next]_vars PROVE IInv'
  OBVIOUS
<1>1. ASSUME NEW d \in Jobs, Delegation(d) PROVE IInv'
  BY <1>1, DelegateIInv, EndIInv, TaskIInv, AddResultIInv, ResultAddedIInv DEF Delegation
<1>2. ASSUME NEW t \in Turns, EndTurn(t) \/ TurnEnded(t) PROVE IInv'
  BY <1>2, TurnIInv
<1>3. ASSUME NEW x \in Callers, Answering(x) PROVE IInv'
  BY <1>3, LookIInv, TakeIInv, StartIInv DEF Answering
<1>4. CASE UserTurn \/ DeleteChat
  BY <1>4, TurnIInv
<1>5. CASE UNCHANGED vars
  <2>1. SlotInv' /\ ModeInv'
    BY <1>5, SlotsKept DEF vars, bounds
  <2>2. Types' /\ ResultInv' /\ OnceInv' /\ CallInv' /\ LockInv' /\ WaitInv' /\ BegunInv'
    <3> USE <1>5 DEF vars, slots, chat, calls, bounds
    <3>1. Types'
      BY DEF IInv, Types, JobTypes, SlotTypes, ResultTypes, TurnTypes, CallTypes, BoundTypes
    <3>2. ResultInv' /\ OnceInv'
      BY DEF IInv, ResultInv, OnceInv
    <3>3. CallInv' /\ LockInv'
      BY DEF IInv, CallInv, LockInv
    <3>4. WaitInv' /\ BegunInv'
      BY DEF IInv, WaitInv, BegunInv, NoRefusals
    <3> QED
      BY <3>1, <3>2, <3>3, <3>4
  <2> QED
    BY <2>1, <2>2 DEF IInv
<1> QED
  BY <1>1, <1>2, <1>3, <1>4, <1>5 DEF Next

(* A set of turns with at most one member. *)
LEMMA IInvOnce == SubagentsAssumption /\ IInv => AnsweredOnce
<1> SUFFICES ASSUME SubagentsAssumption, IInv, NEW d \in Jobs
             PROVE  /\ Cardinality({t \in Turns : d \in from[t]}) <= 1
                    /\ d \in pend => {t \in Turns : d \in from[t]} = {}
  BY DEF AnsweredOnce
<1> DEFINE answers == {t \in Turns : d \in from[t]}
<1>1. d \in pend => answers = {}
  BY DEF IInv, OnceInv
<1>2. answers = {} \/ \E t : answers = {t}
  BY DEF IInv, OnceInv
<1>3. Cardinality(answers) = 0 \/ Cardinality(answers) = 1
  BY <1>2, FS_EmptySet, FS_Singleton
<1> QED
  BY <1>1, <1>3

LEMMA IInvNotStranded == SubagentsAssumption /\ IInv => NotStranded
<1> SUFFICES ASSUME SubagentsAssumption, refused = 0, IInv, alive,
                    \A t \in Turns : turn[t] \in {"no", "done"},
                    \A x \in Callers : proc[x] = "no", \A d \in Jobs : job[d] # "added"
             PROVE  pend = {} /\ \A t \in 1..made : turn[t] = "done"
  BY DEF NotStranded
<1>1. pend = {}
  BY DEF IInv, WaitInv, NoRefusals
<1>2. \A t \in Turns : t <= made => turn[t] # "no"
  BY DEF IInv, BegunInv, NoRefusals
<1>3. \A t \in 1..made : t \in Turns /\ t <= made
  BY DEF IInv, Types, TurnTypes, Turns, SubagentsAssumption
<1> QED
  BY <1>1, <1>2, <1>3

(* How many run at the same time. *)
SlotLimits ==
    /\ Cardinality(Holding("background")) <= MaxAsync
    /\ Cardinality(Holding("foreground")) <= MaxConcurrent

LEMMA IInvLimits == SubagentsAssumption /\ NoAborts /\ IInv => SlotLimits
<1> SUFFICES ASSUME SubagentsAssumption, NoAborts, IInv PROVE SlotLimits
  OBVIOUS
<1>1. Cardinality(Holding("foreground")) \in Nat
  BY FS_Subset, FS_CardinalityType DEF Holding, SubagentsAssumption
<1> QED
  BY <1>1 DEF IInv, Types, JobTypes, SlotTypes, BoundTypes, SlotInv, SlotLimits

-----------------------------------------------------------------------------
(* The invariant holds in every reachable state of the chat's sub-agents. *)
THEOREM SubagentsInv ==
    ASSUME SubagentsAssumption
    PROVE  Spec => []IInv
<1>1. Init => IInv
  BY InitIInv
<1>2. IInv /\ [Next]_vars => IInv'
  BY NextIInv
<1> QED
  BY <1>1, <1>2, PTL DEF Spec

(* process_pending_internal_messages: the result of a sub-agent is         *)
(* answered by one turn at most and not taken again, also when writes      *)
(* fail, delegations are cancelled and turns are refused.                  *)
THEOREM SubagentsAnsweredOnce ==
    ASSUME SubagentsAssumption
    PROVE  Spec => []AnsweredOnce
<1>1. IInv => AnsweredOnce
  BY IInvOnce
<1> QED
  BY <1>1, SubagentsInv, PTL

(* run_reserved: every slot is held by a delegation that is about to run   *)
(* or runs, until one is cancelled before its first step or a registration *)
(* fails.                                                                  *)
THEOREM SubagentsSlotsBalance ==
    ASSUME SubagentsAssumption
    PROVE  Spec => []SlotsBalance
<1>1. IInv => SlotsBalance
  BY DEF IInv, SlotInv, NoAborts, SlotsBalance, Holding
<1> QED
  BY <1>1, SubagentsInv, PTL

(* subagents.max_async and subagents.max_concurrent are kept, under the    *)
(* same premise.                                                           *)
THEOREM SubagentsLimits ==
    ASSUME SubagentsAssumption
    PROVE  Spec => [](NoAborts => SlotLimits)
<1>1. IInv => (NoAborts => SlotLimits)
  BY IInvLimits
<1> QED
  BY <1>1, SubagentsInv, PTL

(* process_chat and run_background: when all has come to rest no result    *)
(* waits and every reply that was begun has ended, unless the completion   *)
(* handler has refused a turn.                                             *)
THEOREM SubagentsNotStranded ==
    ASSUME SubagentsAssumption
    PROVE  Spec => []NotStranded
<1>1. IInv => NotStranded
  BY IInvNotStranded
<1> QED
  BY <1>1, SubagentsInv, PTL
=============================================================================
