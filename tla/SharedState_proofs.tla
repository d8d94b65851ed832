------------------------- MODULE SharedState_proofs -------------------------
(***************************************************************************)
(* Proofs about what several processes share through Redis and the         *)
(* database: the leases of the shards of the bot gateway and the fence on  *)
(* their events, the registry of models and its caches, the row of an      *)
(* external app, and the two stores of the messages of a chat.             *)
(* A component after the first is an instance, and a theorem speaks of the *)
(* variables of its own component only.                                    *)
(***************************************************************************)
EXTENDS ShardCoordination, TLAPS

CONSTANTS Models, Requests, Readers, MaxWrites, MaxClears, MaxFailures, Admins, Ops,
          MaxRequests, MaxDrops, Ids, Asked, Answer, Tabs, Guests, MaxVer, MaxOps

VARIABLES offered, hash, sig, base, local, pc, listing, existing, cache, cachedSig, readSig,
          rpc, uuids, clears, failures, cleared, row, server, req, peer, installs, requests,
          drops, msgs, cur, rows, running, snap, fill, ops

(* What the provers may take for a step, on a busy machine. *)
USE ZenonT(3), SMTT(30), ZenonT(30)

-----------------------------------------------------------------------------
(* Proofs about ShardCoordination: an epoch names one lease, and RyanAI    *)
(* accepts events in the order of the leases, for any number of nodes,     *)
(* workers and faults of every kind.                                       *)
(*                                                                         *)
(* The argument.  The epoch counter bounds every epoch that is remembered  *)
(* anywhere (Known), and a lease that is in Redis is the newest.  Acquire  *)
(* alone makes a lease, under an epoch nobody has; every other step only   *)
(* copies known leases from one place to another, or forgets them.         *)

(* A sync that has a lease or a host has captured it, and generations are  *)
(* numbers.                                                                *)
Captured ==
    /\ sqlGen \in Nat /\ mirror \in [Nodes -> Nat] /\ want \in [Nodes -> Nat]
    /\ sync \in [Nodes -> SyncSteps]
    /\ \A n \in Nodes : sync[n] \in {"fetch", "kept", "boot"} => mine[n] # None

EpochInv ==
    /\ epoch \in Nat
    /\ \A l \in Known : l.epoch \in Nat /\ l.epoch <= epoch
    /\ \A k, l \in Known : k.epoch = l.epoch => k = l
    /\ lease # None => lease.epoch = epoch
    /\ accepted \in Nat /\ accepted <= epoch
    /\ held \in [Nodes -> Known \cup {None}]
    /\ host \in [Nodes -> Known \cup {None}]
    /\ mine \in [Nodes -> Known \cup {None}]
    /\ asked \in [Nodes -> Known \cup {None}]
    /\ children \subseteq Known /\ flight \subseteq Known
    /\ Captured

(* A step that makes no lease: what it remembers was remembered before. *)
Forgetful ==
    /\ epoch' = epoch
    /\ lease' = lease \/ lease' = None
    /\ children' \subseteq Known /\ flight' \subseteq Known
    /\ held' \in [Nodes -> Known \cup {None}]
    /\ host' \in [Nodes -> Known \cup {None}]
    /\ mine' \in [Nodes -> Known \cup {None}]
    /\ asked' \in [Nodes -> Known \cup {None}]
    /\ Captured'
    /\ accepted' = accepted \/ (lease # None /\ accepted' = lease.epoch)

LEMMA ForgetfulKeeps ==
    ASSUME EpochInv, Forgetful
    PROVE  EpochInv' /\ accepted' >= accepted
<1>1. Known' \subseteq Known
  BY DEF Known, Forgetful
<1>2. lease # None => lease \in Known
  BY DEF Known
<1>3. held' \in [Nodes -> Known' \cup {None}] /\ host' \in [Nodes -> Known' \cup {None}]
  BY DEF Forgetful, Known
<1>4. mine' \in [Nodes -> Known' \cup {None}] /\ asked' \in [Nodes -> Known' \cup {None}]
  BY DEF Forgetful, Known
<1>5. \A l \in Known' : l.epoch \in Nat /\ l.epoch <= epoch'
  BY <1>1 DEF EpochInv, Forgetful
<1>6. \A k, l \in Known' : k.epoch = l.epoch => k = l
  BY <1>1 DEF EpochInv
<1>7. lease' # None => lease'.epoch = epoch'
  BY DEF EpochInv, Forgetful
<1>8. accepted' \in Nat /\ accepted' <= epoch' /\ accepted' >= accepted /\ epoch' \in Nat
  BY DEF EpochInv, Forgetful
<1>9. children' \subseteq Known' /\ flight' \subseteq Known'
  BY DEF Forgetful, Known
<1>10. QED
  BY <1>3, <1>4, <1>5, <1>6, <1>7, <1>8, <1>9 DEF EpochInv, Forgetful

----------------------------------------------------------------------------
(* One lemma for the steps of the scheduler, of the tables and of events.  *)
LEMMA OutsideForgets ==
    ASSUME EpochInv,
           \/ \E w \in Workers : SchedulerStep(w)
           \/ LeaderLapses \/ BumpGeneration \/ Expire \/ ExpireUnderHolder
           \/ \E n \in Nodes : SyncDesiredState(n) \/ HeartbeatExpires(n) \/ Restart(n)
           \/ UNCHANGED vars
    PROVE  Forgetful
<1>1. children \subseteq Known /\ flight \subseteq Known
  BY DEF EpochInv
<1>2. UNCHANGED <<epoch, children, flight, held, host, mine, asked, sync, accepted>>
  BY DEF SchedulerStep, Lead, Scan, SetTarget, Unlock, LeaderLapses, BumpGeneration,
         Expire, ExpireUnderHolder, SyncDesiredState, HeartbeatExpires, Restart,
         leases, scheduling, generations, nodes, hosting, syncing, timers, events, vars
<1>3. lease' = lease \/ lease' = None
  BY DEF SchedulerStep, Lead, Scan, SetTarget, Unlock, LeaderLapses, BumpGeneration,
         Expire, ExpireUnderHolder, SyncDesiredState, HeartbeatExpires, Restart,
         leases, scheduling, generations, nodes, hosting, syncing, timers, events, vars
<1>4. sqlGen' \in Nat /\ mirror' \in [Nodes -> Nat] /\ UNCHANGED want
  <2>0. sqlGen \in Nat /\ mirror \in [Nodes -> Nat]
    BY DEF EpochInv, Captured
  <2>1. UNCHANGED want
    BY DEF SchedulerStep, Lead, Scan, SetTarget, Unlock, LeaderLapses, BumpGeneration,
           Expire, ExpireUnderHolder, SyncDesiredState, HeartbeatExpires, Restart, syncing, vars
  <2>2. CASE \E n \in Nodes : SyncDesiredState(n)
    BY <2>0, <2>1, <2>2 DEF SyncDesiredState, Set
  <2>3. CASE BumpGeneration
    BY <2>0, <2>1, <2>3 DEF BumpGeneration
  <2>4. CASE ~BumpGeneration /\ ~\E n \in Nodes : SyncDesiredState(n)
    <3>1. UNCHANGED <<sqlGen, mirror>>
      BY <2>4 DEF SchedulerStep, Lead, Scan, SetTarget, Unlock, LeaderLapses, Expire,
             ExpireUnderHolder, HeartbeatExpires, Restart, generations, vars
    <3>2. QED
      BY <2>0, <2>1, <3>1
  <2>5. QED
    BY <2>2, <2>3, <2>4
<1>5. QED
  BY <1>1, <1>2, <1>3, <1>4 DEF Forgetful, EpochInv, Captured

(* The steps of runShardSync and fenceShard, but for Acquire. *)
LEMMA SyncForgets ==
    ASSUME EpochInv, NEW n \in Nodes,
           \/ RunShardSync(n) \/ DropStale(n) \/ FetchFails(n) \/ ChooseHost(n)
           \/ Spawn(n) \/ BootFails(n) \/ FenceStop(n) \/ FenceRelease(n)
    PROVE  Forgetful
<1>1. children \subseteq Known /\ flight \subseteq Known
  BY DEF EpochInv
<1> USE DEF leases, scheduling, generations, nodes, hosting, syncing, timers, events
<1>2. CASE RunShardSync(n)
  BY <1>1, <1>2 DEF RunShardSync, Forgetful, EpochInv, Captured, Set, Stop, SyncSteps
<1>3. CASE DropStale(n)
  BY <1>1, <1>3 DEF DropStale, ReleaseShardLease, Release, Forgetful, EpochInv, Captured,
     Set, SyncSteps
<1>4. CASE FetchFails(n)
  BY <1>1, <1>4 DEF FetchFails, ReleaseShardLease, Release, Stop, EndSync, Forgetful,
     EpochInv, Captured, Set, SyncSteps
<1>5. CASE ChooseHost(n)
  <2>1. HostFor(n) \in Known /\ HostFor(n) # None
    <3>1. mine[n] # None /\ mine[n] \in Known \cup {None} /\ host[n] \in Known \cup {None}
      BY <1>5 DEF ChooseHost, EpochInv, Captured
    <3>2. QED
      BY <3>1 DEF HostFor
  <2>2. /\ UNCHANGED <<epoch, lease, held, children, flight, asked, accepted, sqlGen, mirror>>
        /\ host' = [host EXCEPT ![n] = HostFor(n)]
    BY <1>5 DEF ChooseHost, Set
  <2>3. \/ /\ sync' = [sync EXCEPT ![n] = "idle"] /\ want' = [want EXCEPT ![n] = 0]
           /\ mine' = [mine EXCEPT ![n] = None]
        \/ /\ sync' = [sync EXCEPT ![n] = "boot"] /\ want' = want
           /\ mine' = [mine EXCEPT ![n] = HostFor(n)]
    BY <1>5 DEF ChooseHost, EndSync, Set
  <2>4. host' \in [Nodes -> Known \cup {None}] /\ mine' \in [Nodes -> Known \cup {None}]
    BY <2>1, <2>2, <2>3 DEF EpochInv
  <2>5. Captured'
    BY <2>1, <2>2, <2>3 DEF EpochInv, Captured, SyncSteps
  <2>6. QED
    BY <1>1, <2>2, <2>4, <2>5 DEF Forgetful, EpochInv
<1>6. CASE Spawn(n)
  BY <1>1, <1>6 DEF Spawn, EndSync, Forgetful, EpochInv, Captured, Set, SyncSteps
<1>7. CASE BootFails(n)
  BY <1>1, <1>7 DEF BootFails, EndSync, Forgetful, EpochInv, Captured, Set, SyncSteps
<1>8. CASE FenceStop(n)
  BY <1>1, <1>8 DEF FenceStop, Stop, Forgetful, EpochInv, Captured, Set, SyncSteps
<1>9. CASE FenceRelease(n)
  BY <1>1, <1>9 DEF FenceRelease, ReleaseShardLease, Release, EndSync, Forgetful,
     EpochInv, Captured, Set, SyncSteps
<1>10. QED
  BY <1>2, <1>3, <1>4, <1>5, <1>6, <1>7, <1>8, <1>9

(* The renewal timer, setDraining and crashes. *)
LEMMA TimersForget ==
    ASSUME EpochInv, NEW n \in Nodes,
           \/ RenewStep(n) \/ RenewUnanswered(n) \/ Drain(n) \/ DrainStep(n)
           \/ Resume(n) \/ Crash(n)
    PROVE  Forgetful
<1>1. children \subseteq Known /\ flight \subseteq Known
  BY DEF EpochInv
<1> USE DEF leases, scheduling, generations, nodes, hosting, syncing, timers, events
<1>2. CASE RenewStep(n) \/ RenewUnanswered(n)
  BY <1>1, <1>2 DEF RenewStep, RenewSend, Renewed, RenewRefused, RenewUnanswered, RenewDrop,
     LoseLease, Stop, Forgetful, EpochInv, Captured, Set
<1>3. CASE Drain(n) \/ Resume(n)
  BY <1>1, <1>3 DEF Drain, Resume, Forgetful, EpochInv, Captured
<1>4. CASE DrainStep(n)
  BY <1>1, <1>4 DEF DrainStep, DrainStop, DrainRelease, ReleaseShardLease, Release, Stop,
     Forgetful, EpochInv, Captured, Set
<1>5. CASE Crash(n)
  BY <1>1, <1>5 DEF Crash, EndSync, Forgetful, EpochInv, Captured, Set, SyncSteps
<1>6. QED
  BY <1>2, <1>3, <1>4, <1>5

(* Events, and children that exit.  AcceptEvent compares with the lease in *)
(* Redis, the newest there is.                                             *)
LEMMA EventsForget ==
    ASSUME EpochInv, NEW c \in Lease,
           ChildExits(c) \/ BridgeEvent(c) \/ AcceptEvent(c) \/ RejectEvent(c)
    PROVE  Forgetful
<1>1. children \subseteq Known /\ flight \subseteq Known
  BY DEF EpochInv
<1> USE DEF leases, scheduling, generations, nodes, hosting, syncing, timers, events
<1>2. CASE ChildExits(c) \/ BridgeEvent(c) \/ RejectEvent(c)
  BY <1>1, <1>2 DEF ChildExits, BridgeEvent, RejectEvent, Forgetful, EpochInv, Captured
<1>3. CASE AcceptEvent(c)
  <2>1. c # None
    BY <1>1, <1>3 DEF AcceptEvent, Known
  <2>2. QED
    BY <1>1, <1>3, <2>1 DEF AcceptEvent, FenceHolds, Forgetful, EpochInv, Captured
<1>4. QED
  BY <1>2, <1>3

(* Acquire makes a lease under an epoch that nothing known carries. *)
LEMMA AcquireKeeps ==
    ASSUME ShardCoordinationAssumption, EpochInv, NEW n \in Nodes, Acquire(n)
    PROVE  EpochInv' /\ accepted' >= accepted
<1> USE DEF leases, scheduling, generations, nodes, hosting, syncing, timers, events
<1>1. CASE ~CanAcquire(n)
  <2>1. Forgetful
    BY <1>1 DEF Acquire, EndSync, Forgetful, EpochInv, Captured, Set, SyncSteps
  <2>2. QED
    BY <2>1, ForgetfulKeeps
<1>2. CASE CanAcquire(n)
  <2> DEFINE new == NewLease(n)
  <2>1. /\ epoch' = epoch + 1 /\ lease' = new /\ new.epoch = epoch + 1
        /\ held' = [held EXCEPT ![n] = new] /\ mine' = [mine EXCEPT ![n] = new]
        /\ sync' = [sync EXCEPT ![n] = "fetch"] /\ want' = [want EXCEPT ![n] = 0]
        /\ UNCHANGED <<host, children, asked, flight, accepted, sqlGen, mirror>>
    BY <1>2 DEF Acquire, NewLease, NextEpoch, Set
  <2>2. new # None
    BY DEF ShardCoordinationAssumption, NewLease, EpochInv, Captured
  <2> HIDE DEF new
  <2>3. Known' \subseteq Known \cup {new}
    <3>1. \A m \in Nodes : held'[m] \in {new, held[m]} /\ mine'[m] \in {new, mine[m]}
      BY <2>1 DEF EpochInv
    <3>2. QED
      BY <2>1, <3>1 DEF Known
  <2>4. \A l \in Known' : l.epoch \in Nat /\ l.epoch <= epoch'
    BY <2>1, <2>3 DEF EpochInv
  <2>5. \A k, l \in Known' : k.epoch = l.epoch => k = l
    BY <2>1, <2>3 DEF EpochInv
  <2>6. held' \in [Nodes -> Known' \cup {None}] /\ mine' \in [Nodes -> Known' \cup {None}]
    <3>1. \A m \in Nodes : held'[m] \in Known' \cup {None} /\ mine'[m] \in Known' \cup {None}
      BY DEF Known
    <3>2. QED
      BY <2>1, <3>1 DEF EpochInv
  <2>7. host' \in [Nodes -> Known' \cup {None}] /\ asked' \in [Nodes -> Known' \cup {None}]
    <3>1. \A m \in Nodes : host[m] \in Known' \cup {None} /\ asked[m] \in Known' \cup {None}
      BY <2>1 DEF Known
    <3>2. QED
      BY <2>1, <3>1 DEF EpochInv
  <2>8. children' \subseteq Known' /\ flight' \subseteq Known'
    BY <2>1 DEF EpochInv, Known
  <2>9. Captured'
    BY <2>1, <2>2 DEF EpochInv, Captured, SyncSteps
  <2>10. QED
    BY <2>1, <2>4, <2>5, <2>6, <2>7, <2>8, <2>9 DEF EpochInv
<1>3. QED
  BY <1>1, <1>2

LEMMA EpochInvStep ==
    ASSUME ShardCoordinationAssumption, EpochInv, [Next]_vars
    PROVE  EpochInv' /\ accepted' >= accepted
<1>1. CASE \E n \in Nodes : Acquire(n)
  BY <1>1, AcquireKeeps
<1>2. CASE ~\E n \in Nodes : Acquire(n)
  <2>1. Forgetful
    BY <1>2, OutsideForgets, SyncForgets, TimersForget, EventsForget
       DEF Next, FaultStep, SyncStep
  <2>2. QED
    BY <2>1, ForgetfulKeeps
<1>3. QED
  BY <1>1, <1>2

LEMMA EpochInvInit == Init => EpochInv
  BY DEF Init, EpochInv, Known, Captured, SyncSteps

(* The two facts the fencing of a shard rests on. *)
THEOREM EpochInvHolds ==
  ASSUME ShardCoordinationAssumption
  PROVE  Spec => []EpochInv
  BY EpochInvInit, EpochInvStep, PTL DEF Spec

(* An epoch names one lease, wherever a host, a child or an event carries  *)
(* it: acquire of coordination.ts.                                         *)
THEOREM EpochsAreUnique ==
  ASSUME ShardCoordinationAssumption
  PROVE  Spec => []OneLeasePerEpoch
<1>1. EpochInv => OneLeasePerEpoch
  BY DEF EpochInv, OneLeasePerEpoch
<1>2. QED
  BY <1>1, EpochInvHolds, PTL

(* validate_event_fence accepts events in the order of their leases, while *)
(* any number of orphaned children and delayed events is about.            *)
THEOREM FenceOrdersEvents ==
  ASSUME ShardCoordinationAssumption
  PROVE  Spec => AcceptedInOrder
<1>1. EpochInv /\ [Next]_vars => [accepted' >= accepted]_vars
  BY EpochInvStep
<1>2. QED
  BY <1>1, EpochInvHolds, PTL DEF Spec, AcceptedInOrder

-----------------------------------------------------------------------------
M == INSTANCE ModelRegistry

(* The registry of models. *)

(* The uuid of a signature is not above the last one that was given out. *)
Issued(s) == s # None => s.n \in Nat /\ s.n <= uuids

(* The hash differs from a copy with the present signature only while the    *)
(* request that changed it has yet to sign it or to drop the signature.      *)
HashInv ==
    /\ uuids \in Nat /\ Issued(sig)
    /\ DOMAIN pc = Requests /\ DOMAIN cache = Readers
    /\ DOMAIN cachedSig = Readers /\ DOMAIN readSig = Readers
    /\ \A w \in Readers : Issued(cachedSig[w]) /\ Issued(readSig[w])
    /\ \A w \in Readers :
          (sig # None /\ cachedSig[w] = sig /\ cache[w] # hash)
              => \E r \in Requests : pc[r] \in {"hdel", "sign", "unsign"}

(* HashInv holds at the start: no copy has a signature. *)
LEMMA HashInit == M!Init => HashInv
  BY DEF M!Init, HashInv, Issued

(* Every step keeps HashInv. *)
LEMMA HashNext == HashInv /\ [M!Next]_M!vars => HashInv'
  <1> SUFFICES ASSUME HashInv, [M!Next]_M!vars
               PROVE  HashInv'
    OBVIOUS
  <1>1. ASSUME NEW r \in Requests, NEW again \in BOOLEAN, M!GetAllModels(r, again)
       PROVE  HashInv'
    BY <1>1 DEF M!GetAllModels, HashInv, Issued, M!reader, M!request, M!Goto
  <1>2. ASSUME NEW r \in Requests, M!Fetch(r)
       PROVE  HashInv'
    BY <1>2 DEF M!Fetch, HashInv, Issued, M!reader, M!request, M!Goto
  <1>3. ASSUME NEW r \in Requests, M!CheckSignature(r)
       PROVE  HashInv'
    BY <1>3 DEF M!CheckSignature, HashInv, Issued, M!reader, M!request, M!Goto
  <1>4. ASSUME NEW r \in Requests, M!DropSignature(r)
       PROVE  HashInv'
    BY <1>4 DEF M!DropSignature, HashInv, Issued, M!reader, M!request, M!Goto
  <1>5. ASSUME NEW r \in Requests, M!ExistingKeys(r)
       PROVE  HashInv'
    BY <1>5 DEF M!ExistingKeys, HashInv, Issued, M!reader, M!request, M!Goto
  <1>6. ASSUME NEW r \in Requests, M!Hset(r)
       PROVE  HashInv'
    BY <1>6 DEF M!Hset, HashInv, Issued, M!reader, M!request, M!Goto
  <1>7. ASSUME NEW r \in Requests, M!Hdel(r)
       PROVE  HashInv'
    BY <1>7 DEF M!Hdel, HashInv, Issued, M!reader, M!request, M!Goto
  <1>8. ASSUME NEW r \in Requests, M!Sign(r)
       PROVE  HashInv'
    <2>1. /\ uuids' = uuids + 1 /\ sig' = [d |-> listing[r], n |-> uuids + 1]
          /\ DOMAIN pc' = Requests /\ UNCHANGED <<cache, cachedSig, readSig, hash>>
      BY <1>8 DEF M!Sign, HashInv, M!reader, M!Goto
    <2>2. Issued(sig)' /\ \A w \in Readers : Issued(cachedSig[w])' /\ Issued(readSig[w])'
      BY <2>1 DEF HashInv, Issued
    <2>3. \A w \in Readers : cachedSig[w] # None => cachedSig[w].n # uuids + 1
      BY DEF HashInv, Issued
    <2>4. \A w \in Readers : sig' # None => cachedSig'[w] # sig'
      <3>1. sig'.n = uuids + 1 /\ cachedSig' = cachedSig
        BY <2>1
      <3>2. QED
        BY <2>3, <3>1, Zenon
    <2>5. QED
      BY <2>1, <2>2, <2>4 DEF HashInv
  <1>9. ASSUME NEW r \in Requests, M!ClearModelsCache(r)
       PROVE  HashInv'
    BY <1>9 DEF M!ClearModelsCache, HashInv, Issued, M!reader, M!request, M!Goto
  <1>10. ASSUME NEW r \in Requests, M!ClearHash(r)
       PROVE  HashInv'
    BY <1>10 DEF M!ClearHash, HashInv, Issued, M!reader, M!request, M!Goto
  <1>11. ASSUME NEW r \in Requests, M!ClearSignature(r)
       PROVE  HashInv'
    BY <1>11 DEF M!ClearSignature, HashInv, Issued, M!reader, M!request, M!Goto
  <1>12. ASSUME NEW w \in Readers, M!ReadSignature(w)
       PROVE  HashInv'
    BY <1>12 DEF M!ReadSignature, HashInv, Issued, M!reader, M!request, M!Goto
  <1>13. ASSUME NEW w \in Readers, M!FetchHash(w)
       PROVE  HashInv'
    BY <1>13 DEF M!FetchHash, HashInv, Issued, M!reader, M!request, M!Goto
  <1>14. CASE UNCHANGED M!vars
    BY <1>14 DEF M!vars, HashInv, Issued, M!reader, M!request, M!Goto
  <1>15. QED
    BY <1>1, <1>2, <1>3, <1>4, <1>5, <1>6, <1>7, <1>8, <1>9, <1>10, <1>11, <1>12, <1>13,
           <1>14 DEF M!Next

(* RedisDict.set and CachedRedisDict: for any number of requests that list or *)
(* clear and of workers that read, a worker that finds its signature in Redis *)
(* while no write is under way has a copy that is the hash.                   *)
THEOREM RegistryCacheIsHash == M!Spec => []M!CacheIsHash
  <1>1. HashInv => M!CacheIsHash
    BY DEF HashInv, M!CacheIsHash, M!Quiet
  <1>2. QED
    BY <1>1, HashInit, HashNext, PTL DEF M!Spec

-----------------------------------------------------------------------------
P == INSTANCE AppConnections

(* The row of an app. *)

OneAdmin == \A a, b \in Admins : a = b

Accepted == row.key = server.key /\ row.token \in server.tokens

(* With one request at a time the row is what the request has read, the      *)
(* token it was given is one the server issued, and once that is stored the  *)
(* server accepts the row.                                                   *)
AppInv ==
    /\ DOMAIN req = Admins /\ row.active \in BOOLEAN /\ (row.active => Accepted)
    /\ \A a \in Admins :
          /\ req[a].at \in {"write", "dial", "enroll", "ready"} => req[a].row = row
          /\ req[a].at = "enroll" => row.key = server.key /\ req[a].tok \in server.tokens
          /\ req[a].at \in {"stored", "ready"} => Accepted

(* AppInv holds at the start: the app is not enabled. *)
LEMMA AppInit == P!Init => AppInv
  BY DEF P!Init, P!NoReq, AppInv, Accepted

(* Every step keeps AppInv. *)
LEMMA AppNext ==
  ASSUME OneAdmin, AppInv, [P!Next]_P!vars
  PROVE  AppInv'
  <1>1. ASSUME NEW a \in Admins, NEW op \in Ops, NEW w \in Workers, P!Receive(a, op, w)
       PROVE  AppInv'
    BY <1>1 DEF P!Receive, OneAdmin, AppInv, Accepted, P!NoReq, P!To, P!Fail
  <1>2. ASSUME NEW a \in Admins, NEW data \in {"none", "read", "key"}, NEW off \in BOOLEAN, P!UpdateApp(a, data, off)
       PROVE  AppInv'
    BY <1>2 DEF P!UpdateApp, OneAdmin, AppInv, Accepted, P!NoReq, P!To, P!Fail
  <1>3. ASSUME NEW a \in Admins, P!Uninstall(a)
       PROVE  AppInv'
    BY <1>3 DEF P!Uninstall, OneAdmin, AppInv, Accepted, P!NoReq, P!To, P!Fail
  <1>4. ASSUME NEW a \in Admins, NEW k \in 1 .. 2, P!ConnectWrite(a, k)
       PROVE  AppInv'
    BY <1>4 DEF P!ConnectWrite, OneAdmin, AppInv, Accepted, P!NoReq, P!To, P!Fail
  <1>5. ASSUME NEW a \in Admins, P!ReadBack(a)
       PROVE  AppInv'
    BY <1>5 DEF P!ReadBack, OneAdmin, AppInv, Accepted, P!NoReq, P!To, P!Fail
  <1>6. ASSUME NEW a \in Admins, P!Dial(a)
       PROVE  AppInv'
    <2>1. /\ req[a].row = row /\ req[a].at = "dial" /\ row' = row /\ DOMAIN req' = Admins
          /\ server'.key = server.key /\ server.tokens \subseteq server'.tokens
      BY <1>6 DEF P!Dial, P!Fail, AppInv
    <2>2. Accepted => Accepted'
      BY <2>1 DEF Accepted
    <2>3. \/ req'[a].at = "idle"
          \/ /\ req'[a].at = "enroll" /\ req'[a].row = row
             /\ row.key = server.key /\ req'[a].tok \in server'.tokens
      BY <1>6, <2>1 DEF P!Dial, P!Fail, P!NoReq, P!To, AppInv
    <2>4. \A b \in Admins : b = a
      BY DEF OneAdmin
    <2>5. QED
      BY <2>1, <2>2, <2>3, <2>4 DEF AppInv
  <1>7. ASSUME NEW a \in Admins, P!Enroll(a)
       PROVE  AppInv'
    <2>1. req[a].row = row /\ row.key = server.key /\ req[a].tok \in server.tokens
      BY <1>7 DEF P!Enroll, AppInv, Accepted
    <2>2. /\ row' = [key |-> row.key, token |-> req[a].tok, active |-> FALSE, upd |-> row.upd + 1]
          /\ req' = [req EXCEPT ![a] = P!To(a, "stored", req[a].row, req[a].tok)]
          /\ server' = server
      BY <1>7, <2>1 DEF P!Enroll
    <2>3. \A b \in Admins : b = a
      BY DEF OneAdmin
    <2>4. row'.key = row.key /\ row'.token = req[a].tok /\ row'.active = FALSE /\ DOMAIN req' = Admins
          /\ req'[a].at = "stored" /\ req'[a].tok = req[a].tok
      BY <2>2 DEF AppInv, P!To
    <2>5. QED
      BY <2>1, <2>2, <2>3, <2>4 DEF AppInv, Accepted
  <1>8. ASSUME NEW a \in Admins, P!Complete(a)
       PROVE  AppInv'
    <2>1. req[a].row = row /\ Accepted
      BY <1>8 DEF P!Complete, AppInv, Accepted
    <2>2. /\ row' = [key |-> row.key, token |-> row.token, active |-> TRUE, upd |-> row.upd + 1]
          /\ req' = [req EXCEPT ![a] = P!To(a, "enabled", req[a].row, req[a].tok)]
          /\ server' = server
      BY <1>8, <2>1 DEF P!Complete
    <2>3. \A b \in Admins : b = a
      BY DEF OneAdmin
    <2>4. row'.key = row.key /\ row'.token = row.token /\ row'.active = TRUE /\ DOMAIN req' = Admins
          /\ req'[a].at = "enabled" /\ req'[a].tok = req[a].tok
      BY <2>2 DEF AppInv, P!To
    <2>5. QED
      BY <2>1, <2>2, <2>3, <2>4 DEF AppInv, Accepted
  <1>9. ASSUME NEW a \in Admins, P!Keep(a)
       PROVE  AppInv'
    BY <1>9 DEF P!Keep, OneAdmin, AppInv, Accepted, P!NoReq, P!To, P!Fail
  <1>10. ASSUME NEW a \in Admins, P!GiveUp(a)
       PROVE  AppInv'
    BY <1>10 DEF P!GiveUp, OneAdmin, AppInv, Accepted, P!NoReq, P!To, P!Fail
  <1>11. ASSUME NEW w \in Workers, P!Refresh(w)
       PROVE  AppInv'
    BY <1>11 DEF P!Refresh, OneAdmin, AppInv, Accepted, P!NoReq, P!To, P!Fail
  <1>12. ASSUME NEW w \in Workers, P!Maintain(w)
       PROVE  AppInv'
    BY <1>12 DEF P!Maintain, OneAdmin, AppInv, Accepted, P!NoReq, P!To, P!Fail
  <1>13. ASSUME NEW w \in Workers, P!Drop(w)
       PROVE  AppInv'
    BY <1>13 DEF P!Drop, OneAdmin, AppInv, Accepted, P!NoReq, P!To, P!Fail
  <1>14. CASE UNCHANGED P!vars
    BY <1>14 DEF P!vars, OneAdmin, AppInv, Accepted, P!NoReq, P!To, P!Fail
  <1>15. QED
    BY <1>1, <1>2, <1>3, <1>4, <1>5, <1>6, <1>7, <1>8, <1>9, <1>10, <1>11, <1>12, <1>13,
           <1>14 DEF P!Next, P!Admin

(* connect_app_by_id and AppConnection.open: while administrators take turns, *)
(* an app is enabled only with a key its server accepts and a token it        *)
(* issued, for any number of workers and any requests that fail on the way.   *)
(* Two requests at once are excluded: the row is read again after it was      *)
(* written, and what the guarded write compares with may be the other's.      *)
THEOREM AppsActiveIsEnrolled ==
  ASSUME OneAdmin
  PROVE  P!Spec => []P!ActiveIsEnrolled
  <1>1. AppInv /\ [P!Next]_P!vars => AppInv'
    BY AppNext
  <1>2. AppInv => P!ActiveIsEnrolled
    BY DEF AppInv, Accepted, P!ActiveIsEnrolled
  <1>3. QED
    BY <1>1, <1>2, AppInit, PTL DEF P!Spec

-----------------------------------------------------------------------------
Y == INSTANCE ChatHistory

(* The messages of a chat: what the history in the chat and the rows of the  *)
(* table have to do with each other.                                         *)
(*                                                                           *)
(* The argument.  Every write of the history saves the rows of the messages  *)
(* it changes, in the same transaction.  A message without a row has         *)
(* therefore not changed since the chat was made, and the copy that a reader *)
(* took of it is what the history still says: Backfill adds no old text.     *)

Msg == [parent : Ids \cup {None}, kids : SUBSET Ids, role : {"user", "assistant"},
        done : {"yes", "no", "unset"}, ver : Nat, by : Y!Users]
Row == [parent : Ids \cup {None}, role : {"user", "assistant"}, ver : Nat, by : Y!Users,
        done : {"yes", "no"}]

Msgs(H) == DOMAIN H \subseteq Ids /\ \A i \in DOMAIN H : H[i] \in Msg
Rows(R) == DOMAIN R \subseteq Ids /\ \A i \in DOMAIN R : R[i] \in Row

HistoryTypes ==
    /\ Msgs(msgs) /\ Rows(rows) /\ running \subseteq Ids
    /\ DOMAIN snap = Tabs
    /\ \A t \in Tabs : snap[t] # None => Msgs(snap[t].msgs) /\ DOMAIN snap[t] = {"msgs", "cur"}
    /\ DOMAIN fill = Readers
    /\ \A r \in Readers : fill[r] # None => Rows(fill[r])

(* Two states of a message that the table cannot tell apart. *)
Same(m, n) == m.parent = n.parent /\ m.role = n.role /\ m.done = n.done /\ m.ver = n.ver

Agrees(stored, m) ==
    /\ stored.parent = m.parent /\ stored.role = m.role /\ stored.ver = m.ver
    /\ m.done # "unset" => stored.done = m.done

Stores ==
    /\ \A i \in DOMAIN msgs \cap DOMAIN rows : Agrees(rows[i], msgs[i])
    /\ \A r \in Readers : fill[r] # None =>
          \A i \in (DOMAIN msgs \ DOMAIN rows) \cap DOMAIN fill[r] : Agrees(fill[r][i], msgs[i])

HistoryInv == HistoryTypes /\ Stores

(* What the operations on a forest do. *)
LEMMA WithDoes ==
  ASSUME NEW f, NEW g
  PROVE  /\ DOMAIN Y!With(f, g) = DOMAIN f \cup DOMAIN g
         /\ \A i \in DOMAIN g : Y!With(f, g)[i] = g[i]
         /\ \A i \in DOMAIN f \ DOMAIN g : Y!With(f, g)[i] = f[i]
  BY DEF Y!With

(* Links to children are not in the table. *)
LEMMA SetKids ==
  ASSUME NEW m \in Msg, NEW K \in SUBSET Ids
  PROVE  [m EXCEPT !.kids = K] \in Msg /\ Same([m EXCEPT !.kids = K], m)
  BY DEF Msg, Same

(* A message is the same as itself. *)
LEMMA SameMsg ==
  ASSUME NEW m \in Msg
  PROVE  Same(m, m) /\ m.kids \in SUBSET Ids /\ m.ver \in Nat /\ m.ver >= m.ver
  BY DEF Msg, Same

(* Same is transitive. *)
LEMMA SameSame ==
  ASSUME NEW l, NEW m, NEW n, Same(l, m), Same(m, n)
  PROVE  Same(l, n)
  BY DEF Same

(* The repair of the links changes nothing that the table has. *)
LEMMA RepairDoes ==
  ASSUME NEW H, Msgs(H)
  PROVE  /\ Msgs(Y!Repair(H)) /\ DOMAIN Y!Repair(H) = DOMAIN H
         /\ \A i \in DOMAIN H : Same(Y!Repair(H)[i], H[i])
  <1> DEFINE K(i) == H[i].kids \cup Y!Children(H, i)
  <1>1. Y!Repair(H) = [i \in DOMAIN H |-> [H[i] EXCEPT !.kids = K(i)]]
    BY DEF Y!Repair
  <1>2. ASSUME NEW i \in DOMAIN H PROVE H[i] \in Msg /\ K(i) \in SUBSET Ids
    BY SameMsg DEF Msgs, Y!Children
  <1> HIDE DEF K
  <1>3. ASSUME NEW i \in DOMAIN H PROVE Y!Repair(H)[i] \in Msg /\ Same(Y!Repair(H)[i], H[i])
    BY <1>1, <1>2, SetKids
  <1>4. DOMAIN Y!Repair(H) = DOMAIN H
    BY <1>1
  <1>5. QED
    BY <1>3, <1>4 DEF Msgs

(* Neither does the link from a parent. *)
LEMMA AddChildDoes ==
  ASSUME NEW H, Msgs(H), NEW i \in DOMAIN H
  PROVE  /\ Msgs(Y!AddChild(H, i)) /\ DOMAIN Y!AddChild(H, i) = DOMAIN H
         /\ \A j \in DOMAIN H : Same(Y!AddChild(H, i)[j], H[j])
  <1>1. CASE H[i].parent \notin DOMAIN H
    BY <1>1, SameMsg DEF Y!AddChild, Msgs
  <1>2. CASE H[i].parent \in DOMAIN H
    <2> DEFINE p == H[i].parent
               K == H[p].kids \cup {i}
    <2>1. Y!AddChild(H, i) = [H EXCEPT ![p] = [H[p] EXCEPT !.kids = K]]
      BY <1>2 DEF Y!AddChild
    <2>2. p \in DOMAIN H /\ H[p] \in Msg /\ K \in SUBSET Ids
      BY <1>2, SameMsg DEF Msgs
    <2> HIDE DEF p, K
    <2>3. Y!AddChild(H, i)[p] \in Msg /\ Same(Y!AddChild(H, i)[p], H[p])
      BY <2>1, <2>2, SetKids
    <2>4. DOMAIN Y!AddChild(H, i) = DOMAIN H /\ \A j \in DOMAIN H \ {p} : Y!AddChild(H, i)[j] = H[j]
      BY <2>1
    <2>5. QED
      BY <2>2, <2>3, <2>4, SameMsg DEF Msgs
  <1>3. QED
    BY <1>1, <1>2

(* A message that is put into a forest leaves the others as they are. *)
LEMMA PutDoes ==
  ASSUME NEW H, Msgs(H), NEW i \in Ids, NEW m \in Msg
  PROVE  /\ Msgs(Y!Put(H, i, m)) /\ DOMAIN Y!Put(H, i, m) = DOMAIN H \cup {i}
         /\ Same(Y!Put(H, i, m)[i], m)
         /\ \A j \in DOMAIN H \ {i} : Same(Y!Put(H, i, m)[j], H[j])
  <1> DEFINE G == Y!With(H, [j \in {i} |-> m])
  <1>1. DOMAIN G = DOMAIN H \cup {i} /\ G[i] = m /\ \A j \in DOMAIN H \ {i} : G[j] = H[j]
    BY WithDoes
  <1>2. Y!Put(H, i, m) = Y!AddChild(G, i)
    BY DEF Y!Put
  <1> HIDE DEF G
  <1>3. Msgs(G)
    BY <1>1 DEF Msgs
  <1>4. QED
    BY <1>1, <1>2, <1>3, AddChildDoes

(* What is saved wins over what is stored; links are made anew. *)
LEMMA MergeDoes ==
  ASSUME NEW E, NEW F, Msgs(E), Msgs(F)
  PROVE  /\ Msgs(Y!Merge(E, F)) /\ DOMAIN Y!Merge(E, F) = DOMAIN E \cup DOMAIN F
         /\ \A i \in DOMAIN F : Same(Y!Merge(E, F)[i], F[i])
         /\ \A i \in DOMAIN E \ DOMAIN F : Same(Y!Merge(E, F)[i], E[i])
  <1> DEFINE G == Y!With(E, F)
  <1>1. /\ DOMAIN G = DOMAIN E \cup DOMAIN F
        /\ \A i \in DOMAIN F : G[i] = F[i]
        /\ \A i \in DOMAIN E \ DOMAIN F : G[i] = E[i]
    BY WithDoes
  <1>2. Y!Merge(E, F) = [i \in DOMAIN G |-> [G[i] EXCEPT !.kids = Y!Children(G, i)]]
    BY DEF Y!Merge
  <1> HIDE DEF G
  <1>3. Msgs(G)
    BY <1>1 DEF Msgs
  <1>4. ASSUME NEW i \in DOMAIN G PROVE Y!Merge(E, F)[i] \in Msg /\ Same(Y!Merge(E, F)[i], G[i])
    <2>1. G[i] \in Msg /\ Y!Children(G, i) \in SUBSET Ids
      BY <1>3 DEF Msgs, Y!Children
    <2>2. QED
      BY <1>2, <2>1, SetKids
  <1>5. DOMAIN Y!Merge(E, F) = DOMAIN G
    BY <1>2
  <1>6. QED
    BY <1>1, <1>3, <1>4, <1>5 DEF Msgs

(* A row that is written says what its message says. *)
LEMMA RowAgrees ==
  ASSUME NEW m \in Msg
  PROVE  /\ Y!RowOf(m) \in Row /\ Agrees(Y!RowOf(m), m)
         /\ \A old \in Row : Y!RowAfter(old, m) \in Row /\ Agrees(Y!RowAfter(old, m), m)
  BY DEF Msg, Row, Agrees, Y!RowOf, Y!RowAfter

(* A save writes the rows of S and no others. *)
LEMMA SaveDoes ==
  ASSUME Rows(rows), NEW G, Msgs(G), NEW S, S \subseteq DOMAIN G
  PROVE  /\ Rows(Y!Save(G, S)) /\ DOMAIN Y!Save(G, S) = DOMAIN rows \cup S
         /\ \A i \in S : Agrees(Y!Save(G, S)[i], G[i])
         /\ \A i \in DOMAIN rows \ S : Y!Save(G, S)[i] = rows[i]
  <1> DEFINE W == [i \in S |-> IF i \in DOMAIN rows THEN Y!RowAfter(rows[i], G[i]) ELSE Y!RowOf(G[i])]
  <1>1. ASSUME NEW i \in S PROVE W[i] \in Row /\ Agrees(W[i], G[i])
    <2>1. G[i] \in Msg /\ (i \in DOMAIN rows => rows[i] \in Row)
      BY DEF Msgs, Rows
    <2>2. QED
      BY <2>1, RowAgrees
  <1>2. Y!Save(G, S) = Y!With(rows, W) /\ DOMAIN W = S
    BY DEF Y!Save
  <1> HIDE DEF W
  <1>3. /\ DOMAIN Y!Save(G, S) = DOMAIN rows \cup S
        /\ \A i \in S : Y!Save(G, S)[i] = W[i]
        /\ \A i \in DOMAIN rows \ S : Y!Save(G, S)[i] = rows[i]
    <2>1. /\ DOMAIN Y!With(rows, W) = DOMAIN rows \cup DOMAIN W
          /\ \A i \in DOMAIN W : Y!With(rows, W)[i] = W[i]
          /\ \A i \in DOMAIN rows \ DOMAIN W : Y!With(rows, W)[i] = rows[i]
      BY WithDoes
    <2>2. QED
      BY <1>2, <2>1
  <1>4. QED
    BY <1>1, <1>3 DEF Rows, Msgs

(* A step keeps the stores together when it writes the rows of what it       *)
(* changes.                                                                  *)
LEMMA StoresKept ==
  ASSUME HistoryInv, fill' = fill, Msgs(msgs'),
         \A i \in DOMAIN msgs' :
            \/ i \in DOMAIN rows' /\ Agrees(rows'[i], msgs'[i])
            \/ /\ i \in DOMAIN msgs /\ Same(msgs'[i], msgs[i])
               /\ i \in DOMAIN rows' <=> i \in DOMAIN rows
               /\ i \in DOMAIN rows => rows'[i] = rows[i]
  PROVE  Stores'
  <1>1. \A i \in DOMAIN msgs' \cap DOMAIN rows' : Agrees(rows'[i], msgs'[i])
    BY DEF HistoryInv, Stores, Agrees, Same
  <1>2. ASSUME NEW r \in Readers, fill[r] # None,
               NEW i \in (DOMAIN msgs' \ DOMAIN rows') \cap DOMAIN fill[r]
        PROVE  Agrees(fill[r][i], msgs'[i])
    <2>1. i \in DOMAIN msgs \ DOMAIN rows /\ Same(msgs'[i], msgs[i])
      OBVIOUS
    <2>2. Agrees(fill[r][i], msgs[i])
      BY <1>2, <2>1 DEF HistoryInv, Stores
    <2>3. QED
      BY <2>1, <2>2 DEF Agrees, Same
  <1>3. QED
    BY <1>1, <1>2 DEF Stores

(* So does one that writes the history and then the rows of S. *)
LEMMA SavedKept ==
  ASSUME HistoryInv, fill' = fill, Msgs(msgs'), NEW S, S \subseteq DOMAIN msgs',
         rows' = Y!Save(msgs', S),
         \A i \in DOMAIN msgs' \ S : i \in DOMAIN msgs /\ Same(msgs'[i], msgs[i])
  PROVE  Stores' /\ Rows(rows')
  <1>1. /\ Rows(rows') /\ DOMAIN rows' = DOMAIN rows \cup S
        /\ \A i \in S : Agrees(rows'[i], msgs'[i])
        /\ \A i \in DOMAIN rows \ S : rows'[i] = rows[i]
    BY SaveDoes DEF HistoryInv, HistoryTypes
  <1>2. QED
    BY <1>1, StoresKept

(* What a step that writes the history has to show. *)
Written == Msgs(msgs') /\ Rows(rows') /\ Stores' /\ Y!ReplyKept

(* A new message is a message. *)
LEMMA NewMsg ==
  ASSUME NEW p \in Ids \cup {None}, NEW role \in {"user", "assistant"},
         NEW done \in {"yes", "no", "unset"}, NEW by \in Y!Users
  PROVE  Y!New(p, role, done, by) \in Msg
  BY DEF Y!New, Msg

(* A message that looks the same to the table has lost nothing. *)
LEMMA SameKept ==
  ASSUME NEW m \in Msg, NEW n, Same(n, m)
  PROVE  /\ m.done = "no" => n.ver >= m.ver
         /\ m.done = "yes" => n.done # "no"
  BY DEF Msg, Same

(* It is enough to look at the messages that are saved. *)
LEMMA SavedWritten ==
  ASSUME HistoryInv, fill' = fill, Msgs(msgs'), NEW S, S \subseteq DOMAIN msgs',
         rows' = Y!Save(msgs', S),
         \A i \in DOMAIN msgs' \ S : i \in DOMAIN msgs /\ Same(msgs'[i], msgs[i]),
         \A i \in S \cap DOMAIN msgs : msgs[i].role = "assistant" =>
            /\ msgs[i].done = "no" => msgs'[i].ver >= msgs[i].ver
            /\ msgs[i].done = "yes" => msgs'[i].done # "no"
  PROVE  Written
  <1>1. Stores' /\ Rows(rows')
    BY SavedKept
  <1>2. ASSUME NEW i \in DOMAIN msgs \cap DOMAIN msgs', msgs[i].role = "assistant"
        PROVE  /\ msgs[i].done = "no" => msgs'[i].ver >= msgs[i].ver
               /\ msgs[i].done = "yes" => msgs'[i].done # "no"
    <2>1. CASE i \in S
      BY <1>2, <2>1
    <2>2. CASE i \notin S
      <3>1. Same(msgs'[i], msgs[i]) /\ msgs[i] \in Msg
        BY <2>2 DEF HistoryInv, HistoryTypes, Msgs
      <3>2. QED
        BY <3>1, SameKept
    <2>3. QED
      BY <2>1, <2>2
  <1>3. QED
    BY <1>1, <1>2 DEF Written, Y!ReplyKept

(* A turn: only an unfinished, empty reply is put again. *)
LEMMA InsertTurnWrites ==
  ASSUME HistoryInv, NEW by \in Y!Users, NEW u \in Ids, NEW a \in Ids, NEW p \in Ids \cup {None},
         Y!InsertTurn(by, u, p, a)
  PROVE  Written
  <1> DEFINE m == IF u \in DOMAIN msgs THEN msgs[u] ELSE Y!New(p, "user", "unset", by)
             n == Y!New(u, "assistant", "no", by)
             H == Y!Put(msgs, u, m)
  <1>1. /\ u # a /\ fill' = fill /\ msgs' = Y!Put(H, a, n) /\ rows' = Y!Save(msgs', {u, a})
        /\ a \in DOMAIN msgs => msgs[a].done # "yes" /\ msgs[a].ver = 0
    BY DEF Y!InsertTurn
  <1>2. m \in Msg /\ n \in Msg /\ Msgs(msgs)
    BY NewMsg DEF HistoryInv, HistoryTypes, Msgs
  <1>3. n.ver = 0
    BY DEF Y!New
  <1>4. u \in DOMAIN msgs => m = msgs[u]
    OBVIOUS
  <1>5. /\ Msgs(H) /\ DOMAIN H = DOMAIN msgs \cup {u} /\ Same(H[u], m)
        /\ \A j \in DOMAIN msgs \ {u} : Same(H[j], msgs[j])
    BY <1>2, PutDoes
  <1> HIDE DEF m, n, H
  <1>6. /\ Msgs(msgs') /\ DOMAIN msgs' = DOMAIN H \cup {a} /\ Same(msgs'[a], n)
        /\ \A j \in DOMAIN H \ {a} : Same(msgs'[j], H[j])
    BY <1>1, <1>2, <1>5, PutDoes
  <1>7. ASSUME NEW i \in DOMAIN msgs' \ {u, a} PROVE i \in DOMAIN msgs /\ Same(msgs'[i], msgs[i])
    BY <1>5, <1>6, SameSame
  <1>8. ASSUME NEW i \in {u, a} \cap DOMAIN msgs, msgs[i].role = "assistant"
        PROVE  /\ msgs[i].done = "no" => msgs'[i].ver >= msgs[i].ver
               /\ msgs[i].done = "yes" => msgs'[i].done # "no"
    <2>1. CASE i = a
      <3>1. msgs'[a].ver = 0 /\ msgs[a].ver = 0 /\ msgs[a].done # "yes"
        BY <1>1, <1>3, <1>6, <2>1 DEF Same
      <3>2. QED
        BY <2>1, <3>1
    <2>2. CASE i = u
      <3>1. Same(msgs'[u], H[u]) /\ Same(H[u], msgs[u])
        BY <1>1, <1>4, <1>5, <1>6, <2>2
      <3>2. Same(msgs'[u], msgs[u]) /\ msgs[u] \in Msg
        BY <1>2, <2>2, <3>1, SameSame DEF Msgs
      <3>3. QED
        BY <2>2, <3>2, SameKept
    <2>3. QED
      BY <2>1, <2>2
  <1>9. {u, a} \subseteq DOMAIN msgs'
    BY <1>5, <1>6
  <1>10. QED
    BY <1>1, <1>6, <1>7, <1>8, <1>9, SavedWritten

(* What an upsert changes of a message. *)
LEMMA WriteMsg ==
  ASSUME NEW h \in Msg, NEW d \in {"yes", "no", "unset"}
  PROVE  /\ [h EXCEPT !.ver = @ + 1, !.done = d] \in Msg
         /\ [h EXCEPT !.ver = @ + 1, !.done = d].ver = h.ver + 1
         /\ [h EXCEPT !.ver = @ + 1, !.done = d].done = d
  <1> DEFINE n == [h EXCEPT !.ver = @ + 1]
             g == [n EXCEPT !.done = d]
  <1>1. n \in Msg /\ n.ver = h.ver + 1
    BY DEF Msg
  <1>2. [h EXCEPT !.ver = @ + 1, !.done = d] = g
    OBVIOUS
  <1> HIDE DEF n
  <1>3. g \in Msg /\ g.ver = n.ver /\ g.done = d
    BY <1>1 DEF Msg
  <1>4. QED
    BY <1>1, <1>2, <1>3

(* A streamed save or an edit adds to the text. *)
LEMMA UpsertWrites ==
  ASSUME HistoryInv, fill' = fill, NEW i \in Ids, NEW role \in {"user", "assistant"},
         NEW done \in {"yes", "unset"}, Y!Upsert(i, role, done)
  PROVE  Written
  <1> DEFINE H == Y!Repair(msgs)
             d == IF done = "unset" THEN H[i].done ELSE done
             g == [H[i] EXCEPT !.ver = @ + 1, !.done = d]
             G == [H EXCEPT ![i] = g]
  <1>1. /\ Msgs(msgs) /\ Msgs(H) /\ DOMAIN H = DOMAIN msgs
        /\ \A j \in DOMAIN msgs : Same(H[j], msgs[j])
    BY RepairDoes DEF HistoryInv, HistoryTypes
  <1>2. CASE i \in DOMAIN msgs
    <2>1. rows' = Y!Save(msgs', {i})
      BY <1>1, <1>2 DEF Y!Upsert
    <2>2. msgs' = Y!AddChild([H EXCEPT ![i].ver = @ + 1,
                                     ![i].done = IF done = "unset" THEN @ ELSE done], i)
      BY <1>1, <1>2 DEF Y!Upsert
    <2>3. H[i] \in Msg /\ msgs[i] \in Msg /\ i \in DOMAIN H
      BY <1>1, <1>2 DEF Msgs
    <2>4. G = [H EXCEPT ![i].ver = @ + 1, ![i].done = IF done = "unset" THEN @ ELSE done]
      BY <2>3 DEF Msg
    <2>5. /\ g \in Msg /\ g.ver = H[i].ver + 1
          /\ g.done = H[i].done \/ g.done = "yes"
      <3>1. d \in {"yes", "no", "unset"} /\ (d = H[i].done \/ d = "yes")
        BY <2>3 DEF Msg
      <3> HIDE DEF d
      <3>2. QED
        BY <2>3, <3>1, WriteMsg
    <2>6. DOMAIN G = DOMAIN H /\ G[i] = g /\ \A j \in DOMAIN H \ {i} : G[j] = H[j]
      BY <2>3
    <2>7. msgs' = Y!AddChild(G, i)
      BY <2>2, <2>4
    <2> HIDE DEF d, g, G, H
    <2>8. Msgs(G)
      BY <1>1, <2>5, <2>6 DEF Msgs
    <2>9. /\ Msgs(msgs') /\ DOMAIN msgs' = DOMAIN msgs
          /\ \A j \in DOMAIN msgs : Same(msgs'[j], G[j])
      BY <1>1, <1>2, <2>6, <2>7, <2>8, AddChildDoes
    <2>10. ASSUME NEW j \in DOMAIN msgs' \ {i} PROVE j \in DOMAIN msgs /\ Same(msgs'[j], msgs[j])
      BY <1>1, <2>6, <2>9, SameSame
    <2>11. /\ msgs[i].done = "no" => msgs'[i].ver >= msgs[i].ver
           /\ msgs[i].done = "yes" => msgs'[i].done # "no"
      <3>1. Same(msgs'[i], g) /\ Same(H[i], msgs[i]) /\ msgs[i].ver \in Nat
        BY <1>1, <1>2, <2>3, <2>6, <2>9, SameMsg
      <3>2. msgs'[i].ver = msgs[i].ver + 1 /\ (msgs'[i].done = msgs[i].done \/ msgs'[i].done = "yes")
        BY <2>5, <3>1 DEF Same
      <3>3. QED
        BY <3>1, <3>2
    <2>12. \A j \in {i} \cap DOMAIN msgs : msgs[j].role = "assistant" =>
             /\ msgs[j].done = "no" => msgs'[j].ver >= msgs[j].ver
             /\ msgs[j].done = "yes" => msgs'[j].done # "no"
      BY <2>11
    <2>13. {i} \subseteq DOMAIN msgs'
      BY <1>2, <2>9
    <2>14. QED
      BY <2>1, <2>9, <2>10, <2>12, <2>13, SavedWritten
  <1>3. CASE i \notin DOMAIN msgs
    <2>1. PICK p \in Y!Found(H, i) : msgs' = Y!Put(H, i, Y!Again(p, role, done)) /\ rows' = Y!Save(msgs', {i})
      BY <1>1, <1>3 DEF Y!Upsert
    <2>2. p \in Ids \cup {None}
      BY <1>1 DEF Y!Found, Msgs
    <2>3. Y!Again(p, role, done) \in Msg
      BY <2>2 DEF Y!Again, Y!New, Msg, Y!Users
    <2> HIDE DEF d, g, G, H
    <2>4. /\ Msgs(msgs') /\ DOMAIN msgs' = DOMAIN msgs \cup {i}
          /\ \A j \in DOMAIN msgs \ {i} : Same(msgs'[j], H[j])
      <3> DEFINE m == Y!Again(p, role, done)
      <3>1. m \in Msg /\ msgs' = Y!Put(H, i, m)
        BY <2>1, <2>3
      <3> HIDE DEF m
      <3>2. /\ Msgs(Y!Put(H, i, m)) /\ DOMAIN Y!Put(H, i, m) = DOMAIN H \cup {i}
            /\ \A j \in DOMAIN H \ {i} : Same(Y!Put(H, i, m)[j], H[j])
        BY <1>1, <3>1, PutDoes
      <3>3. QED
        BY <1>1, <3>1, <3>2
    <2>5. ASSUME NEW j \in DOMAIN msgs' \ {i} PROVE j \in DOMAIN msgs /\ Same(msgs'[j], msgs[j])
      BY <1>1, <2>4, SameSame
    <2>6. {i} \cap DOMAIN msgs = {} /\ {i} \subseteq DOMAIN msgs'
      BY <1>3, <2>4
    <2>7. QED
      BY <2>1, <2>4, <2>5, <2>6, SavedWritten
  <1>4. QED
    BY <1>2, <1>3

(* Another field of a message. *)
LEMMA AnnotateWrites ==
  ASSUME HistoryInv, NEW i \in Ids, NEW repair \in BOOLEAN, Y!Annotate(i, repair)
  PROVE  Written
  <1>1. fill' = fill /\ Msgs(msgs)
    BY DEF Y!Annotate, HistoryInv, HistoryTypes
  <1>2. /\ Msgs(msgs') /\ DOMAIN msgs' = DOMAIN msgs
        /\ \A j \in DOMAIN msgs : Same(msgs'[j], msgs[j])
    <2>1. msgs' = IF repair THEN Y!Repair(msgs) ELSE msgs
      BY DEF Y!Annotate
    <2>2. \A j \in DOMAIN msgs : Same(msgs[j], msgs[j])
      BY <1>1, SameMsg DEF Msgs
    <2>3. QED
      BY <1>1, <2>1, <2>2, RepairDoes
  <1>3. ASSUME NEW j \in DOMAIN msgs
        PROVE  /\ msgs[j].done = "no" => msgs'[j].ver >= msgs[j].ver
               /\ msgs[j].done = "yes" => msgs'[j].done # "no"
    BY <1>1, <1>2, SameKept DEF Msgs
  <1>4. CASE i \in DOMAIN msgs
    <2>1. rows' = Y!Save(msgs', {i}) /\ {i} \subseteq DOMAIN msgs'
      BY <1>2, <1>4 DEF Y!Annotate
    <2>2. QED
      BY <1>1, <1>2, <1>3, <2>1, SavedWritten
  <1>5. CASE i \notin DOMAIN msgs
    <2>1. rows' = rows
      BY <1>5 DEF Y!Annotate
    <2>2. Stores'
      BY <1>1, <1>2, <2>1, StoresKept
    <2>3. Rows(rows')
      BY <2>1 DEF HistoryInv, HistoryTypes
    <2>4. QED
      BY <1>2, <1>3, <2>2, <2>3 DEF Written, Y!ReplyKept
  <1>6. QED
    BY <1>4, <1>5

(* The row that is read before the message says the same (Stores). *)
LEMMA EditOutputWrites ==
  ASSUME HistoryInv, NEW i \in Ids, Y!EditOutput(i)
  PROVE  Written
  <1> DEFINE kids == IF i \in DOMAIN msgs THEN msgs[i].kids ELSE {}
             above == IF rows[i].parent = None /\ i \in DOMAIN msgs THEN msgs[i].parent ELSE rows[i].parent
             old == IF i \in DOMAIN rows
                    THEN [parent |-> above, kids |-> kids, role |-> rows[i].role, done |-> rows[i].done,
                          ver |-> rows[i].ver, by |-> rows[i].by]
                    ELSE msgs[i]
             new == [old EXCEPT !.ver = @ + 1]
  <1>1. /\ i \in DOMAIN msgs \cup DOMAIN rows /\ fill' = fill
        /\ msgs' = Y!With(msgs, [j \in {i} |-> new]) /\ rows' = Y!Save(msgs', {i})
    BY DEF Y!EditOutput
  <1>2. Msgs(msgs) /\ Rows(rows)
    BY DEF HistoryInv, HistoryTypes
  <1>3. old \in Msg
    <2>1. i \in DOMAIN msgs => msgs[i] \in Msg /\ msgs[i].kids \in SUBSET Ids /\ msgs[i].parent \in Ids \cup {None}
      BY <1>2 DEF Msgs, Msg
    <2>2. kids \in SUBSET Ids
      BY <2>1
    <2>3. CASE i \in DOMAIN rows
      <3>1. rows[i] \in Row
        BY <1>2, <2>3 DEF Rows
      <3>2. above \in Ids \cup {None}
        BY <2>1, <3>1 DEF Row
      <3> HIDE DEF above, kids
      <3>3. QED
        BY <2>2, <2>3, <3>1, <3>2 DEF Row, Msg
    <2>4. QED
      BY <1>1, <2>1, <2>3
  <1>4. i \in DOMAIN msgs =>
          /\ msgs[i].done = "no" => old.ver = msgs[i].ver
          /\ msgs[i].done = "yes" => old.done = "yes"
    <2>1. ASSUME i \in DOMAIN msgs, i \in DOMAIN rows PROVE Agrees(rows[i], msgs[i])
      BY <2>1 DEF HistoryInv, Stores
    <2>2. QED
      BY <2>1 DEF Agrees
  <1> HIDE DEF old
  <1>5. new \in Msg /\ new.ver = old.ver + 1 /\ new.done = old.done /\ old.ver \in Nat
    BY <1>3 DEF Msg
  <1> HIDE DEF new
  <1>6. /\ DOMAIN msgs' = DOMAIN msgs \cup {i} /\ msgs'[i] = new
        /\ \A j \in DOMAIN msgs \ {i} : msgs'[j] = msgs[j]
    BY <1>1, WithDoes
  <1>7. Msgs(msgs')
    BY <1>2, <1>5, <1>6 DEF Msgs
  <1>8. ASSUME NEW j \in DOMAIN msgs' \ {i} PROVE j \in DOMAIN msgs /\ Same(msgs'[j], msgs[j])
    BY <1>6 DEF Same
  <1>9. ASSUME NEW j \in {i} \cap DOMAIN msgs, msgs[j].role = "assistant"
        PROVE  /\ msgs[j].done = "no" => msgs'[j].ver >= msgs[j].ver
               /\ msgs[j].done = "yes" => msgs'[j].done # "no"
    BY <1>4, <1>5, <1>6
  <1>10. {i} \subseteq DOMAIN msgs'
    BY <1>6
  <1>11. QED
    BY <1>1, <1>7, <1>8, <1>9, <1>10, SavedWritten

(* The save of a copy: what is stale keeps its stored state. *)
LEMMA SaveHistoryWrites ==
  ASSUME HistoryInv, NEW t \in Tabs, NEW c \in Ids, Y!SaveHistory(t, c)
  PROVE  Written
  <1> DEFINE copy == snap[t].msgs
             inc == [i \in DOMAIN copy |-> [copy[i] EXCEPT !.by = "owner"]]
             H == Y!Merge(msgs, inc)
             Kept == {j \in DOMAIN msgs : Y!Stale(msgs, H, j)}
             K == Y!With(H, [i \in Kept |-> msgs[i]])
             S == {i \in DOMAIN inc : i \in DOMAIN msgs => msgs'[i] # msgs[i]}
  <1>1. /\ snap[t] # None /\ fill' = fill /\ msgs' = Y!Merge(K, <<>>) /\ rows' = Y!Save(msgs', S)
    BY DEF Y!SaveHistory
  <1>2. Msgs(msgs) /\ Msgs(copy)
    BY <1>1 DEF HistoryInv, HistoryTypes
  <1>3. Msgs(inc)
    <2>1. ASSUME NEW i \in DOMAIN copy PROVE inc[i] \in Msg
      BY <1>2 DEF Msgs, Msg, Y!Users
    <2>2. DOMAIN inc \subseteq Ids
      BY <1>2 DEF Msgs
    <2>3. QED
      BY <2>1, <2>2 DEF Msgs
  <1> HIDE DEF copy, inc
  <1>4. /\ Msgs(H) /\ DOMAIN H = DOMAIN msgs \cup DOMAIN inc
        /\ \A i \in DOMAIN msgs \ DOMAIN inc : Same(H[i], msgs[i])
    BY <1>2, <1>3, MergeDoes
  <1>5. /\ DOMAIN K = DOMAIN msgs \cup DOMAIN inc
        /\ \A i \in Kept : K[i] = msgs[i]
        /\ \A i \in DOMAIN H \ Kept : K[i] = H[i]
    <2>1. DOMAIN [i \in Kept |-> msgs[i]] = Kept /\ \A i \in Kept : [j \in Kept |-> msgs[j]][i] = msgs[i]
      OBVIOUS
    <2>2. Kept \subseteq DOMAIN msgs
      OBVIOUS
    <2> DEFINE old == [i \in Kept |-> msgs[i]]
    <2>3. K = Y!With(H, old) /\ DOMAIN old = Kept /\ \A i \in Kept : old[i] = msgs[i]
      BY <2>1
    <2> HIDE DEF old, Kept, H, K
    <2>4. /\ DOMAIN K = DOMAIN H \cup Kept
          /\ \A i \in Kept : K[i] = old[i]
          /\ \A i \in DOMAIN H \ Kept : K[i] = H[i]
      <3>1. /\ DOMAIN Y!With(H, old) = DOMAIN H \cup DOMAIN old
            /\ \A i \in DOMAIN old : Y!With(H, old)[i] = old[i]
            /\ \A i \in DOMAIN H \ DOMAIN old : Y!With(H, old)[i] = H[i]
        BY WithDoes
      <3>2. QED
        BY <2>3, <3>1
    <2>5. QED
      BY <1>4, <2>2, <2>3, <2>4
  <1> HIDE DEF H, K
  <1>6. ASSUME NEW i \in DOMAIN msgs, msgs[i].role = "assistant", i \notin Kept
        PROVE  msgs[i].done # "no" /\ H[i].done # "no"
    <2>1. ~ Y!Stale(msgs, H, i)
      BY <1>6
    <2>2. "no" \notin {msgs[i].done, H[i].done}
      BY <1>6, <2>1 DEF Y!Stale
    <2>3. QED
      BY <2>2
  <1>7. Kept \subseteq DOMAIN msgs
    OBVIOUS
  <1> HIDE DEF Kept
  <1>8. Msgs(K)
    BY <1>2, <1>4, <1>5, <1>7 DEF Msgs
  <1>9. Msgs(<<>>) /\ DOMAIN <<>> = {}
    BY DEF Msgs
  <1>10. /\ Msgs(msgs') /\ DOMAIN msgs' = DOMAIN msgs \cup DOMAIN inc
         /\ \A i \in DOMAIN K : Same(msgs'[i], K[i])
    <2>1. /\ Msgs(Y!Merge(K, <<>>)) /\ DOMAIN Y!Merge(K, <<>>) = DOMAIN K \cup DOMAIN <<>>
          /\ \A i \in DOMAIN K \ DOMAIN <<>> : Same(Y!Merge(K, <<>>)[i], K[i])
      BY <1>8, <1>9, MergeDoes
    <2>2. QED
      BY <1>1, <1>5, <1>9, <2>1
  <1>11. \A i \in DOMAIN msgs : Same(msgs[i], msgs[i])
    BY <1>2, SameMsg DEF Msgs
  <1>12. ASSUME NEW i \in DOMAIN msgs' \ S PROVE i \in DOMAIN msgs /\ Same(msgs'[i], msgs[i])
    <2>1. CASE i \in DOMAIN inc
      BY <1>11, <2>1
    <2>2. CASE i \notin DOMAIN inc
      <3>1. i \in DOMAIN msgs /\ i \in DOMAIN K /\ i \in DOMAIN H
        BY <1>4, <1>5, <1>10, <2>2
      <3>2. Same(K[i], msgs[i])
        BY <1>4, <1>5, <1>11, <2>2, <3>1
      <3>3. QED
        BY <1>10, <3>1, <3>2, SameSame
    <2>3. QED
      BY <2>1, <2>2
  <1>13. ASSUME NEW i \in DOMAIN msgs, msgs[i].role = "assistant"
         PROVE  /\ msgs[i].done = "no" => msgs'[i].ver >= msgs[i].ver
                /\ msgs[i].done = "yes" => msgs'[i].done # "no"
    <2>1. i \in DOMAIN K /\ i \in DOMAIN H /\ Same(msgs'[i], K[i]) /\ msgs[i] \in Msg
      BY <1>2, <1>4, <1>5, <1>10 DEF Msgs
    <2>2. CASE i \in Kept
      <3>1. Same(msgs'[i], msgs[i])
        BY <1>5, <2>1, <2>2
      <3>2. QED
        BY <2>1, <3>1, SameKept
    <2>3. CASE i \notin Kept
      <3>1. msgs[i].done # "no" /\ H[i].done # "no" /\ K[i] = H[i]
        BY <1>5, <1>6, <1>13, <2>1, <2>3
      <3>2. QED
        BY <2>1, <3>1 DEF Same
    <2>4. QED
      BY <2>2, <2>3
  <1>14. S \subseteq DOMAIN msgs'
    BY <1>10
  <1>15. \A i \in S \cap DOMAIN msgs : msgs[i].role = "assistant" =>
            /\ msgs[i].done = "no" => msgs'[i].ver >= msgs[i].ver
            /\ msgs[i].done = "yes" => msgs'[i].done # "no"
    BY <1>13
  <1> HIDE DEF S
  <1>16. QED
    BY <1>1, <1>10, <1>12, <1>14, <1>15, SavedWritten

(* Whatever moves up has its row written: its parent is that of the message deleted. *)
LEMMA DeleteMessageWrites ==
  ASSUME HistoryInv, NEW i \in Ids, Y!DeleteMessage(i)
  PROVE  Written
  <1> DEFINE H == Y!Repair(msgs)
             p == H[i].parent
             D == Y!Deleted(H, i)
             U == Y!MovedUp(H, i)
             G == Y!Without(H, i)
             S == Y!Children(G, p)
             R == Y!Save(G, S)
  <1>1. /\ Msgs(msgs) /\ Rows(rows) /\ Msgs(H) /\ DOMAIN H = DOMAIN msgs
        /\ \A j \in DOMAIN msgs : Same(H[j], msgs[j])
    BY RepairDoes DEF HistoryInv, HistoryTypes
  <1>2. fill' = fill
    BY DEF Y!DeleteMessage
  <1>3. CASE i \notin DOMAIN msgs
    <2>1. msgs' = H /\ rows' = rows
      BY <1>1, <1>3 DEF Y!DeleteMessage
    <2> HIDE DEF H
    <2>2. Stores'
      BY <1>1, <1>2, <2>1, StoresKept
    <2>3. Y!ReplyKept
      BY <1>1, <2>1, SameKept DEF Msgs, Y!ReplyKept
    <2>4. QED
      BY <1>1, <2>1, <2>2, <2>3 DEF Written
  <1>4. CASE i \in DOMAIN msgs
    <2>1. msgs' = G /\ rows' = [j \in DOMAIN R \ D |-> R[j]]
      BY <1>1, <1>4 DEF Y!DeleteMessage
    <2>2. p \in Ids \cup {None} /\ U \subseteq Ids
      BY <1>1, <1>4 DEF Msgs, Msg, Y!MovedUp
    <2> DEFINE kids(j) == IF j = p THEN (H[j].kids \ {i}) \cup U ELSE H[j].kids
               above(j) == IF j \in U THEN p ELSE H[j].parent
    <2>3. DOMAIN G = DOMAIN H \ D
      BY DEF Y!Without
    <2>4. ASSUME NEW j \in DOMAIN G PROVE G[j] = [H[j] EXCEPT !.kids = kids(j), !.parent = above(j)]
      BY <2>3 DEF Y!Without
    <2> HIDE DEF H, p, D, U, G
    <2>5. ASSUME NEW j \in DOMAIN G
          PROVE  /\ G[j] \in Msg /\ G[j].parent = above(j)
                 /\ G[j].role = H[j].role /\ G[j].done = H[j].done /\ G[j].ver = H[j].ver
      <3>1. H[j] \in Msg
        BY <1>1, <2>3 DEF Msgs
      <3>2. H[j].kids \in SUBSET Ids /\ H[j].parent \in Ids \cup {None}
        BY <3>1 DEF Msg
      <3>3. kids(j) \in SUBSET Ids /\ above(j) \in Ids \cup {None}
        BY <2>2, <3>2
      <3> DEFINE k == kids(j)
                 q == above(j)
      <3>4. G[j] = [H[j] EXCEPT !.kids = k, !.parent = q] /\ k \in SUBSET Ids /\ q \in Ids \cup {None}
        BY <2>4, <3>3
      <3> HIDE DEF k, q
      <3>5. /\ G[j] \in Msg /\ G[j].parent = q
            /\ G[j].role = H[j].role /\ G[j].done = H[j].done /\ G[j].ver = H[j].ver
        BY <3>1, <3>4 DEF Msg
      <3>6. QED
        BY <3>5 DEF q
    <2>6. Msgs(G)
      BY <1>1, <2>3, <2>5 DEF Msgs
    <2>7. S \subseteq DOMAIN G /\ \A j \in DOMAIN G \ S : G[j].parent # p
      BY DEF Y!Children
    <2>8. ASSUME NEW j \in DOMAIN G \ S PROVE Same(G[j], H[j])
      BY <2>5, <2>7 DEF Same
    <2> HIDE DEF S
    <2>9. /\ Rows(R) /\ DOMAIN R = DOMAIN rows \cup S
          /\ \A j \in S : Agrees(R[j], G[j])
          /\ \A j \in DOMAIN rows \ S : R[j] = rows[j]
      BY <1>1, <2>6, <2>7, SaveDoes
    <2> HIDE DEF R
    <2>10. DOMAIN rows' = DOMAIN R \ D /\ \A j \in DOMAIN R \ D : rows'[j] = R[j]
      BY <2>1
    <2>11. Rows(rows')
      BY <2>9, <2>10 DEF Rows
    <2>12. ASSUME NEW j \in DOMAIN msgs'
           PROVE  \/ j \in DOMAIN rows' /\ Agrees(rows'[j], msgs'[j])
                  \/ /\ j \in DOMAIN msgs /\ Same(msgs'[j], msgs[j])
                     /\ j \in DOMAIN rows' <=> j \in DOMAIN rows
                     /\ j \in DOMAIN rows => rows'[j] = rows[j]
      <3>1. j \in DOMAIN G /\ j \in DOMAIN msgs /\ j \notin D
        BY <1>1, <2>1, <2>3
      <3>2. CASE j \in S
        BY <2>1, <2>9, <2>10, <3>1, <3>2
      <3>3. CASE j \notin S
        <4>1. Same(msgs'[j], msgs[j])
          BY <1>1, <2>1, <2>8, <3>1, <3>3, SameSame
        <4>2. QED
          BY <2>9, <2>10, <3>1, <3>3, <4>1
      <3>4. QED
        BY <3>2, <3>3
    <2>13. Stores'
      BY <1>2, <2>1, <2>6, <2>12, StoresKept
    <2>14. ASSUME NEW j \in DOMAIN msgs \cap DOMAIN msgs'
           PROVE  /\ msgs[j].done = "no" => msgs'[j].ver >= msgs[j].ver
                  /\ msgs[j].done = "yes" => msgs'[j].done # "no"
      <3>1. msgs'[j].done = msgs[j].done /\ msgs'[j].ver = msgs[j].ver /\ msgs[j].ver \in Nat
        BY <1>1, <2>1, <2>5, SameMsg DEF Same, Msgs
      <3>2. QED
        BY <3>1
    <2>15. QED
      BY <2>1, <2>6, <2>11, <2>13, <2>14 DEF Written, Y!ReplyKept
  <1>5. QED
    BY <1>3, <1>4

(* The steps that leave the history alone: a tab takes or edits its copy, a  *)
(* reader copies what the table lacks.                                       *)
LEMMA LoadKeeps ==
  ASSUME HistoryInv, NEW t \in Tabs, Y!Load(t)
  PROVE  HistoryInv'
  <1> DEFINE H == Y!Repair(msgs)
  <1>1. Msgs(H)
    BY RepairDoes DEF HistoryInv, HistoryTypes
  <1>2. PICK c : snap' = [snap EXCEPT ![t] = [msgs |-> H, cur |-> c]]
    BY DEF Y!Load
  <1>3. UNCHANGED <<msgs, rows, running, fill>>
    BY DEF Y!Load
  <1> HIDE DEF H
  <1>4. DOMAIN snap' = Tabs /\ \A s \in Tabs :
           snap'[s] # None => Msgs(snap'[s].msgs) /\ DOMAIN snap'[s] = {"msgs", "cur"}
    BY <1>1, <1>2 DEF HistoryInv, HistoryTypes
  <1>5. QED
    BY <1>3, <1>4 DEF HistoryInv, HistoryTypes, Stores, Msgs, Rows

(* A turn prepared in the copy of a tab. *)
LEMMA DraftKeeps ==
  ASSUME HistoryInv, NEW t \in Tabs, NEW u \in Ids, NEW p \in Ids, NEW a \in Ids, Y!Draft(t, u, p, a)
  PROVE  HistoryInv'
  <1> DEFINE G == Y!Put(snap[t].msgs, u, Y!New(p, "user", "unset", "owner"))
             H == Y!Put(G, a, Y!New(u, "assistant", "no", "owner"))
  <1>1. Msgs(snap[t].msgs)
    BY DEF Y!Draft, HistoryInv, HistoryTypes
  <1>2. "owner" \in Y!Users
    BY DEF Y!Users
  <1>3. Y!New(p, "user", "unset", "owner") \in Msg /\ Y!New(u, "assistant", "no", "owner") \in Msg
    BY <1>2, NewMsg
  <1>4. Msgs(G)
    BY <1>1, <1>3, PutDoes
  <1>5. snap' = [snap EXCEPT ![t] = [msgs |-> H, cur |-> a]] /\ UNCHANGED <<msgs, rows, running, fill>>
    BY DEF Y!Draft
  <1> HIDE DEF G
  <1>6. Msgs(H)
    BY <1>3, <1>4, PutDoes
  <1> HIDE DEF H
  <1>7. DOMAIN snap' = Tabs /\ \A s \in Tabs :
           snap'[s] # None => Msgs(snap'[s].msgs) /\ DOMAIN snap'[s] = {"msgs", "cur"}
    BY <1>5, <1>6 DEF HistoryInv, HistoryTypes
  <1>8. QED
    BY <1>5, <1>7 DEF HistoryInv, HistoryTypes, Stores, Msgs, Rows

(* A copy for the table says what the history says when it is read. *)
LEMMA ReadMapKeeps ==
  ASSUME HistoryInv, NEW r \in Readers, Y!ReadMap(r)
  PROVE  HistoryInv'
  <1> DEFINE copy == [i \in Y!Missing |-> Y!RowOf(msgs[i])]
  <1>1. fill' = [fill EXCEPT ![r] = copy] /\ UNCHANGED <<msgs, rows, running, snap>>
    BY DEF Y!ReadMap
  <1>2. Y!Missing \subseteq DOMAIN msgs
    BY DEF Y!Missing
  <1>3. DOMAIN copy = Y!Missing /\ \A i \in Y!Missing : copy[i] \in Row /\ Agrees(copy[i], msgs[i])
    BY <1>2, RowAgrees DEF HistoryInv, HistoryTypes, Msgs
  <1>4. Rows(copy)
    BY <1>2, <1>3 DEF HistoryInv, HistoryTypes, Msgs, Rows
  <1> HIDE DEF copy
  <1>5. fill'[r] = copy /\ DOMAIN fill' = Readers /\ \A s \in Readers \ {r} : fill'[s] = fill[s]
    BY <1>1 DEF HistoryInv, HistoryTypes
  <1>6. \A s \in Readers : fill'[s] # None => Rows(fill'[s])
    BY <1>4, <1>5 DEF HistoryInv, HistoryTypes
  <1>7. HistoryTypes'
    BY <1>1, <1>5, <1>6 DEF HistoryInv, HistoryTypes, Msgs, Rows
  <1>8. ASSUME NEW s \in Readers, fill'[s] # None,
               NEW i \in (DOMAIN msgs \ DOMAIN rows) \cap DOMAIN fill'[s]
        PROVE  Agrees(fill'[s][i], msgs[i])
    <2>1. CASE s = r
      BY <1>3, <1>5, <2>1
    <2>2. CASE s # r
      BY <1>5, <1>8, <2>2 DEF HistoryInv, Stores
    <2>3. QED
      BY <2>1, <2>2
  <1>9. Stores'
    BY <1>1, <1>8 DEF HistoryInv, Stores
  <1>10. QED
    BY <1>7, <1>9 DEF HistoryInv

(* It is inserted where there is still no row, and so is what the history says. *)
LEMMA BackfillKeeps ==
  ASSUME HistoryInv, NEW r \in Readers, Y!Backfill(r)
  PROVE  HistoryInv'
  <1>1. fill[r] # None /\ rows' = Y!With(fill[r], rows)
    BY DEF Y!Backfill
  <1>2. fill' = [fill EXCEPT ![r] = None] /\ UNCHANGED <<msgs, running, snap>>
    BY DEF Y!Backfill
  <1>3. Rows(rows) /\ Rows(fill[r])
    BY <1>1 DEF HistoryInv, HistoryTypes
  <1>4. /\ DOMAIN rows' = DOMAIN fill[r] \cup DOMAIN rows
        /\ \A i \in DOMAIN rows : rows'[i] = rows[i]
        /\ \A i \in DOMAIN fill[r] \ DOMAIN rows : rows'[i] = fill[r][i]
    <2> DEFINE f == fill[r]
    <2>1. /\ DOMAIN Y!With(f, rows) = DOMAIN f \cup DOMAIN rows
          /\ \A i \in DOMAIN rows : Y!With(f, rows)[i] = rows[i]
          /\ \A i \in DOMAIN f \ DOMAIN rows : Y!With(f, rows)[i] = f[i]
      BY WithDoes
    <2>2. QED
      BY <1>1, <2>1
  <1>5. Rows(rows')
    BY <1>3, <1>4 DEF Rows
  <1>6. fill'[r] = None /\ DOMAIN fill' = Readers /\ \A s \in Readers \ {r} : fill'[s] = fill[s]
    BY <1>2 DEF HistoryInv, HistoryTypes
  <1>7. \A s \in Readers : fill'[s] # None => Rows(fill'[s])
    BY <1>6 DEF HistoryInv, HistoryTypes
  <1>8. HistoryTypes'
    BY <1>2, <1>5, <1>6, <1>7 DEF HistoryInv, HistoryTypes, Msgs, Rows
  <1>9. ASSUME NEW i \in DOMAIN msgs \cap DOMAIN rows' PROVE Agrees(rows'[i], msgs[i])
    <2>1. CASE i \in DOMAIN rows
      BY <1>4, <2>1 DEF HistoryInv, Stores
    <2>2. CASE i \notin DOMAIN rows
      BY <1>1, <1>4, <2>2 DEF HistoryInv, Stores
    <2>3. QED
      BY <2>1, <2>2
  <1>10. ASSUME NEW s \in Readers, fill'[s] # None,
                NEW i \in (DOMAIN msgs \ DOMAIN rows') \cap DOMAIN fill'[s]
         PROVE  Agrees(fill'[s][i], msgs[i])
    BY <1>4, <1>6, <1>10 DEF HistoryInv, Stores
  <1>11. Stores'
    BY <1>2, <1>9, <1>10 DEF Stores
  <1>12. QED
    BY <1>8, <1>11 DEF HistoryInv

(* The initial states: the rows of the first turn may be missing. *)
LEMMA HistoryInit ==
  ASSUME Y!ChatHistoryAssumption, Y!Init
  PROVE  HistoryInv
  <1>1. /\ msgs = Y!First(Asked, Answer) /\ running = {Answer}
        /\ snap = [t \in Tabs |-> None] /\ fill = [r \in Readers |-> None]
    BY DEF Y!Init
  <1>2. PICK S \in {{}, {Asked}, {Asked, Answer}} : rows = [i \in S |-> Y!RowOf(msgs[i])]
    BY DEF Y!Init
  <1>3. "owner" \in Y!Users /\ Asked \in Ids /\ Answer \in Ids
    BY DEF Y!Users, Y!ChatHistoryAssumption
  <1> DEFINE u == Y!New(None, "user", "unset", "owner")
             v == [u EXCEPT !.kids = {Answer}]
             n == Y!New(Asked, "assistant", "no", "owner")
  <1>4. u \in Msg /\ n \in Msg
    BY <1>3, NewMsg
  <1>5. v \in Msg
    <2> HIDE DEF u
    <2>1. QED
      BY <1>3, <1>4, SetKids
  <1>6. msgs = [i \in {Asked, Answer} |-> IF i = Answer THEN n ELSE v]
    BY <1>1 DEF Y!First
  <1> HIDE DEF u, v, n
  <1>7. DOMAIN msgs = {Asked, Answer} /\ Msgs(msgs)
    BY <1>3, <1>4, <1>5, <1>6 DEF Msgs
  <1>8. DOMAIN rows \subseteq DOMAIN msgs /\ \A i \in DOMAIN rows : rows[i] = Y!RowOf(msgs[i])
    BY <1>2, <1>7
  <1>9. \A i \in DOMAIN rows : rows[i] \in Row /\ Agrees(rows[i], msgs[i])
    BY <1>7, <1>8, RowAgrees DEF Msgs
  <1>10. Rows(rows)
    BY <1>7, <1>8, <1>9 DEF Msgs, Rows
  <1>11. HistoryTypes
    BY <1>1, <1>3, <1>7, <1>10 DEF HistoryTypes
  <1>12. Stores
    BY <1>1, <1>9 DEF Stores
  <1>13. QED
    BY <1>11, <1>12 DEF HistoryInv

(* A step that writes the history keeps the copies of the tabs. *)
LEMMA WrittenKeeps ==
  ASSUME HistoryInv, Written, fill' = fill, running' \subseteq Ids, snap' = snap
  PROVE  HistoryInv'
  BY DEF HistoryInv, HistoryTypes, Written, Msgs, Rows

(* A history that does not change keeps its replies. *)
LEMMA UnchangedKeepsReplies ==
  ASSUME HistoryInv, msgs' = msgs
  PROVE  Y!ReplyKept
  <1>1. \A i \in DOMAIN msgs : msgs[i].ver >= msgs[i].ver
    BY SameMsg DEF HistoryInv, HistoryTypes, Msgs
  <1>2. QED
    BY <1>1 DEF Y!ReplyKept

(* One step of any action. *)
LEMMA HistoryStep ==
  ASSUME HistoryInv, [Y!Next]_Y!vars
  PROVE  HistoryInv' /\ Y!ReplyKept
  <1>0. running \subseteq Ids
    BY DEF HistoryInv, HistoryTypes
  <1>1. ASSUME NEW by \in Y!Users, NEW u \in Ids, NEW a \in Ids, NEW p \in Ids \cup {None},
               Y!InsertTurn(by, u, p, a)
        PROVE  HistoryInv' /\ Y!ReplyKept
    <2>1. fill' = fill /\ running' \subseteq Ids /\ snap' = snap
      BY <1>0, <1>1 DEF Y!InsertTurn
    <2>2. QED
      BY <1>1, <2>1, InsertTurnWrites, WrittenKeeps DEF Written
  <1>2. ASSUME NEW i \in Ids, NEW end \in BOOLEAN, Y!Stream(i, end)
        PROVE  HistoryInv' /\ Y!ReplyKept
    <2>1. fill' = fill /\ running' \subseteq Ids /\ snap' = snap
      BY <1>0, <1>2 DEF Y!Stream
    <2>2. Y!Upsert(i, "assistant", "yes") \/ Y!Upsert(i, "assistant", "unset")
      BY <1>2 DEF Y!Stream
    <2>3. Written
      BY <2>1, <2>2, UpsertWrites
    <2>4. QED
      BY <2>1, <2>3, WrittenKeeps DEF Written
  <1>3. ASSUME NEW i \in Ids, NEW end \in BOOLEAN, Y!Annotate(i, end)
        PROVE  HistoryInv' /\ Y!ReplyKept
    <2>1. fill' = fill /\ running' \subseteq Ids /\ snap' = snap
      BY <1>0, <1>3 DEF Y!Annotate
    <2>2. QED
      BY <1>3, <2>1, AnnotateWrites, WrittenKeeps DEF Written
  <1>4. ASSUME NEW i \in Ids, Y!EditOutput(i)
        PROVE  HistoryInv' /\ Y!ReplyKept
    <2>1. fill' = fill /\ running' \subseteq Ids /\ snap' = snap
      BY <1>0, <1>4 DEF Y!EditOutput
    <2>2. QED
      BY <1>4, <2>1, EditOutputWrites, WrittenKeeps DEF Written
  <1>5. ASSUME NEW i \in Ids, Y!DeleteMessage(i)
        PROVE  HistoryInv' /\ Y!ReplyKept
    <2>1. fill' = fill /\ running' \subseteq Ids /\ snap' = snap
      BY <1>0, <1>5 DEF Y!DeleteMessage
    <2>2. QED
      BY <1>5, <2>1, DeleteMessageWrites, WrittenKeeps DEF Written
  <1>6. ASSUME NEW t \in Tabs, NEW i \in Ids, Y!EditContent(t, i)
        PROVE  HistoryInv' /\ Y!ReplyKept
    <2>1. fill' = fill /\ running' \subseteq Ids /\ snap' = snap
      BY <1>0, <1>6 DEF Y!EditContent
    <2>2. PICK role \in {"user", "assistant"} : Y!Upsert(i, role, "unset")
      BY <1>6 DEF Y!EditContent
    <2>3. Written
      BY <2>1, <2>2, UpsertWrites
    <2>4. QED
      BY <2>1, <2>3, WrittenKeeps DEF Written
  <1>7. ASSUME NEW t \in Tabs, NEW c \in Ids, Y!SaveHistory(t, c)
        PROVE  HistoryInv' /\ Y!ReplyKept
    <2>1. Written
      BY <1>7, SaveHistoryWrites
    <2>2. snap[t] # None /\ snap' = [snap EXCEPT ![t].cur = c] /\ fill' = fill /\ running' = running
      BY <1>7 DEF Y!SaveHistory
    <2>3. DOMAIN snap = Tabs /\ DOMAIN snap[t] = {"msgs", "cur"} /\ Msgs(snap[t].msgs)
      BY <2>2 DEF HistoryInv, HistoryTypes
    <2>4. /\ DOMAIN snap' = Tabs /\ \A s \in Tabs \ {t} : snap'[s] = snap[s]
          /\ snap'[t] = [snap[t] EXCEPT !.cur = c]
      BY <2>2, <2>3
    <2>5. snap'[t].msgs = snap[t].msgs /\ DOMAIN snap'[t] = {"msgs", "cur"}
      BY <2>3, <2>4
    <2>6. \A s \in Tabs : snap'[s] # None => Msgs(snap'[s].msgs) /\ DOMAIN snap'[s] = {"msgs", "cur"}
      BY <2>3, <2>4, <2>5 DEF HistoryInv, HistoryTypes
    <2>7. HistoryTypes'
      BY <1>0, <2>1, <2>2, <2>4, <2>6 DEF HistoryInv, HistoryTypes, Written, Msgs, Rows
    <2>8. QED
      BY <2>1, <2>7 DEF HistoryInv, Written
  <1>8. ASSUME NEW t \in Tabs, NEW u \in Ids, NEW p \in Ids, NEW a \in Ids, Y!Draft(t, u, p, a)
        PROVE  HistoryInv' /\ Y!ReplyKept
    <2>1. msgs' = msgs
      BY <1>8 DEF Y!Draft
    <2>2. QED
      BY <1>8, <2>1, DraftKeeps, UnchangedKeepsReplies
  <1>9. ASSUME NEW t \in Tabs, Y!Load(t)
        PROVE  HistoryInv' /\ Y!ReplyKept
    <2>1. msgs' = msgs
      BY <1>9 DEF Y!Load
    <2>2. QED
      BY <1>9, <2>1, LoadKeeps, UnchangedKeepsReplies
  <1>10. ASSUME NEW r \in Readers, Y!ReadMap(r) \/ Y!Backfill(r)
         PROVE  HistoryInv' /\ Y!ReplyKept
    <2>1. msgs' = msgs
      BY <1>10 DEF Y!ReadMap, Y!Backfill
    <2>2. QED
      BY <1>10, <2>1, ReadMapKeeps, BackfillKeeps, UnchangedKeepsReplies
  <1>11. CASE UNCHANGED Y!vars
    <2>1. UNCHANGED <<msgs, rows, running, snap, fill>>
      BY <1>11 DEF Y!vars
    <2>2. HistoryInv'
      BY <2>1 DEF HistoryInv, HistoryTypes, Stores, Msgs, Rows
    <2>3. QED
      BY <2>1, <2>2, UnchangedKeepsReplies
  <1>12. QED
    BY <1>1, <1>2, <1>3, <1>4, <1>5, <1>6, <1>7, <1>8, <1>9, <1>10, <1>11 DEF Y!Next

(* The inductive invariant. *)
THEOREM HistoryInvHolds == Y!ChatHistoryAssumption /\ Y!Spec => []HistoryInv
  <1>1. Y!ChatHistoryAssumption /\ Y!Init => HistoryInv
    BY HistoryInit
  <1>2. HistoryInv /\ [Y!Next]_Y!vars => HistoryInv'
    BY HistoryStep
  <1>3. QED
    BY <1>1, <1>2, PTL DEF Y!Spec

(* The history of a chat and its rows never say different things of a        *)
(* message, whatever turns, streamed text, edits, deletions, saves of old    *)
(* copies and late backfills of readers are mixed (chats.py,                 *)
(* chat_messages.py).                                                        *)
THEOREM HistoryStoresAgree == Y!ChatHistoryAssumption /\ Y!Spec => []Y!StoresAgree
  <1>1. HistoryInv => Y!StoresAgree
    BY DEF HistoryInv, Stores, Agrees, Y!StoresAgree
  <1>2. QED
    BY <1>1, HistoryInvHolds, PTL

(* No step takes back text of a reply that is being generated, or makes a    *)
(* finished reply unfinished: not the save of a tab's old copy               *)
(* (update_chat_by_id), nor an edit of the output that starts from the row   *)
(* (edit_message_output).                                                    *)
THEOREM HistoryReplyKept == Y!ChatHistoryAssumption /\ Y!Spec => [][Y!ReplyKept]_Y!vars
  <1>1. HistoryInv /\ [Y!Next]_Y!vars => [Y!ReplyKept]_Y!vars
    BY HistoryStep
  <1>2. QED
    BY <1>1, HistoryInvHolds, PTL DEF Y!Spec
=============================================================================
