------------------------- MODULE ShardCoordination -------------------------
(* Who polls the accounts of one shard: the gateway nodes (runShardSync,   *)
(* setDraining, renewShardLeases, fenceShard of adapters/openclaw.ts over  *)
(* coordination.ts), the scheduler that RyanAI's workers run               *)
(* (ensure_shard_targets of utils/bot_gateway_coordination.py), and the    *)
(* fence every event passes on its way in.                                 *)
(*                                                                         *)
(* A lease is [node, epoch, gen].  A shard host carries the lease it was   *)
(* created under in the environment of its child process, so hosts and     *)
(* children are named by that lease.  The steps of one operation are the   *)
(* stretches between its awaits: runShardSync and fenceShard exclude each  *)
(* other on a node (serializeShard), setDraining and the renewal timer     *)
(* exclude neither.                                                        *)
(*                                                                         *)
(* The shard has one member, always enabled.                               *)
(* Stopping a host ends its child at once; the code waits for the exit.    *)
EXTENDS Naturals, FiniteSets

CONSTANTS Nodes, Workers,
          None,
          MaxEpoch,    \* bound on leases acquired
          MaxGen,      \* bound on the assignment generation in SQL
          Kinds,       \* the faults that happen, among
                       \*   "crash"   a node crashes
                       \*   "drain"   an administrator drains a node
                       \*   "redis"   a renewal is not answered, or not sent, in time
                       \*   "lapse"   the leader key expires under its worker
                       \*   "fail"    a boot fails or a child exits
          MaxFaults    \* bound on their number

ASSUME ShardCoordinationAssumption ==
    /\ None \notin Nodes \cup Workers \cup [node : Nodes, epoch : Nat, gen : Nat]
    /\ {MaxEpoch, MaxGen, MaxFaults} \subseteq Nat

VARIABLES lease, epoch,        \* Redis: the shard's lease and its epoch counter
          target, leader,      \* Redis: the node the scheduler wants; its leader key
          heartbeat, drainKey, \* Redis: nodes with a heartbeat, with a drain key
          wpc, choice,         \* a worker in ensure_shard_targets, and its choice
          sqlGen, mirror,      \* the assignment generation in SQL, and in the
                               \* copies of the nodes
          up, draining,        \* a node runs; its draining flag
          held, host,          \* shardLeases and shardHosts of a node
          children,            \* the live child processes
          sync, want, mine,    \* the step of runShardSync or fenceShard, and the
                               \* generation and lease, then host, it captured
          drain,               \* the step of setDraining
          renew, asked,        \* the step of renewShardLeases, and the lease it
                               \* asked to renew
          fence,               \* a fenceShard call waits for its turn
          flight, accepted,    \* events between sidecar and RyanAI, and the epoch
                               \* of the last one accepted
          faults               \* faults so far

leases == <<lease, epoch>>
scheduling == <<target, leader, wpc, choice>>
generations == <<sqlGen, mirror>>
nodes == <<up, draining, heartbeat, drainKey>>
hosting == <<held, host, children>>
syncing == <<sync, want, mine>>
timers == <<drain, renew, asked, fence>>
events == <<flight, accepted>>
vars == <<leases, scheduling, generations, nodes, hosting, syncing, timers, events, faults>>

Lease == [node : Nodes, epoch : 1 .. MaxEpoch, gen : 0 .. MaxGen]

SyncSteps == {"idle", "stale", "acquire", "fetch", "kept", "boot", "fence"}

TypeOK ==
    /\ lease \in Lease \cup {None} /\ epoch \in 0 .. MaxEpoch
    /\ target \in Nodes \cup {None} /\ leader \in Workers \cup {None}
    /\ heartbeat \subseteq Nodes /\ drainKey \subseteq Nodes
    /\ wpc \in [Workers -> {"idle", "scan", "set", "unlock"}]
    /\ choice \in [Workers -> Nodes \cup {None}]
    /\ sqlGen \in 0 .. MaxGen /\ mirror \in [Nodes -> 0 .. MaxGen]
    /\ up \in [Nodes -> BOOLEAN] /\ draining \in [Nodes -> BOOLEAN]
    /\ held \in [Nodes -> Lease \cup {None}] /\ host \in [Nodes -> Lease \cup {None}]
    /\ children \subseteq Lease
    /\ sync \in [Nodes -> SyncSteps]
    /\ want \in [Nodes -> 0 .. MaxGen] /\ mine \in [Nodes -> Lease \cup {None}]
    /\ drain \in [Nodes -> {"idle", "key", "release"}]
    /\ renew \in [Nodes -> {"idle", "wait", "drop"}]
    /\ asked \in [Nodes -> Lease \cup {None}]
    /\ fence \in [Nodes -> BOOLEAN]
    /\ flight \subseteq Lease /\ accepted \in 0 .. MaxEpoch
    /\ faults \in 0 .. MaxFaults

Init ==
    /\ lease = None /\ epoch = 0 /\ target = None /\ leader = None
    /\ heartbeat = Nodes /\ drainKey = {}
    /\ wpc = [w \in Workers |-> "idle"] /\ choice = [w \in Workers |-> None]
    /\ sqlGen = 0 /\ mirror = [n \in Nodes |-> 0]
    /\ up = [n \in Nodes |-> TRUE] /\ draining = [n \in Nodes |-> FALSE]
    /\ held = [n \in Nodes |-> None] /\ host = [n \in Nodes |-> None]
    /\ children = {}
    /\ sync = [n \in Nodes |-> "idle"]
    /\ want = [n \in Nodes |-> 0] /\ mine = [n \in Nodes |-> None]
    /\ drain = [n \in Nodes |-> "idle"]
    /\ renew = [n \in Nodes |-> "idle"] /\ asked = [n \in Nodes |-> None]
    /\ fence = [n \in Nodes |-> FALSE]
    /\ flight = {} /\ accepted = 0
    /\ faults = 0

Set(f, n, v) == [f EXCEPT ![n] = v]

Fault(k) == k \in Kinds /\ faults < MaxFaults /\ faults' = faults + 1

----------------------------------------------------------------------------
(* The scheduler: one run of ensure_shard_targets per desired-state request. *)

(* SET NX of the leader key. *)
Lead(w) ==
    /\ wpc[w] = "idle" /\ leader = None
    /\ leader' = w /\ wpc' = Set(wpc, w, "scan")
    /\ UNCHANGED <<target, choice, leases, generations, nodes, hosting, syncing,
                   timers, events, faults>>

(* The target stays if its node has a heartbeat and does not drain; else   *)
(* one of the nodes that do is chosen (by load score).                     *)
Scan(w) ==
    /\ wpc[w] = "scan"
    /\ LET live == heartbeat \ drainKey IN
       IF live = {} \/ target \in live
       THEN wpc' = Set(wpc, w, "unlock") /\ UNCHANGED choice
       ELSE \E n \in live : choice' = Set(choice, w, n) /\ wpc' = Set(wpc, w, "set")
    /\ UNCHANGED <<target, leader, leases, generations, nodes, hosting, syncing,
                   timers, events, faults>>

(* SET of the target key: nothing checks that w is still the leader. *)
SetTarget(w) ==
    /\ wpc[w] = "set"
    /\ target' = choice[w]
    /\ choice' = Set(choice, w, None) /\ wpc' = Set(wpc, w, "unlock")
    /\ UNCHANGED <<leader, leases, generations, nodes, hosting, syncing, timers,
                   events, faults>>

(* Compare and delete of the leader key. *)
Unlock(w) ==
    /\ wpc[w] = "unlock"
    /\ leader' = IF leader = w THEN None ELSE leader
    /\ wpc' = Set(wpc, w, "idle")
    /\ UNCHANGED <<target, choice, leases, generations, nodes, hosting, syncing,
                   timers, events, faults>>

(* The 15 s of the leader key run out under a slow worker. *)
LeaderLapses ==
    /\ leader # None /\ Fault("lapse")
    /\ leader' = None
    /\ UNCHANGED <<target, wpc, choice, leases, generations, nodes, hosting, syncing,
                   timers, events>>

(* The assignment or the credentials of the connection change in SQL. *)
BumpGeneration ==
    /\ sqlGen < MaxGen /\ sqlGen' = sqlGen + 1
    /\ UNCHANGED <<mirror, leases, scheduling, nodes, hosting, syncing, timers,
                   events, faults>>

(* A node polls the desired state. *)
SyncDesiredState(n) ==
    /\ up[n] /\ mirror[n] # sqlGen
    /\ mirror' = Set(mirror, n, sqlGen)
    /\ UNCHANGED <<sqlGen, leases, scheduling, nodes, hosting, syncing, timers,
                   events, faults>>

----------------------------------------------------------------------------
(* The Lua scripts of coordination.ts. *)

CanAcquire(n) == n \notin drainKey /\ target = n /\ lease = None

Renewable(n, l) == lease = l /\ target = n

Release(l) == lease' = IF l # None /\ lease = l THEN None ELSE lease

(* What host.stop() does to the host registered for the shard, if it runs. *)
Stop(n) == children' = children \ {host[n]}

(* releaseShardLease: both maps forget the shard, then Redis is told. *)
ReleaseShardLease(n) ==
    /\ held' = Set(held, n, None) /\ host' = Set(host, n, None)
    /\ Release(held[n])
    /\ UNCHANGED epoch

EndSync(n) == sync' = Set(sync, n, "idle") /\ want' = Set(want, n, 0) /\ mine' = Set(mine, n, None)

----------------------------------------------------------------------------
(* runShardSync.  It is asked for by the reconcile timer (10 s), by the    *)
(* supervisor and by every change of a member, so it can always begin.     *)

(* Mutant: a lease that is held is taken to mean that its host runs. *)
RunShardSyncMutant(n) ==
    /\ up[n] /\ ~draining[n] /\ sync[n] = "idle" /\ ~fence[n]
    /\ held[n] # None => held[n].gen # mirror[n]
    /\ want' = Set(want, n, mirror[n]) /\ mine' = Set(mine, n, held[n])
    /\ IF held[n] = None
       THEN sync' = Set(sync, n, "acquire") /\ UNCHANGED children
       ELSE sync' = Set(sync, n, "stale") /\ Stop(n)
    /\ UNCHANGED <<held, host, leases, scheduling, generations, nodes, timers,
                   events, faults>>

RunShardSync(n) ==
    /\ up[n] /\ ~draining[n] /\ sync[n] = "idle" /\ ~fence[n]
    /\ want' = Set(want, n, mirror[n]) /\ mine' = Set(mine, n, held[n])
    /\ \/ held[n] = None /\ sync' = Set(sync, n, "acquire") /\ UNCHANGED children
       \/ held[n] # None /\ held[n].gen # mirror[n]
          /\ sync' = Set(sync, n, "stale") /\ Stop(n)
       \/ held[n] # None /\ held[n].gen = mirror[n]
          /\ sync' = Set(sync, n, "kept") /\ UNCHANGED children
    /\ UNCHANGED <<held, host, leases, scheduling, generations, nodes, timers,
                   events, faults>>

(* The host of another generation has stopped; its lease goes. *)
DropStale(n) ==
    /\ sync[n] = "stale"
    /\ ReleaseShardLease(n)
    /\ sync' = Set(sync, n, "acquire")
    /\ UNCHANGED <<children, want, mine, scheduling, generations, nodes, timers, events, faults>>

(* Mutant: the epoch counter is read, not incremented. *)
NextEpochMutant == epoch' = epoch

(* Mutant: the lease carries the epoch read before the increment. *)
NewLeaseMutant(n) == [node |-> n, epoch |-> epoch, gen |-> want[n]]

(* INCR of the epoch, and the lease that carries it. *)
NextEpoch == epoch' = epoch + 1

NewLease(n) == [node |-> n, epoch |-> epoch + 1, gen |-> want[n]]

Acquire(n) ==
    /\ sync[n] = "acquire"
    /\ IF CanAcquire(n)
       THEN /\ epoch < MaxEpoch
            /\ NextEpoch
            /\ lease' = NewLease(n)
            /\ held' = Set(held, n, lease') /\ mine' = Set(mine, n, lease')
            /\ sync' = Set(sync, n, "fetch") /\ want' = Set(want, n, 0)
       ELSE EndSync(n) /\ UNCHANGED <<leases, held>>
    /\ UNCHANGED <<host, children, scheduling, generations, nodes, timers,
                   events, faults>>

(* The credentials endpoint answers the owner of the current lease at the  *)
(* current generation only.                                                *)
MayFetch(n) == lease = mine[n] /\ mine[n].gen = sqlGen

(* Without credentials no member is eligible: stop and release. *)
FetchFails(n) ==
    /\ sync[n] = "fetch" /\ ~MayFetch(n)
    /\ Stop(n) /\ ReleaseShardLease(n)
    /\ EndSync(n)
    /\ UNCHANGED <<scheduling, generations, nodes, timers, events, faults>>

(* shardHostFor: the registered host, or a new one under the captured lease. *)
HostFor(n) == IF host[n] # None THEN host[n] ELSE mine[n]

(* Credentials and checkpoints are there.  A running host is kept, else    *)
(* one is registered and boots.                                            *)
ChooseHost(n) ==
    /\ \/ sync[n] = "kept"
       \/ sync[n] = "fetch" /\ MayFetch(n)
    /\ host' = Set(host, n, HostFor(n))
    /\ IF HostFor(n) \in children
       THEN EndSync(n)
       ELSE sync' = Set(sync, n, "boot") /\ mine' = Set(mine, n, HostFor(n)) /\ UNCHANGED want
    /\ UNCHANGED <<held, children, leases, scheduling, generations, nodes,
                   timers, events, faults>>

(* launch() spawns the child of the host that was chosen, whatever has     *)
(* happened to the lease and the maps since.                               *)
Spawn(n) ==
    /\ sync[n] = "boot"
    /\ children' = children \cup {mine[n]}
    /\ EndSync(n)
    /\ UNCHANGED <<held, host, leases, scheduling, generations, nodes,
                   timers, events, faults>>

BootFails(n) ==
    /\ sync[n] = "boot" /\ Fault("fail")
    /\ EndSync(n)
    /\ UNCHANGED <<hosting, leases, scheduling, generations, nodes, timers, events>>

(* A child exits by itself. *)
ChildExits(c) ==
    /\ c \in children /\ Fault("fail")
    /\ children' = children \ {c}
    /\ UNCHANGED <<held, host, leases, scheduling, generations, nodes, syncing, timers, events>>

----------------------------------------------------------------------------
(* The renewal timer. *)

RenewSend(n) ==
    /\ up[n] /\ renew[n] = "idle" /\ held[n] # None
    /\ asked' = Set(asked, n, held[n]) /\ renew' = Set(renew, n, "wait")
    /\ UNCHANGED <<drain, fence, leases, scheduling, generations, nodes, hosting,
                   syncing, events, faults>>

Renewed(n) ==
    /\ renew[n] = "wait" /\ Renewable(n, asked[n])
    /\ renew' = Set(renew, n, "idle") /\ asked' = Set(asked, n, None)
    /\ UNCHANGED <<drain, fence, leases, scheduling, generations, nodes,
                   hosting, syncing, events, faults>>

(* The shard's entry of shardLeases goes, whichever lease it names by now, *)
(* and the registered host is stopped.                                     *)
LoseLease(n) ==
    /\ held' = Set(held, n, None) /\ Stop(n)
    /\ renew' = Set(renew, n, "drop") /\ asked' = Set(asked, n, None)
    /\ UNCHANGED <<host, drain, fence, leases, scheduling, generations, nodes,
                   syncing, events>>

(* Redis says that the lease or the target is another one. *)
RenewRefused(n) ==
    /\ renew[n] = "wait" /\ ~Renewable(n, asked[n])
    /\ LoseLease(n)
    /\ UNCHANGED faults

(* Redis does not answer until five seconds before the lease ends. *)
RenewUnanswered(n) == renew[n] = "wait" /\ Fault("redis") /\ LoseLease(n)

(* The stopped host has exited; shardHosts forgets what it names by now. *)
RenewDrop(n) ==
    /\ renew[n] = "drop"
    /\ host' = Set(host, n, None) /\ renew' = Set(renew, n, "idle")
    /\ UNCHANGED <<held, children, drain, asked, fence, leases, scheduling,
                   generations, nodes, syncing, events, faults>>

(* The lease ends: its holder is down or no longer renews it. *)
Expire ==
    /\ lease # None
    /\ ~up[lease.node] \/ held[lease.node] # lease
    /\ lease' = None
    /\ UNCHANGED <<epoch, scheduling, generations, nodes, hosting, syncing, timers,
                   events, faults>>

(* The holder's process stalls for longer than the lease lasts. *)
ExpireUnderHolder ==
    /\ lease # None /\ Fault("redis")
    /\ lease' = None
    /\ UNCHANGED <<epoch, scheduling, generations, nodes, hosting, syncing, timers, events>>

----------------------------------------------------------------------------
(* setDraining, under the adapter-wide section only. *)

Drain(n) ==
    /\ up[n] /\ ~draining[n] /\ drain[n] = "idle" /\ Fault("drain")
    /\ draining' = Set(draining, n, TRUE) /\ drain' = Set(drain, n, "key")
    /\ UNCHANGED <<up, heartbeat, drainKey, renew, asked, fence, leases, scheduling,
                   generations, hosting, syncing, events>>

(* The drain key is set; the loop over shardHosts stops what it finds. *)
DrainStop(n) ==
    /\ drain[n] = "key"
    /\ drainKey' = drainKey \cup {n}
    /\ Stop(n)
    /\ drain' = Set(drain, n, IF host[n] # None THEN "release" ELSE "idle")
    /\ UNCHANGED <<up, draining, heartbeat, held, host, renew, asked, fence, leases,
                   scheduling, generations, syncing, events, faults>>

DrainRelease(n) ==
    /\ drain[n] = "release"
    /\ ReleaseShardLease(n)
    /\ drain' = Set(drain, n, "idle")
    /\ UNCHANGED <<children, renew, asked, fence, scheduling, generations, nodes,
                   syncing, events, faults>>

Resume(n) ==
    /\ up[n] /\ drain[n] = "idle" /\ n \in drainKey
    /\ draining' = Set(draining, n, FALSE) /\ drainKey' = drainKey \ {n}
    /\ UNCHANGED <<up, heartbeat, leases, scheduling, generations, hosting, syncing,
                   timers, events, faults>>

----------------------------------------------------------------------------
(* Events. *)

(* The control server lets in a child of the current lease only, at the    *)
(* generation of its own copy.                                             *)
BridgeEvent(c) ==
    /\ c \in children /\ c \notin flight
    /\ lease = c /\ mirror[c.node] = c.gen
    /\ flight' = flight \cup {c}
    /\ UNCHANGED <<accepted, leases, scheduling, generations, nodes, hosting, syncing,
                   timers, faults>>

(* Mutant: only the assignment generation is compared. *)
FenceHoldsMutant(c) == sqlGen = c.gen

(* validate_event_fence. *)
FenceHolds(c) == lease = c /\ sqlGen = c.gen

AcceptEvent(c) ==
    /\ c \in flight /\ FenceHolds(c)
    /\ flight' = flight \ {c}
    /\ accepted' = c.epoch
    /\ UNCHANGED <<leases, scheduling, generations, nodes, hosting, syncing, timers, faults>>

(* 409 stale_fence: the gateway calls fenceShard for the event's shard. *)
RejectEvent(c) ==
    /\ c \in flight /\ ~FenceHolds(c)
    /\ flight' = flight \ {c}
    /\ fence' = Set(fence, c.node, up[c.node])
    /\ UNCHANGED <<accepted, drain, renew, asked, leases, scheduling, generations,
                   nodes, hosting, syncing, faults>>

(* fenceShard, once the shard's section is free. *)
FenceStop(n) ==
    /\ fence[n] /\ sync[n] = "idle"
    /\ Stop(n)
    /\ fence' = Set(fence, n, FALSE) /\ sync' = Set(sync, n, "fence")
    /\ UNCHANGED <<held, host, want, mine, drain, renew, asked, leases, scheduling,
                   generations, nodes, events, faults>>

FenceRelease(n) ==
    /\ sync[n] = "fence"
    /\ ReleaseShardLease(n) /\ EndSync(n)
    /\ UNCHANGED <<children, scheduling, generations, nodes, timers,
                   events, faults>>

----------------------------------------------------------------------------
(* Crashes.  The children share the node's container and end with it; what *)
(* is in Redis stays until it expires.                                     *)
Crash(n) ==
    /\ up[n] /\ Fault("crash")
    /\ up' = Set(up, n, FALSE) /\ draining' = Set(draining, n, FALSE)
    /\ held' = Set(held, n, None) /\ host' = Set(host, n, None)
    /\ children' = {c \in children : c.node # n}
    /\ EndSync(n)
    /\ drain' = Set(drain, n, "idle") /\ renew' = Set(renew, n, "idle")
    /\ asked' = Set(asked, n, None) /\ fence' = Set(fence, n, FALSE)
    /\ UNCHANGED <<heartbeat, drainKey, leases, scheduling, generations, events>>

HeartbeatExpires(n) ==
    /\ ~up[n] /\ n \in heartbeat
    /\ heartbeat' = heartbeat \ {n}
    /\ UNCHANGED <<up, draining, drainKey, leases, scheduling, generations, hosting,
                   syncing, timers, events, faults>>

Restart(n) ==
    /\ ~up[n]
    /\ up' = Set(up, n, TRUE) /\ heartbeat' = heartbeat \cup {n}
    /\ UNCHANGED <<draining, drainKey, leases, scheduling, generations, hosting,
                   syncing, timers, events, faults>>

----------------------------------------------------------------------------
SchedulerStep(w) == Lead(w) \/ Scan(w) \/ SetTarget(w) \/ Unlock(w)

SyncStep(n) ==
    \/ RunShardSync(n) \/ DropStale(n) \/ Acquire(n) \/ FetchFails(n)
    \/ ChooseHost(n) \/ Spawn(n) \/ FenceStop(n) \/ FenceRelease(n)

RenewStep(n) == RenewSend(n) \/ Renewed(n) \/ RenewRefused(n) \/ RenewDrop(n)

DrainStep(n) == DrainStop(n) \/ DrainRelease(n)

FaultStep ==
    \/ LeaderLapses \/ BumpGeneration \/ ExpireUnderHolder
    \/ \E n \in Nodes : Drain(n) \/ Resume(n) \/ Crash(n) \/ RenewUnanswered(n) \/ BootFails(n)
    \/ \E c \in Lease : ChildExits(c) \/ BridgeEvent(c)

Next ==
    \/ FaultStep \/ Expire
    \/ \E w \in Workers : SchedulerStep(w)
    \/ \E n \in Nodes : SyncDesiredState(n) \/ SyncStep(n) \/ RenewStep(n)
                        \/ DrainStep(n) \/ HeartbeatExpires(n) \/ Restart(n)
    \/ \E c \in Lease : AcceptEvent(c) \/ RejectEvent(c)

Spec == Init /\ [][Next]_vars

(* Every timer and loop of the gateways and the workers goes on, a lease   *)
(* nobody renews and the heartbeat of a dead node expire, and a crashed    *)
(* node is restarted.                                                      *)
FairSpec ==
    /\ Spec
    /\ WF_vars(Expire)
    /\ \A w \in Workers : WF_vars(SchedulerStep(w))
    /\ \A n \in Nodes :
          /\ WF_vars(SyncDesiredState(n)) /\ WF_vars(SyncStep(n)) /\ WF_vars(RenewStep(n))
          /\ WF_vars(DrainStep(n)) /\ WF_vars(HeartbeatExpires(n)) /\ WF_vars(Restart(n))
    /\ WF_vars(\E c \in Lease : AcceptEvent(c) \/ RejectEvent(c))

----------------------------------------------------------------------------
(* Every lease the system still remembers, in whatever place. *)
Known ==
    ({lease} \cup children \cup flight
     \cup UNION {{held[n], host[n], mine[n], asked[n]} : n \in Nodes}) \ {None}

(* An epoch names one lease: two nodes, or two generations, never hold     *)
(* hosts, children or events of the same epoch (INCR in acquire).          *)
OneLeasePerEpoch == \A k, l \in Known : k.epoch = l.epoch => k = l

(* Once RyanAI has accepted an event of one lease, it accepts none of an   *)
(* earlier lease, whichever children are still running and whichever       *)
(* events are on their way (validate_event_fence).                         *)
AcceptedInOrder == [][accepted' >= accepted]_vars

(* No two nodes poll the accounts of the shard at the same time.           *)
OnePoller == \A c, d \in children : c.node = d.node

(* A host is never used under another lease than the one it embeds         *)
(* (releaseShardLease).                                                    *)
HostEmbedsLease ==
    \A n \in Nodes : held[n] # None /\ host[n] # None => host[n] = held[n]

Hosted == \E c \in children : lease = c /\ held[c.node] = c

(* The shard is hosted again and again: some node that is up runs a child  *)
(* under the current lease.                                                *)
ShardHosted == []<>Hosted
=============================================================================
