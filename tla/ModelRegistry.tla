---------------------------- MODULE ModelRegistry ----------------------------
(***************************************************************************)
(* The model registry: get_all_models of utils/models.py lists the models  *)
(* of all providers and writes them to the hash that chat requests resolve *)
(* models from, RedisDict.set of socket/utils.py; CachedRedisDict answers  *)
(* reads from a copy per worker that is refetched when the hash's          *)
(* signature changes.  A model is an id, a listing a set of ids, and the   *)
(* digest of a listing is the listing.  Every Redis command is one step.   *)
(***************************************************************************)
EXTENDS Naturals, FiniteSets

CONSTANTS Models,      \* the ids of models, each served by a provider of its own
          Requests,    \* requests that list the models, at most one per slot at a time
          Readers,     \* workers with a cache of the hash
          None,
          MaxWrites,   \* signatures written, which bounds the behaviours
          MaxClears,   \* changes of the connections
          MaxFailures  \* listings in which a provider does not answer

ModelsNonEmpty == Models # {}

VARIABLES offered,     \* the models the configured providers offer
          hash,        \* the Redis hash of the registry
          sig,         \* its signature: None or [d |-> listing, n |-> the uuid]
          base,        \* the Redis copy of the base models: None or a listing
          local,       \* app.state.BASE_MODELS of the worker behind a request slot
          pc, listing, existing,    \* of each request
          cache, cachedSig, readSig, rpc,  \* of each reader
          uuids, clears, failures,
          cleared      \* whether the hash was emptied on purpose since the last listing

request == <<local, pc, listing, existing>>
reader == <<cache, cachedSig, readSig, rpc>>
vars == <<offered, hash, sig, base, request, reader, uuids, clears, failures, cleared>>

TypeOK ==
    /\ offered \subseteq Models /\ hash \subseteq Models
    /\ sig \in [d: SUBSET Models, n: 0..MaxWrites] \cup {None}
    /\ base \in SUBSET Models \cup {None}
    /\ pc \in [Requests -> {"idle", "fetch", "check", "drop", "keys", "hset", "hdel", "sign",
                            "empty", "unsign"}]
    /\ rpc \in [Readers -> {"idle", "fetch"}]

Init ==
    /\ offered = Models /\ hash = Models
    /\ sig = [d |-> Models, n |-> 0]
    /\ base = Models
    /\ local = [r \in Requests |-> Models]
    /\ pc = [r \in Requests |-> "idle"]
    /\ listing = [r \in Requests |-> {}]
    /\ existing = [r \in Requests |-> {}]
    /\ cache = [w \in Readers |-> {}]
    /\ cachedSig = [w \in Readers |-> None]
    /\ readSig = [w \in Readers |-> None]
    /\ rpc = [w \in Readers |-> "idle"]
    /\ uuids = 0 /\ clears = 0 /\ failures = 0
    /\ cleared = FALSE

Goto(r, l) == pc' = [pc EXCEPT ![r] = l]

-----------------------------------------------------------------------------
(* Listing the models. *)

(* get_all_models, up to the fetch: a refresh forgets the base models, and
   base models that are in Redis are taken from there. *)
GetAllModels(r, refresh) ==
    /\ pc[r] = "idle" /\ uuids < MaxWrites
    /\ base' = IF refresh THEN None ELSE base
    /\ IF ~refresh /\ base # None
         THEN /\ local' = [local EXCEPT ![r] = base]
              /\ listing' = [listing EXCEPT ![r] = base]
              /\ Goto(r, "check")
         ELSE /\ local' = IF refresh THEN [local EXCEPT ![r] = {}] ELSE local
              /\ Goto(r, "fetch")
              /\ UNCHANGED listing
    /\ UNCHANGED <<offered, hash, sig, existing, reader, uuids, clears, failures, cleared>>

(* get_all_base_models: a provider that does not answer contributes nothing.
   A listing without models leaves the worker's last one in place. *)
Fetch(r) ==
    /\ pc[r] = "fetch"
    /\ \E silent \in SUBSET offered :
        /\ silent # {} => failures < MaxFailures
        /\ failures' = IF silent = {} THEN failures ELSE failures + 1
        /\ LET got == offered \ silent
           IN  IF got # {}
                 THEN /\ local' = [local EXCEPT ![r] = got]
                      /\ base' = got
                      /\ listing' = [listing EXCEPT ![r] = got]
                      /\ Goto(r, "check")
                 ELSE /\ listing' = [listing EXCEPT ![r] = local[r]]
                      /\ Goto(r, IF local[r] = {} THEN "idle" ELSE "check")
                      /\ UNCHANGED <<local, base>>
    /\ UNCHANGED <<offered, hash, sig, existing, reader, uuids, clears, cleared>>

(* RedisDict.set: nothing to do when the signature has the listing's digest. *)
CheckSignature(r) ==
    /\ pc[r] = "check"
    /\ Goto(r, IF sig # None /\ sig.d = listing[r] THEN "idle" ELSE "drop")
    /\ UNCHANGED <<offered, hash, sig, base, local, listing, existing, reader, uuids, clears, failures, cleared>>

DropSignature(r) ==
    /\ pc[r] = "drop"
    /\ sig' = None
    /\ Goto(r, "keys")
    /\ UNCHANGED <<offered, hash, base, local, listing, existing, reader, uuids, clears, failures, cleared>>

ExistingKeys(r) ==
    /\ pc[r] = "keys"
    /\ existing' = [existing EXCEPT ![r] = hash]
    /\ Goto(r, "hset")
    /\ UNCHANGED <<offered, hash, sig, base, local, listing, reader, uuids, clears, failures, cleared>>

(* Mutant: the hash is deleted before the new values are written. *)
HsetMutant(r) ==
    /\ pc[r] = "hset"
    /\ IF hash # {} /\ hash \cap listing[r] # listing[r]
         THEN hash' = {} /\ Goto(r, "hset")
         ELSE hash' = listing[r] /\ Goto(r, "sign")
    /\ cleared' = FALSE
    /\ UNCHANGED <<offered, sig, base, local, listing, existing, reader, uuids, clears, failures>>

Hset(r) ==
    /\ pc[r] = "hset"
    /\ hash' = hash \cup listing[r]
    /\ cleared' = FALSE
    /\ Goto(r, IF existing[r] \ listing[r] # {} THEN "hdel" ELSE "sign")
    /\ UNCHANGED <<offered, sig, base, local, listing, existing, reader, uuids, clears, failures>>

(* Mutant: the keys that are gone stay in the hash. *)
HdelMutant(r) ==
    /\ pc[r] = "hdel"
    /\ Goto(r, "sign")
    /\ UNCHANGED <<offered, hash, sig, base, local, listing, existing, reader, uuids, clears, failures, cleared>>

Hdel(r) ==
    /\ pc[r] = "hdel"
    /\ hash' = hash \ (existing[r] \ listing[r])
    /\ Goto(r, "sign")
    /\ UNCHANGED <<offered, sig, base, local, listing, existing, reader, uuids, clears, failures, cleared>>

(* Mutant: a signature that is the digest alone. *)
SignMutant(r) ==
    /\ pc[r] = "sign"
    /\ sig' = [d |-> listing[r], n |-> 0]
    /\ uuids' = IF uuids < MaxWrites THEN uuids + 1 ELSE uuids
    /\ Goto(r, "idle")
    /\ UNCHANGED <<offered, hash, base, local, listing, existing, reader, clears, failures, cleared>>

Sign(r) ==
    /\ pc[r] = "sign"
    /\ uuids < MaxWrites
    /\ uuids' = uuids + 1
    /\ sig' = [d |-> listing[r], n |-> uuids + 1]
    /\ Goto(r, "idle")
    /\ UNCHANGED <<offered, hash, base, local, listing, existing, reader, clears, failures, cleared>>

-----------------------------------------------------------------------------
(* A change of the connections: clear_models_cache. *)

(* Mutant: the base models in Redis survive the change. *)
ClearModelsCacheMutant(r) ==
    /\ pc[r] = "idle" /\ clears < MaxClears
    /\ offered' \in SUBSET Models \ {{}, offered}
    /\ clears' = clears + 1
    /\ local' = [local EXCEPT ![r] = {}]
    /\ Goto(r, "empty")
    /\ UNCHANGED <<hash, sig, base, listing, existing, reader, uuids, failures, cleared>>

ClearModelsCache(r) ==
    /\ pc[r] = "idle" /\ clears < MaxClears
    /\ offered' \in SUBSET Models \ {{}, offered}
    /\ clears' = clears + 1
    /\ base' = None
    /\ local' = [local EXCEPT ![r] = {}]
    /\ Goto(r, "empty")
    /\ UNCHANGED <<hash, sig, listing, existing, reader, uuids, failures, cleared>>

(* RedisDict.clear: the hash, then the signature. *)
ClearHash(r) ==
    /\ pc[r] = "empty"
    /\ hash' = {}
    /\ cleared' = TRUE
    /\ Goto(r, "unsign")
    /\ UNCHANGED <<offered, sig, base, local, listing, existing, reader, uuids, clears, failures>>

(* Mutant: the signature outlives the hash. *)
ClearSignatureMutant(r) ==
    /\ pc[r] = "unsign"
    /\ Goto(r, "idle")
    /\ UNCHANGED <<offered, hash, sig, base, local, listing, existing, reader, uuids, clears, failures, cleared>>

ClearSignature(r) ==
    /\ pc[r] = "unsign"
    /\ sig' = None
    /\ Goto(r, "idle")
    /\ UNCHANGED <<offered, hash, base, local, listing, existing, reader, uuids, clears, failures, cleared>>

-----------------------------------------------------------------------------
(* Reading: CachedRedisDict._refresh_cache. *)

ReadSignature(w) ==
    /\ rpc[w] = "idle"
    /\ readSig' = [readSig EXCEPT ![w] = sig]
    /\ rpc' = [rpc EXCEPT ![w] = IF sig = None \/ sig # cachedSig[w] THEN "fetch" ELSE "idle"]
    /\ UNCHANGED <<offered, hash, sig, base, request, cache, cachedSig, uuids, clears, failures, cleared>>

FetchHash(w) ==
    /\ rpc[w] = "fetch"
    /\ cache' = [cache EXCEPT ![w] = hash]
    /\ cachedSig' = [cachedSig EXCEPT ![w] = readSig[w]]
    /\ rpc' = [rpc EXCEPT ![w] = "idle"]
    /\ UNCHANGED <<offered, hash, sig, base, request, readSig, uuids, clears, failures, cleared>>

Next ==
    \/ \E r \in Requests :
        \/ \E refresh \in BOOLEAN : GetAllModels(r, refresh)
        \/ Fetch(r) \/ CheckSignature(r) \/ DropSignature(r) \/ ExistingKeys(r)
        \/ Hset(r) \/ Hdel(r) \/ Sign(r)
        \/ ClearModelsCache(r) \/ ClearHash(r) \/ ClearSignature(r)
    \/ \E w \in Readers : ReadSignature(w) \/ FetchHash(w)

Spec == Init /\ [][Next]_vars

-----------------------------------------------------------------------------
Quiet == \A r \in Requests : pc[r] = "idle"

(* A worker that finds its cached signature in Redis answers from a copy that
   is the hash, whatever writes and clears overlapped its last fetch: the
   signature is dropped before the hash changes and none is used twice. *)
CacheIsHash ==
    Quiet => \A w \in Readers : (sig # None /\ cachedSig[w] = sig) => cache[w] = hash

(* "this eliminates the race window where concurrent readers would see an
   empty models dict" (socket/utils.py): a hash that was not cleared on
   purpose always has a model. *)
NeverEmpty == hash = {} => cleared

(* "Chat requests resolve models by ID from request.app.state.MODELS ...
   Return the same effective list" (main.py): when no write is under way the
   hash is the listing its signature stands for, so that the next listing with
   that digest may return without a write. *)
SignatureTells == (Quiet /\ sig # None) => hash = sig.d

(* A change of the connections takes effect: the base models kept in Redis are
   models that are still offered. *)
NoStaleBase == (Quiet /\ base # None) => base \subseteq offered
=============================================================================
