---------------------------- MODULE PipelineCache ----------------------------
(***************************************************************************)
(* PipelineCacheManager with the OCRService in front of it, in the Paddle  *)
(* worker process: which models are loaded, who uses them, and what evicts *)
(* them - capacity, the TTL watcher, a release, the oneDNN fallback.  The  *)
(* worker serves one request at a time; only the watcher runs beside it,   *)
(* between any two critical sections of a request.                         *)
(***************************************************************************)
EXTENDS Integers, Sequences, FiniteSets

CONSTANTS
    Pipelines, NoPipeline,
    Heavy,     \* the pipelines that count against the capacity
    MaxHeavy

ASSUME CacheAssumption ==
    /\ IsFiniteSet(Pipelines) /\ NoPipeline \notin Pipelines
    /\ Heavy \subseteq Pipelines
    /\ MaxHeavy \in Nat \ {0}

VARIABLES
    loaded,   \* the keys of _pipelines
    plain,    \* those of them created without oneDNN
    disabled, \* _onednn_runtime_disabled
    active,   \* _active_counts
    order,    \* the keys of _last_used, oldest first
    stale,    \* those used at least their TTL ago
    pinned, finite,    \* _pinned, and the pipelines with a TTL above zero
    pending,           \* the TTLs a configure_residency has yet to set
    phase, pipe,          \* the request: its position and its pipeline,
    leased, retried    \* whether it holds a lease, and tries for a second time

modelVars == <<loaded, plain, disabled>>
useVars == <<active, order, stale>>
policyVars == <<pinned, finite, pending>>
requestVars == <<phase, pipe, leased, retried>>
cache == <<modelVars, useVars, policyVars, requestVars>>

Pcs == {"idle", "configure", "get", "create", "touch", "fetch", "infer", "fallback", "end"}

Step(here, next) == phase = here /\ phase' = next

-----------------------------------------------------------------------------
(* _last_used and _release_one.                                              *)

Entries == {order[i] : i \in DOMAIN order}
Without(S) == SelectSeq(order, LAMBDA p : p \notin S)
Touched(p) == Append(Without({p}), p)

\* A pipeline without an entry counts as the oldest.
UsedBefore(p, q) ==
    \/ p \notin Entries /\ q \in Entries
    \/ \E i, j \in DOMAIN order : i < j /\ order[i] = p /\ order[j] = q

\* _release_one for the pipelines of S forgets their use and their leases.
Drop(S) ==
    /\ loaded' = loaded \ S /\ plain' = plain \ S
    /\ stale' = stale \ S
    /\ active' = [p \in Pipelines |-> IF p \in S THEN 0 ELSE active[p]]

Evict(S) == Drop(S) /\ order' = Without(S)

\* The clock of a model without an entry starts now, in no particular order.
Orderings(S) ==
    {s \in [1 .. Cardinality(S) -> S] : \A p \in S : \E i \in DOMAIN s : s[i] = p}

Evictable_Active == loaded \ pinned
Evictable == {p \in loaded \ pinned : active[p] = 0}

-----------------------------------------------------------------------------
(* A request: recognize_many leases its pipeline, preload does not; both go  *)
(* through get_or_create_pipeline.                                           *)

BeginRequest(p) ==
    /\ Step("idle", "get")
    /\ pipe' = p /\ UNCHANGED retried

RecognizeMany(p) ==
    /\ BeginRequest(p)
    /\ leased' = TRUE
    /\ active' = [active EXCEPT ![p] = @ + 1]
    /\ UNCHANGED <<modelVars, order, stale, policyVars>>

PreloadPipeline(p) ==
    /\ BeginRequest(p)
    /\ leased' = FALSE
    /\ UNCHANGED <<modelVars, useVars, policyVars>>

Hit ==
    /\ pipe \in loaded
    /\ Step("get", "touch")
    /\ UNCHANGED <<modelVars, useVars, policyVars, pipe, leased, retried>>

Excess_OffByOne(p) == Cardinality((loaded \cap Heavy) \ {p}) - MaxHeavy
Excess(p) == Cardinality((loaded \cap Heavy) \ {p}) + 1 - MaxHeavy

\* prepare_load evicts the least recently used, as many as are too many.
Victims(p, V) ==
    LET candidates == (Evictable \cap Heavy) \ {p} IN
    /\ V \subseteq candidates
    /\ \A v \in V, q \in candidates \ V : ~UsedBefore(q, v)
    /\ IF p \notin Heavy \/ Excess(p) <= 0 THEN V = {}
       ELSE \/ Cardinality(V) = Excess(p)
            \/ Cardinality(V) < Excess(p) /\ V = candidates

\* Otherwise PIN_CAPACITY_CONFLICT.
Enough(p, V) == p \in Heavy => Cardinality(V) >= Excess(p)

PrepareLoad ==
    /\ pipe \notin loaded
    /\ \E V \in SUBSET loaded :
         /\ Victims(pipe, V) /\ Evict(V)
         /\ Step("get", IF Enough(pipe, V) THEN "create" ELSE "end")
    /\ UNCHANGED <<disabled, policyVars, pipe, leased, retried>>

\* _decide_enable_mkldnn chooses oneDNN unless it is locked off.
Create ==
    /\ Step("create", "touch")
    /\ loaded' = loaded \cup {pipe}
    /\ \E on \in BOOLEAN :
         plain' = IF on /\ ~disabled THEN plain ELSE plain \cup {pipe}
    /\ UNCHANGED <<disabled, useVars, policyVars, pipe, leased, retried>>

CreateFails ==
    /\ Step("create", "end")
    /\ UNCHANGED <<modelVars, useVars, policyVars, pipe, leased, retried>>

Touch ==
    /\ Step("touch", "fetch")
    /\ order' = Touched(pipe)
    /\ stale' = stale \ {pipe}
    /\ UNCHANGED <<modelVars, active, policyVars, pipe, leased, retried>>

\* The last look into the cache is outside every lock; a KeyError ends the request.
Fetch ==
    /\ Step("fetch", IF leased /\ pipe \in loaded THEN "infer" ELSE "end")
    /\ UNCHANGED <<modelVars, useVars, policyVars, pipe, leased, retried>>

Inferred ==
    /\ Step("infer", "end")
    /\ UNCHANGED <<modelVars, useVars, policyVars, pipe, leased, retried>>

\* The known PIR error of a oneDNN model: one more attempt, without oneDNN.
PirError ==
    /\ pipe \notin plain /\ ~disabled /\ ~retried
    /\ Step("infer", "fallback")
    /\ UNCHANGED <<modelVars, useVars, policyVars, pipe, leased, retried>>

ReleaseOne(p) == IF p \in pinned THEN UNCHANGED <<loaded, plain, useVars>> ELSE Evict({p})

Fallback ==
    /\ Step("fallback", "get")
    /\ disabled' = TRUE
    /\ retried' = TRUE
    /\ ReleaseOne(pipe)
    /\ UNCHANGED <<policyVars, pipe, leased>>

\* The finally clause of the lease; a preload just ends.
ActiveAfter_Leaked(p) == active[p]
ActiveAfter(p) == IF active[p] > 1 THEN active[p] - 1 ELSE 0

End ==
    /\ Step("end", "idle")
    /\ IF leased
       THEN /\ active' = [active EXCEPT ![pipe] = ActiveAfter(pipe)]
            /\ IF pipe \in loaded
               THEN order' = Touched(pipe) /\ stale' = stale \ {pipe}
               ELSE UNCHANGED <<order, stale>>
       ELSE UNCHANGED useVars
    /\ leased' = FALSE /\ pipe' = NoPipeline /\ retried' = FALSE
    /\ UNCHANGED <<modelVars, policyVars>>

-----------------------------------------------------------------------------
(* The other requests: release, and new settings in two critical sections.   *)

Release ==
    /\ phase = "idle" /\ loaded \ pinned # {}
    /\ Evict(loaded \ pinned)
    /\ UNCHANGED <<disabled, policyVars, requestVars>>

ReleaseNamed(p) ==
    /\ phase = "idle" /\ p \in loaded
    /\ ReleaseOne(p)
    /\ UNCHANGED <<disabled, policyVars, requestVars>>

ConfigurePins(P, F) ==
    /\ Step("idle", "configure")
    /\ pinned' = P /\ pending' = F \ P
    /\ UNCHANGED <<modelVars, useVars, finite, pipe, leased, retried>>

\* The ttls setter starts the clock of whatever is loaded, with a TTL or without.
ConfigureTtls ==
    /\ Step("configure", "idle")
    /\ finite' = pending /\ pending' = {}
    /\ \E new \in Orderings(loaded \ Entries) : order' = order \o new
    /\ UNCHANGED <<modelVars, active, stale, pinned, pipe, leased, retried>>

-----------------------------------------------------------------------------
(* Time and the watcher.                                                     *)

TimePasses(p) ==
    /\ p \in (loaded \cap Entries) \ stale
    /\ stale' = stale \cup {p}
    /\ UNCHANGED <<modelVars, active, order, policyVars, requestVars>>

Due == Evictable \cap finite \cap stale
Unstamped == (Evictable \cap finite) \ Entries

EvictIdle ==
    /\ Due \cup Unstamped # {}
    /\ Drop(Due)
    /\ \E new \in Orderings(Unstamped) : order' = Without(Due) \o new
    /\ UNCHANGED <<disabled, policyVars, requestVars>>

-----------------------------------------------------------------------------
CacheInit ==
    /\ loaded = {} /\ plain = {} /\ disabled = FALSE
    /\ active = [p \in Pipelines |-> 0] /\ order = <<>> /\ stale = {}
    /\ pinned = {} /\ finite = {} /\ pending = {}
    /\ phase = "idle" /\ pipe = NoPipeline /\ leased = FALSE /\ retried = FALSE

Advance ==
    \/ Hit \/ PrepareLoad \/ Create \/ CreateFails \/ Touch \/ Fetch
    \/ Inferred \/ PirError \/ Fallback \/ End \/ ConfigureTtls

CacheNext ==
    \/ \E p \in Pipelines : RecognizeMany(p) \/ PreloadPipeline(p) \/ ReleaseNamed(p)
    \/ Advance \/ Release
    \/ \E P, F \in SUBSET Pipelines : ConfigurePins(P, F)
    \/ \E p \in Pipelines : TimePasses(p)
    \/ EvictIdle

CacheSpec == CacheInit /\ [][CacheNext]_cache

\* Time passes, the watcher wakes at the next deadline, a request comes to its end.
FairSpec ==
    /\ CacheSpec /\ WF_cache(EvictIdle) /\ WF_cache(Advance)
    /\ \A p \in Pipelines : WF_cache(TimePasses(p))

-----------------------------------------------------------------------------
(* Properties                                                                *)

CacheTypeOK ==
    /\ loaded \subseteq Pipelines /\ plain \subseteq loaded /\ disabled \in BOOLEAN
    /\ active \in [Pipelines -> {0, 1}]
    /\ order \in Seq(Pipelines) /\ stale \subseteq Entries
    /\ pinned \subseteq Pipelines /\ finite \subseteq Pipelines /\ pending \subseteq Pipelines
    /\ phase \in Pcs /\ pipe \in Pipelines \cup {NoPipeline}
    /\ leased \in BOOLEAN /\ retried \in BOOLEAN

\* However loads, pins, evictions and failures interleave, the device never has to
\* hold more heavy models than it has room for.
HeavyModelsFit == Cardinality(loaded \cap Heavy) <= MaxHeavy

\* From the moment a leased request has found or loaded its model until the inference
\* is over the model stays: no eviction takes it away and no KeyError ends the request.
Using == leased /\ phase \in {"touch", "fetch", "infer"}
ModelInUseStays == Using /\ ~retried => pipe \in loaded

\* A lease count names the request that holds the lease; one that stayed behind would
\* keep the model for good.
LeasesAreCounted ==
    ~retried => \A p \in Pipelines : active[p] = IF leased /\ pipe = p THEN 1 ELSE 0

\* Only a change of the pins takes a pinned model's place in the cache away.
PinnedModelsStay == [][pinned \cap loaded \subseteq loaded']_cache

\* A model with a TTL that nobody uses does not stay for good: again and again it is
\* gone, pinned, in use, or has its TTL taken off.  No sequence of failures, releases
\* and settings leaves behind a lease or a missing clock that would keep it.
IdleModelsGo ==
    \A p \in Pipelines : []<>(p \in (loaded \cap finite) \ pinned => pipe = p)

-----------------------------------------------------------------------------
(* What makes the invariants inductive (the proofs are in                    *)
(* WorkerProofs).                                                     *)

\* The part of CacheTypeOK the proofs need: nothing about the order of use.
LeaseTypeOK ==
    /\ loaded \subseteq Pipelines
    /\ active \in [Pipelines -> {0, 1}]
    /\ phase \in Pcs /\ pipe \in Pipelines \cup {NoPipeline}
    /\ leased \in BOOLEAN /\ retried \in BOOLEAN

RequestIsWhole ==
    /\ IF phase \in {"idle", "configure"} THEN ~leased /\ ~retried ELSE pipe \in Pipelines
    /\ phase \in {"infer", "fallback"} => leased
    /\ phase = "fallback" => ~retried

OnlyTheRequestLeases == \A p \in Pipelines : active[p] # 0 => leased /\ pipe = p

\* What prepare_load has made room for stays, whatever the watcher does meanwhile.
RoomForTheModel ==
    phase = "create" => pipe \notin loaded /\ (pipe \in Heavy => Excess(pipe) <= 0)

CacheInv ==
    /\ LeaseTypeOK /\ RequestIsWhole /\ OnlyTheRequestLeases /\ RoomForTheModel
    /\ HeavyModelsFit /\ ModelInUseStays /\ LeasesAreCounted

=============================================================================
