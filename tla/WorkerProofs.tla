---------------------------- MODULE WorkerProofs ----------------------------
(***************************************************************************)
(* The Paddle worker.  PipelineCache, for any pipelines and any capacity:  *)
(* the device never holds too many heavy models, the model of a leased     *)
(* request stays, the lease counts are exact, pinned models are not        *)
(* evicted.  PaddleProcess, for any threads, settings and bounds: replies  *)
(* reach the request they are for, and one worker runs with the settings   *)
(* that are in force.                                                      *)
(***************************************************************************)
EXTENDS PipelineCache, PaddleProcess, FiniteSetTheorems, SequenceTheorems, TLAPS

-----------------------------------------------------------------------------
(* The models in a worker.                                                   *)

\* Dropping models keeps the cache and the lease counts typed.
LEMMA DropKeepsTypes ==
  ASSUME NEW S, LeaseTypeOK, Drop(S)
  PROVE  loaded' \subseteq Pipelines /\ active' \in [Pipelines -> {0, 1}]
BY DEF LeaseTypeOK, Drop

\* Types are kept by every step of a request, of the watcher and of time.
LEMMA TypeStep ==
  ASSUME LeaseTypeOK, RequestIsWhole, OnlyTheRequestLeases, [CacheNext]_cache PROVE LeaseTypeOK'
<1> USE CacheAssumption DEF LeaseTypeOK, Step, Pcs, modelVars, useVars, policyVars, requestVars
<1>1. ASSUME NEW p \in Pipelines, RecognizeMany(p) PROVE LeaseTypeOK'
  <2>1. active[p] = 0
    BY <1>1 DEF RecognizeMany, BeginRequest, RequestIsWhole, OnlyTheRequestLeases
  <2> QED BY <1>1, <2>1 DEF RecognizeMany, BeginRequest
<1>2. ASSUME NEW p \in Pipelines, PreloadPipeline(p) PROVE LeaseTypeOK'
  BY <1>2 DEF PreloadPipeline, BeginRequest
<1>3. ASSUME NEW p \in Pipelines, ReleaseNamed(p) PROVE LeaseTypeOK'
  BY <1>3, DropKeepsTypes DEF ReleaseNamed, ReleaseOne, Evict
<1>4. CASE Release
  BY <1>4, DropKeepsTypes DEF Release, Evict
<1>5. CASE PrepareLoad
  <2>1. PICK V \in SUBSET loaded : Evict(V)
    BY <1>5 DEF PrepareLoad
  <2>2. phase' \in Pcs /\ UNCHANGED <<pipe, leased, retried>>
    BY <1>5 DEF PrepareLoad
  <2> QED BY <2>1, <2>2, DropKeepsTypes DEF Evict
<1>6. CASE Create
  BY <1>6 DEF Create, RequestIsWhole
<1>7. CASE Fallback
  BY <1>7, DropKeepsTypes DEF Fallback, ReleaseOne, Evict
<1>8. CASE End
  <2>1. active' \in [Pipelines -> {0, 1}]
    <3>1. ActiveAfter(pipe) = 0
      BY <1>8 DEF End, RequestIsWhole, ActiveAfter
    <3>2. active' = [active EXCEPT ![pipe] = 0] \/ active' = active
      BY <1>8, <3>1 DEF End
    <3> QED BY <3>2
  <2>2. /\ loaded' = loaded /\ phase' = "idle" /\ pipe' = NoPipeline
        /\ leased' = FALSE /\ retried' = FALSE
    BY <1>8 DEF End
  <2> QED BY <2>1, <2>2
<1>9. CASE EvictIdle
  <2>1. Drop(Due) /\ UNCHANGED requestVars
    BY <1>9 DEF EvictIdle
  <2> QED BY <2>1, DropKeepsTypes
<1>10. CASE Hit \/ CreateFails \/ Touch \/ Fetch \/ Inferred \/ PirError
  BY <1>10 DEF Hit, CreateFails, Touch, Fetch, Inferred, PirError
<1>11. CASE ConfigureTtls \/ \E P, F \in SUBSET Pipelines : ConfigurePins(P, F)
  BY <1>11 DEF ConfigureTtls, ConfigurePins
<1>12. CASE UNCHANGED cache \/ \E p \in Pipelines : TimePasses(p)
  BY <1>12 DEF cache, TimePasses
<1> QED
  BY <1>1, <1>2, <1>3, <1>4, <1>5, <1>6, <1>7, <1>8, <1>9, <1>10, <1>11, <1>12
  DEF CacheNext, Advance

\* A request leases a pipeline of its own choice, infers under its lease, and leaves
\* neither the lease nor the mark of a second attempt behind.
LEMMA RequestStep ==
  ASSUME LeaseTypeOK, RequestIsWhole, [CacheNext]_cache PROVE RequestIsWhole'
<1> USE DEF LeaseTypeOK, RequestIsWhole, Step, requestVars
<1>1. CASE \E p \in Pipelines : RecognizeMany(p) \/ PreloadPipeline(p)
  BY <1>1 DEF RecognizeMany, PreloadPipeline, BeginRequest
<1>2. CASE PrepareLoad
  <2>1. phase = "get" /\ phase' \in {"create", "end"} /\ UNCHANGED <<pipe, leased, retried>>
    BY <1>2 DEF PrepareLoad
  <2> QED BY <2>1
<1>3. CASE Hit \/ Create \/ CreateFails \/ Touch \/ Fetch \/ Inferred \/ PirError
  BY <1>3 DEF Hit, Create, CreateFails, Touch, Fetch, Inferred, PirError
<1>4. CASE Fallback \/ End
  BY <1>4 DEF Fallback, End
<1>5. CASE ConfigureTtls \/ \E P, F \in SUBSET Pipelines : ConfigurePins(P, F)
  BY <1>5 DEF ConfigureTtls, ConfigurePins
<1>6. CASE UNCHANGED requestVars
  BY <1>6
<1>7. CASE \/ Release \/ EvictIdle \/ UNCHANGED cache
           \/ \E p \in Pipelines : ReleaseNamed(p) \/ TimePasses(p)
  BY <1>6, <1>7 DEF Release, EvictIdle, ReleaseNamed, TimePasses, cache
<1> QED
  BY <1>1, <1>2, <1>3, <1>4, <1>5, <1>7 DEF CacheNext, Advance

\* Dropping models never adds a lease.
LEMMA DropKeepsLeases ==
  ASSUME NEW S, LeaseTypeOK, Drop(S)
  PROVE  \A p \in Pipelines : active'[p] = IF p \in S THEN 0 ELSE active[p]
BY DEF LeaseTypeOK, Drop

\* Nobody but the request in progress holds a lease, and before a second attempt the
\* request holds exactly one, on its pipeline.
LEMMA LeaseStep ==
  ASSUME LeaseTypeOK, RequestIsWhole, OnlyTheRequestLeases, LeasesAreCounted, [CacheNext]_cache
  PROVE  OnlyTheRequestLeases' /\ LeasesAreCounted'
<1> USE DEF LeaseTypeOK, RequestIsWhole, OnlyTheRequestLeases, LeasesAreCounted, Step,
            requestVars, useVars
<1> DEFINE Goal == OnlyTheRequestLeases' /\ LeasesAreCounted'
<1>1. ASSUME NEW p \in Pipelines, RecognizeMany(p) PROVE Goal
  BY <1>1 DEF RecognizeMany, BeginRequest
<1>2. ASSUME NEW p \in Pipelines, PreloadPipeline(p) PROVE Goal
  BY <1>2 DEF PreloadPipeline, BeginRequest
<1>3. ASSUME NEW p \in Pipelines, ReleaseNamed(p) PROVE Goal
  BY <1>3, DropKeepsLeases DEF ReleaseNamed, ReleaseOne, Evict
<1>4. CASE Release
  BY <1>4, DropKeepsLeases DEF Release, Evict
<1>5. CASE PrepareLoad
  <2>1. PICK V \in SUBSET loaded : Victims(pipe, V) /\ Evict(V)
    BY <1>5 DEF PrepareLoad
  <2>2. \A p \in V : active[p] = 0
    BY <2>1 DEF Victims, Evictable
  <2>3. UNCHANGED <<pipe, leased, retried>>
    BY <1>5 DEF PrepareLoad
  <2>4. \A p \in Pipelines : active'[p] = active[p]
    BY <2>1, <2>2, DropKeepsLeases DEF Evict
  <2> QED BY <2>3, <2>4
<1>6. CASE Fallback
  BY <1>6, DropKeepsLeases DEF Fallback, ReleaseOne, Evict
<1>7. CASE End
  <2>1. ~leased' /\ ~retried'
    BY <1>7 DEF End
  <2>2. \A p \in Pipelines : active'[p] = 0
    BY <1>7 DEF End, ActiveAfter
  <2> QED BY <2>1, <2>2
<1>8. CASE EvictIdle
  <2>1. Drop(Due) /\ UNCHANGED <<pipe, leased, retried>>
    BY <1>8 DEF EvictIdle
  <2>2. \A p \in Pipelines : active'[p] = active[p]
    BY <2>1, DropKeepsLeases DEF Due, Evictable
  <2> QED BY <2>1, <2>2
<1>9. CASE \/ Hit \/ Create \/ CreateFails \/ Touch \/ Fetch \/ Inferred \/ PirError
           \/ ConfigureTtls
  BY <1>9 DEF Hit, Create, CreateFails, Touch, Fetch, Inferred, PirError, ConfigureTtls
<1>10. CASE \/ UNCHANGED cache \/ \E p \in Pipelines : TimePasses(p)
            \/ \E P, F \in SUBSET Pipelines : ConfigurePins(P, F)
  BY <1>10 DEF cache, TimePasses, ConfigurePins
<1> QED
  BY <1>1, <1>2, <1>3, <1>4, <1>5, <1>6, <1>7, <1>8, <1>9, <1>10 DEF CacheNext, Advance

\* Sets of heavy models are finite, and smaller when models go.
LEMMA HeavyCounted ==
  ASSUME LeaseTypeOK, NEW S \in SUBSET loaded, NEW p
  PROVE  /\ Cardinality(loaded \cap Heavy) \in Nat
         /\ Cardinality(S \cap Heavy) \in Nat
         /\ Cardinality(S \cap Heavy) <= Cardinality(loaded \cap Heavy)
         /\ Cardinality((loaded \cap Heavy) \ {p}) \in Nat
         /\ Cardinality((S \cap Heavy) \ {p}) \in Nat
         /\ Cardinality((S \cap Heavy) \ {p}) <= Cardinality((loaded \cap Heavy) \ {p})
<1>1. IsFiniteSet(loaded \cap Heavy)
  BY CacheAssumption, FS_Subset DEF LeaseTypeOK
<1>2. IsFiniteSet(S \cap Heavy) /\ Cardinality(S \cap Heavy) <= Cardinality(loaded \cap Heavy)
  <2>1. S \cap Heavy \in SUBSET (loaded \cap Heavy)
    OBVIOUS
  <2> QED BY <1>1, <2>1, FS_Subset
<1>3. IsFiniteSet((loaded \cap Heavy) \ {p})
  BY <1>1, FS_RemoveElement
<1>4. /\ IsFiniteSet((S \cap Heavy) \ {p})
      /\ Cardinality((S \cap Heavy) \ {p}) <= Cardinality((loaded \cap Heavy) \ {p})
  <2>1. (S \cap Heavy) \ {p} \in SUBSET ((loaded \cap Heavy) \ {p})
    OBVIOUS
  <2> QED BY <1>3, <2>1, FS_Subset
<1> QED BY <1>1, <1>2, <1>3, <1>4, FS_CardinalityType

\* After prepare_load has evicted as many models as are too many, the next one fits.
LEMMA RoomIsMade ==
  ASSUME LeaseTypeOK, NEW p, p \in Heavy, NEW V, Victims(p, V), Enough(p, V)
  PROVE  Cardinality(((loaded \ V) \cap Heavy) \ {p}) + 1 - MaxHeavy <= 0
<1> DEFINE others == (loaded \cap Heavy) \ {p}
<1>1. V \in SUBSET others
  BY DEF Victims, Evictable
<1>2. IsFiniteSet(others)
  BY CacheAssumption, FS_Subset DEF LeaseTypeOK
<1>3. /\ IsFiniteSet(V) /\ IsFiniteSet(others \ V)
      /\ Cardinality(others \ V) = Cardinality(others) - Cardinality(others \cap V)
  BY <1>1, <1>2, FS_Subset, FS_Difference
<1>4. others \cap V = V /\ ((loaded \ V) \cap Heavy) \ {p} = others \ V
  BY <1>1
<1>5. Cardinality(V) >= Cardinality(others) + 1 - MaxHeavy
  BY DEF Enough, Excess
<1>6. Cardinality(V) \in Nat /\ Cardinality(others) \in Nat /\ Cardinality(others \ V) \in Nat
  BY <1>2, <1>3, FS_CardinalityType
<1>7. Cardinality(others \cap V) = Cardinality(V)
  BY <1>4
<1>8. Cardinality(((loaded \ V) \cap Heavy) \ {p}) = Cardinality(others \ V)
  BY <1>4
<1>9. MaxHeavy \in Nat
  BY CacheAssumption
<1> HIDE DEF others
<1> QED BY <1>3, <1>5, <1>6, <1>7, <1>8, <1>9

\* A smaller cache has at least as much room.
LEMMA LessIsRoom ==
  ASSUME LeaseTypeOK, RoomForTheModel, HeavyModelsFit, loaded' \subseteq loaded,
         pipe' = pipe, phase' = "create" => phase = "create"
  PROVE  RoomForTheModel' /\ HeavyModelsFit'
<1>1. loaded' \in SUBSET loaded
  OBVIOUS
<1>2. MaxHeavy \in Nat
  BY CacheAssumption
<1>3. HeavyModelsFit'
  <2>1. /\ Cardinality(loaded' \cap Heavy) <= Cardinality(loaded \cap Heavy)
        /\ Cardinality(loaded' \cap Heavy) \in Nat /\ Cardinality(loaded \cap Heavy) \in Nat
    BY <1>1, HeavyCounted
  <2> QED BY <1>2, <2>1 DEF HeavyModelsFit
<1>4. ASSUME phase' = "create", pipe' \in Heavy PROVE Excess(pipe)' <= 0
  <2>1. Cardinality((loaded \cap Heavy) \ {pipe}) + 1 - MaxHeavy <= 0
    BY <1>4 DEF RoomForTheModel, Excess
  <2>2. /\ Cardinality((loaded' \cap Heavy) \ {pipe}) <= Cardinality((loaded \cap Heavy) \ {pipe})
        /\ Cardinality((loaded' \cap Heavy) \ {pipe}) \in Nat
        /\ Cardinality((loaded \cap Heavy) \ {pipe}) \in Nat
    BY <1>1, HeavyCounted
  <2>3. Excess(pipe)' = Cardinality((loaded' \cap Heavy) \ {pipe}) + 1 - MaxHeavy
    BY DEF Excess
  <2> QED BY <1>2, <2>1, <2>2, <2>3
<1> QED BY <1>1, <1>3, <1>4 DEF RoomForTheModel

\* Only Create adds a model, and for that one prepare_load has made room.
LEMMA RoomStep ==
  ASSUME LeaseTypeOK, RequestIsWhole, RoomForTheModel, HeavyModelsFit, [CacheNext]_cache
  PROVE  RoomForTheModel' /\ HeavyModelsFit'
<1> USE DEF Step, requestVars, modelVars
<1>1. CASE PrepareLoad
  <2>1. PICK V \in SUBSET loaded :
          Victims(pipe, V) /\ Evict(V) /\ Step("get", IF Enough(pipe, V) THEN "create" ELSE "end")
    BY <1>1 DEF PrepareLoad
  <2>2. loaded' = loaded \ V /\ pipe' = pipe /\ pipe \notin loaded
    BY <1>1, <2>1 DEF PrepareLoad, Evict, Drop
  <2>3. HeavyModelsFit'
    <3>1. /\ Cardinality(loaded' \cap Heavy) <= Cardinality(loaded \cap Heavy)
          /\ Cardinality(loaded' \cap Heavy) \in Nat /\ Cardinality(loaded \cap Heavy) \in Nat
      <4>1. loaded' \in SUBSET loaded
        BY <2>2
      <4> QED BY <4>1, HeavyCounted
    <3>2. MaxHeavy \in Nat
      BY CacheAssumption
    <3> QED BY <3>1, <3>2 DEF HeavyModelsFit
  <2>4. ASSUME phase' = "create", pipe \in Heavy PROVE Excess(pipe)' <= 0
    <3>1. Enough(pipe, V)
      BY <2>1, <2>4
    <3> QED BY <2>1, <2>2, <2>4, <3>1, RoomIsMade DEF Excess
  <2> QED BY <2>2, <2>3, <2>4 DEF RoomForTheModel
<1>2. CASE Create
  <2>1. phase = "create" /\ phase' = "touch" /\ loaded' = loaded \cup {pipe}
    BY <1>2 DEF Create
  <2>2. CASE pipe \in Heavy
    <3>1. pipe \notin loaded /\ Cardinality((loaded \cap Heavy) \ {pipe}) + 1 - MaxHeavy <= 0
      BY <2>1, <2>2 DEF RoomForTheModel, Excess
    <3>2. (loaded \cap Heavy) \ {pipe} = loaded \cap Heavy
          /\ loaded' \cap Heavy = (loaded \cap Heavy) \cup {pipe}
      BY <2>1, <2>2, <3>1
    <3>3. IsFiniteSet(loaded \cap Heavy)
      BY CacheAssumption, FS_Subset DEF LeaseTypeOK
    <3>4. Cardinality(loaded' \cap Heavy) = Cardinality(loaded \cap Heavy) + 1
      BY <3>1, <3>2, <3>3, FS_AddElement
    <3>5. Cardinality((loaded \cap Heavy) \ {pipe}) = Cardinality(loaded \cap Heavy)
      BY <3>2
    <3>6. Cardinality(loaded \cap Heavy) \in Nat /\ MaxHeavy \in Nat
      BY <3>3, FS_CardinalityType, CacheAssumption
    <3>7. Cardinality(loaded' \cap Heavy) <= MaxHeavy
      BY <3>1, <3>4, <3>5, <3>6
    <3> QED BY <2>1, <3>7 DEF HeavyModelsFit, RoomForTheModel
  <2>3. CASE pipe \notin Heavy
    <3>1. loaded' \cap Heavy = loaded \cap Heavy
      BY <2>1, <2>3
    <3> QED BY <2>1, <3>1 DEF HeavyModelsFit, RoomForTheModel
  <2> QED BY <2>2, <2>3
<1>3. CASE \E p \in Pipelines : RecognizeMany(p) \/ PreloadPipeline(p)
  BY <1>3 DEF RecognizeMany, PreloadPipeline, BeginRequest, RoomForTheModel, HeavyModelsFit
<1>4. CASE End
  BY <1>4 DEF End, RoomForTheModel, HeavyModelsFit
<1>5. CASE Fallback \/ Release \/ EvictIdle \/ \E p \in Pipelines : ReleaseNamed(p)
  <2>1. /\ loaded' \subseteq loaded /\ pipe' = pipe
        /\ phase' = "create" => phase = "create"
    BY <1>5 DEF Fallback, Release, EvictIdle, ReleaseNamed, ReleaseOne, Evict, Drop
  <2> QED BY <2>1, LessIsRoom
<1>6. CASE Hit \/ CreateFails \/ Touch \/ Fetch \/ Inferred \/ PirError \/ ConfigureTtls
  <2>1. /\ loaded' \subseteq loaded /\ pipe' = pipe
        /\ phase' = "create" => phase = "create"
    BY <1>6 DEF Hit, CreateFails, Touch, Fetch, Inferred, PirError, ConfigureTtls
  <2> QED BY <2>1, LessIsRoom
<1>7. CASE \/ UNCHANGED cache \/ \E p \in Pipelines : TimePasses(p)
           \/ \E P, F \in SUBSET Pipelines : ConfigurePins(P, F)
  <2>1. /\ loaded' \subseteq loaded /\ pipe' = pipe
        /\ phase' = "create" => phase = "create"
    BY <1>7 DEF cache, TimePasses, ConfigurePins
  <2> QED BY <2>1, LessIsRoom
<1> QED
  BY <1>1, <1>2, <1>3, <1>4, <1>5, <1>6, <1>7 DEF CacheNext, Advance

\* The model of a request is in the cache when the request gets to use it, and its
\* lease keeps the watcher away.
LEMMA InUseStep ==
  ASSUME LeaseTypeOK, RequestIsWhole, LeasesAreCounted, ModelInUseStays, [CacheNext]_cache
  PROVE  ModelInUseStays'
<1> USE DEF LeaseTypeOK, ModelInUseStays, Using, Step, modelVars, requestVars
<1>1. CASE Hit
  BY <1>1 DEF Hit
<1>2. CASE Create
  <2>1. pipe' = pipe /\ loaded' = loaded \cup {pipe}
    BY <1>2 DEF Create
  <2> QED BY <2>1
<1>3. CASE Touch
  BY <1>3 DEF Touch
<1>4. CASE Fetch
  BY <1>4 DEF Fetch
<1>5. CASE Inferred \/ PirError
  BY <1>5 DEF Inferred, PirError
<1>6. CASE EvictIdle
  <2>1. Drop(Due) /\ UNCHANGED requestVars
    BY <1>6 DEF EvictIdle
  <2>2. Using /\ ~retried => pipe \notin Due
    BY DEF LeasesAreCounted, RequestIsWhole, Due, Evictable
  <2> QED BY <2>1, <2>2 DEF Drop
<1>7. CASE PrepareLoad
  <2>1. phase' \in {"create", "end"}
    BY <1>7 DEF PrepareLoad
  <2> QED BY <2>1
<1>8. CASE CreateFails \/ Fallback \/ End \/ ConfigureTtls
  BY <1>8 DEF CreateFails, Fallback, End, ConfigureTtls
<1>9. CASE \/ \E p \in Pipelines : RecognizeMany(p) \/ PreloadPipeline(p)
           \/ \E P, F \in SUBSET Pipelines : ConfigurePins(P, F)
  BY <1>9 DEF RecognizeMany, PreloadPipeline, BeginRequest, ConfigurePins
<1>10. CASE Release \/ \E p \in Pipelines : ReleaseNamed(p)
  BY <1>10 DEF Release, ReleaseNamed
<1>11. CASE UNCHANGED cache
  BY <1>11 DEF cache
<1>12. CASE \E p \in Pipelines : TimePasses(p)
  BY <1>12 DEF TimePasses
<1> QED
  BY <1>1, <1>2, <1>3, <1>4, <1>5, <1>6, <1>7, <1>8, <1>9, <1>10, <1>11, <1>12
  DEF CacheNext, Advance

\* The cache starts empty, without a request.
LEMMA InitIInv == CacheInit => CacheInv
<1> SUFFICES ASSUME CacheInit PROVE CacheInv
  OBVIOUS
<1>1. LeaseTypeOK /\ RequestIsWhole /\ OnlyTheRequestLeases /\ RoomForTheModel
  BY CacheAssumption DEF CacheInit, LeaseTypeOK, RequestIsWhole, OnlyTheRequestLeases,
     RoomForTheModel, Pcs
<1>2. ModelInUseStays /\ LeasesAreCounted
  BY DEF CacheInit, ModelInUseStays, Using, LeasesAreCounted
<1>3. HeavyModelsFit
  <2>1. loaded \cap Heavy = {}
    BY DEF CacheInit
  <2> QED BY <2>1, FS_EmptySet, CacheAssumption DEF HeavyModelsFit
<1> QED BY <1>1, <1>2, <1>3 DEF CacheInv

\* The invariant holds throughout, for any pipelines and any capacity.
THEOREM CacheInvariance == CacheSpec => []CacheInv
<1>1. CacheInv /\ [CacheNext]_cache => CacheInv'
  BY TypeStep, RequestStep, LeaseStep, RoomStep, InUseStep DEF CacheInv
<1> QED BY InitIInv, <1>1, PTL DEF CacheSpec

\* The device never has to hold more heavy models than it has room for.
THEOREM Capacity == CacheSpec => []HeavyModelsFit
BY CacheInvariance, PTL DEF CacheInv

\* The model a request leased stays until its inference is over, except in the second
\* attempt after a oneDNN error.
THEOREM InUseStays == CacheSpec => []ModelInUseStays
BY CacheInvariance, PTL DEF CacheInv

\* The lease counts are those of the request in progress.
THEOREM LeasesCounted == CacheSpec => []LeasesAreCounted
BY CacheInvariance, PTL DEF CacheInv

\* No eviction, release or fallback takes a pinned model.
THEOREM PinnedStay == CacheSpec => PinnedModelsStay
<1>1. ASSUME [CacheNext]_cache PROVE pinned \cap loaded \subseteq loaded'
  <2> USE DEF modelVars
  <2>1. CASE PrepareLoad
    BY <2>1 DEF PrepareLoad, Victims, Evictable, Evict, Drop
  <2>2. CASE Release \/ EvictIdle
    BY <2>2 DEF Release, EvictIdle, Due, Evictable, Evict, Drop
  <2>3. CASE Fallback \/ \E p \in Pipelines : ReleaseNamed(p)
    BY <2>3 DEF Fallback, ReleaseNamed, ReleaseOne, Evict, Drop
  <2>4. CASE \/ Hit \/ Create \/ CreateFails \/ Touch \/ Fetch \/ Inferred \/ PirError
             \/ End \/ ConfigureTtls
    BY <2>4 DEF Hit, Create, CreateFails, Touch, Fetch, Inferred, PirError, End,
       ConfigureTtls
  <2>5. CASE \/ UNCHANGED cache
             \/ \E p \in Pipelines : RecognizeMany(p) \/ PreloadPipeline(p) \/ TimePasses(p)
             \/ \E P, F \in SUBSET Pipelines : ConfigurePins(P, F)
    BY <2>5 DEF cache, RecognizeMany, PreloadPipeline, TimePasses, ConfigurePins
  <2> QED BY <1>1, <2>1, <2>2, <2>3, <2>4, <2>5 DEF CacheNext, Advance
<1>2. ASSUME [CacheNext]_cache PROVE [pinned \cap loaded \subseteq loaded']_cache
  BY <1>1, <1>2
<1> QED BY <1>2, PTL DEF CacheSpec, PinnedModelsStay

-----------------------------------------------------------------------------
(* The worker and the threads that call it.                                  *)

USE PaddleAssumption DEF Threads, adapter, service

WorkerType == [alive : BOOLEAN, hung : BOOLEAN, inbox : Seq(Requests), busy : Requests,
               holds : Snapshots \cup {Default}, sink : {0} \cup Workers]
CallType == [of : Kinds, op : Kinds, arg : Snapshots, restore : BOOLEAN, n : Nat]
Places == InExchange \cup {"idle", "lock", "returned", "raised", "gone"}

LEMMA Shapes ==
    /\ MaxWorkers \in Nat /\ Workers \subseteq Nat /\ 0 \notin Workers
    /\ NoRequest \in Requests /\ NotStarted \in WorkerType /\ Exited \in Lines
    /\ NoCall \in CallType
    /\ \A r \in Requests, ok \in BOOLEAN : Reply(r, ok) \in Lines
  <1>1. MaxWorkers \in Nat /\ Workers \subseteq Nat /\ 0 \notin Workers
    BY DEF Workers
  <1>2. NoRequest \in Requests
    BY DEF NoRequest, Requests, Kinds
  <1>3. NotStarted \in WorkerType
    BY <1>2 DEF NotStarted, WorkerType
  <1>4. NoCall \in CallType
    BY DEF NoCall, CallType, Kinds
  <1>5. Exited \in Lines /\ \A r \in Requests, ok \in BOOLEAN : Reply(r, ok) \in Lines
    BY <1>2 DEF Exited, Reply, Lines, NoRequest
  <1>6. QED
    BY <1>1, <1>2, <1>3, <1>4, <1>5

LEMMA RequestType ==
    ASSUME TypeOK, NEW t \in Threads
    PROVE  Request(t) \in Requests
  BY DEF TypeOK, Request, Requests, Kinds

\* What a worker's death leaves has the right type.
LEMMA DeadType ==
    ASSUME TypeOK, NEW p \in Workers
    PROVE  /\ Dead(p) \in WorkerType
           /\ worker[p].sink \in Workers => EndOf(p) \in [Workers -> Seq(Lines)]
  <1>1. Dead(p) \in WorkerType
    BY Shapes DEF TypeOK, Dead, NotStarted, WorkerType
  <1>2. ASSUME worker[p].sink \in Workers PROVE EndOf(p) \in [Workers -> Seq(Lines)]
    <2>1. queue[worker[p].sink] \in Seq(Lines) /\ Exited \in Lines
      BY <1>2, Shapes DEF TypeOK
    <2>2. Append(queue[worker[p].sink], Exited) \in Seq(Lines)
      BY <2>1
    <2>3. QED
      BY <1>2, <2>2 DEF TypeOK, EndOf
  <1>3. QED
    BY <1>1, <1>2

LEMMA InitInv ==
    ASSUME Init
    PROVE  IInv /\ SettingsAreSent
  <1>1. TypeOK
    <2>1. worker \in [Workers -> WorkerType] /\ queue \in [Workers -> Seq(Lines)]
      BY Shapes DEF Init
    <2>2. call \in [Threads -> CallType] /\ pc \in [Threads -> Places]
      BY Shapes DEF Init, Places
    <2>3. left \in [Threads -> Nat] /\ ran \in [Jobs -> Nat]
      BY DEF Init
    <2>4. QED
      BY <2>1, <2>2, <2>3 DEF Init, TypeOK, WorkerType, CallType, Places
  <1>2. LockIsHeld /\ OneProcess /\ PipeIsPaired /\ NotYetRun /\ SettingsAreSent
    BY DEF Init, LockIsHeld, OneProcess, PipeIsPaired, NotYetRun, SettingsAreSent,
           InExchange, NotStarted
  <1>3. QED
    BY <1>1, <1>2 DEF IInv

-----------------------------------------------------------------------------
(* Steps of a thread outside its exchange touch neither adapter nor worker.  *)

\* Thread t goes from one such place to another, with a call of its own.
Outside(t) ==
    /\ UNCHANGED <<adapter, worker, queue>>
    /\ pc[t] \in {"idle", "lock", "returned", "raised"}
    /\ \E place \in {"idle", "lock", "returned", "raised"} : pc' = [pc EXCEPT ![t] = place]
    /\ \E c \in CallType : call' = [call EXCEPT ![t] = c]
    /\ stage' = stage
    /\ \A j \in Jobs : ran'[j] = IF j = t /\ pc'[t] = "lock" THEN 0 ELSE ran[j]
    /\ ran' \in [Jobs -> Nat] /\ left' \in [Threads -> Nat] /\ faults' = faults
    /\ mlock' \in {Free, Loop} /\ preloads' \in Int

LEMMA OutsideKeepsIInv ==
    ASSUME IInv, NEW t \in Threads, Outside(t)
    PROVE  IInv' /\ (SettingsAreSent => SettingsAreSent')
  <1>1. TypeOK /\ LockIsHeld /\ OneProcess /\ PipeIsPaired /\ NotYetRun
    BY DEF IInv
  <1>2. TypeOK'
    <2>1. call' \in [Threads -> CallType]
      BY <1>1, ZenonT(60) DEF TypeOK, Outside, CallType
    <2>2. pc' \in [Threads -> Places]
      BY <1>1 DEF TypeOK, Outside, Places
    <2>3. QED
      BY <1>1, <2>1, <2>2 DEF TypeOK, Outside, CallType, Places
  <1>3. /\ UNCHANGED <<lock, process, responses, settings, worker, queue, stage>>
        /\ \A u \in Threads \ {t} : pc'[u] = pc[u] /\ call'[u] = call[u]
        /\ pc'[t] \notin InExchange \cup {"gone"} /\ pc[t] \notin InExchange \cup {"gone"}
    BY <1>1 DEF Outside, InExchange, TypeOK
  <1>4. lock # t /\ lock \in Threads \cup {Free}
    BY <1>1, <1>3 DEF LockIsHeld, TypeOK
  <1>5. LockIsHeld'
    BY <1>1, <1>3, <1>4 DEF LockIsHeld
  <1>6. OneProcess'
    BY <1>1, <1>3 DEF OneProcess, InExchange
  <1>7. lock # Free => pc'[lock] = pc[lock] /\ Request(lock)' = Request(lock)
    BY <1>3, <1>4 DEF Request
  <1>8. PipeIsPaired'
    BY <1>1, <1>3, <1>7 DEF PipeIsPaired, Quiet, Exchanging
  <1>9. NotYetRun'
    BY <1>1, <1>3 DEF NotYetRun, Outside, InExchange
  <1>10. ASSUME SettingsAreSent PROVE SettingsAreSent'
    BY <1>3, <1>7, <1>10 DEF SettingsAreSent
  <1>11. QED
    BY <1>2, <1>5, <1>6, <1>8, <1>9, <1>10 DEF IInv

\* All of these steps are of that kind.
LEMMA CallingIsOutside ==
    ASSUME IInv, Calling
    PROVE  \E t \in Threads : Outside(t)
  <1>1. TypeOK /\ NotYetRun
    BY DEF IInv
  <1>2. ASSUME NEW t \in Threads, NEW op \in Kinds, NEW arg \in Snapshots,
               NEW place \in {"idle", "lock"}, Begin(t, op, arg, place),
               \A j \in Jobs : ran'[j] = IF j = t THEN 0 ELSE ran[j], ran' \in [Jobs -> Nat],
               t \in Jobs => place = "lock",
               mlock' \in {Free, Loop}, preloads' \in Int
        PROVE  Outside(t)
    <2>1. left[t] \in Nat
      BY <1>1 DEF TypeOK
    <2>2. [of |-> op, op |-> op, arg |-> arg, restore |-> FALSE, n |-> left[t]] \in CallType
      BY <2>1 DEF CallType
    <2>3. left' \in [Threads -> Nat] /\ pc'[t] = place
      <3>1. left \in [Threads -> Nat] /\ pc \in [Threads -> InExchange \cup
                {"idle", "lock", "returned", "raised", "gone"}]
        BY <1>1 DEF TypeOK
      <3>2. left' = [left EXCEPT ![t] = @ - 1] /\ pc' = [pc EXCEPT ![t] = place]
            /\ left[t] > 0
        BY <1>2 DEF Begin, Goto
      <3>3. left[t] - 1 \in Nat
        BY <2>1, <3>2
      <3> QED BY <3>1, <3>2, <3>3
    <2>4. QED
      BY <1>2, <2>2, <2>3 DEF Begin, Outside, Goto
  <1>3. Initial \in Snapshots /\ preloads + 1 \in Int /\ mlock \in {Free, Loop} /\ preloads \in Int
    BY <1>1 DEF TypeOK
  <1>4. ASSUME NEW t \in Jobs, Recognize(t) PROVE Outside(t)
    BY <1>1, <1>2, <1>3, <1>4 DEF Recognize, TypeOK, Kinds
  <1>5. ASSUME NEW t \in Pools, Preload(t) PROVE Outside(t)
    BY <1>1, <1>2, <1>3, <1>5 DEF Preload, TypeOK, Kinds
  <1>6. CASE Residency
    BY <1>1, <1>2, <1>3, <1>6 DEF Residency, TypeOK, Kinds
  <1>7. CASE ReleaseIdle
    BY <1>1, <1>2, <1>3, <1>7 DEF ReleaseIdle, TypeOK, Kinds
  <1>8. ASSUME NEW s \in Snapshots, PutSettings(s) PROVE Outside(Loop)
    BY <1>1, <1>2, <1>3, <1>8 DEF PutSettings, TypeOK, Kinds
  <1>9. QED
    BY <1>4, <1>5, <1>6, <1>7, <1>8 DEF Calling

LEMMA ReturningIsOutside ==
    ASSUME IInv, NEW t \in Threads, GiveUp(t) \/ Ending(t)
    PROVE  Outside(t)
  <1>1. TypeOK
    BY DEF IInv
  <1>2. call[t] \in CallType /\ NoCall \in CallType
    BY <1>1, Shapes DEF TypeOK, CallType
  <1>3. /\ ran \in [Jobs -> Nat] /\ left \in [Threads -> Nat] /\ mlock \in {Free, Loop}
        /\ preloads \in Int /\ preloads - 1 \in Int
    BY <1>1, SMTT(30) DEF TypeOK
  <1>4. ASSUME UNCHANGED <<stage, adapter, worker, queue, left, faults, ran>>,
               pc[t] \in {"lock", "returned", "raised"},
               NEW place \in {"idle", "lock", "returned"}, Goto(t, place),
               t \in Jobs => place # "lock",
               NEW c \in CallType, call' = [call EXCEPT ![t] = c],
               mlock' \in {Free, Loop}, preloads' \in Int
        PROVE  Outside(t)
    BY <1>1, <1>3, <1>4 DEF Outside, Goto, TypeOK
  <1>5. ASSUME NEW c, c = [call[t] EXCEPT !.op = "status"] PROVE c \in CallType
    BY <1>2, <1>5 DEF CallType, Kinds
  <1>6. CASE GiveUp(t)
    <2>1. call' = [call EXCEPT ![t] = call[t]]
      BY <1>1, <1>6 DEF GiveUp, TypeOK
    <2>2. QED
      BY <1>2, <1>3, <1>4, <1>6, <2>1 DEF GiveUp
  <1>7. CASE t \in Jobs /\ RecognizeEnds(t)
    BY <1>2, <1>3, <1>4, <1>7 DEF RecognizeEnds, Idle, Back
  <1>8. ASSUME t \notin Jobs, Poll(t), UNCHANGED <<stage, adapter, worker, queue, left, faults, ran>>,
               pc[t] \in {"returned", "raised"}, mlock' \in {Free, Loop}, preloads' \in Int
        PROVE  Outside(t)
    <2>1. call' = [call EXCEPT ![t] = [call[t] EXCEPT !.op = "status"]]
      BY <1>8 DEF Poll
    <2>2. QED
      BY <1>4, <1>5, <1>8, <2>1 DEF Poll
  <1>9. CASE t \in Pools /\ PreloadNext(t)
    <2>1. t \notin Jobs /\ pc[t] \in {"returned", "raised"}
      BY <1>9 DEF PreloadNext, Back
    <2>2. CASE Poll(t)
      BY <1>3, <1>8, <1>9, <2>1, <2>2 DEF PreloadNext
    <2>3. CASE ~Poll(t)
      <3>1. /\ call' = [call EXCEPT ![t].op = "preload", ![t].n = @ + 1]
            /\ Goto(t, "lock")
            /\ UNCHANGED <<stage, mlock, preloads, adapter, worker, queue, left, faults, ran>>
        BY <1>9, <2>3 DEF PreloadNext
      <3> DEFINE c == [of |-> call[t].of, op |-> "preload", arg |-> call[t].arg,
                       restore |-> call[t].restore, n |-> call[t].n + 1]
      <3>a. c \in CallType
        BY <1>2 DEF CallType, Kinds
      <3>b. call \in [Threads -> CallType]
        BY <1>1 DEF TypeOK, CallType
      <3>c. call' \in [Threads -> CallType] /\ \A u \in Threads : call'[u] = IF u = t THEN c ELSE call[u]
        BY <1>2, <3>1, <3>b DEF CallType, Kinds
      <3>2. call' = [call EXCEPT ![t] = c] /\ c \in CallType
        BY <3>a, <3>b, <3>c
      <3> HIDE DEF c
      <3>3. QED
        BY <1>3, <1>4, <2>1, <3>1, <3>2
    <2>4. QED
      BY <2>2, <2>3
  <1>10. CASE t \in Pools /\ PreloadEnds(t)
    BY <1>2, <1>3, <1>4, <1>10 DEF PreloadEnds, Idle, Back
  <1>11. CASE t = Loop /\ StatusEnds
    BY <1>2, <1>3, <1>4, <1>11 DEF StatusEnds, Idle, Back
  <1>12. CASE t = Loop /\ ReleaseEnds
    BY <1>3, <1>8, <1>12 DEF ReleaseEnds, Back
  <1>13. CASE t = Loop /\ SettingsEnd
    <2>1. CASE call[Loop].op = "settings" /\ pc[Loop] = "returned"
      BY <1>3, <1>8, <1>13, <2>1 DEF SettingsEnd, Back
    <2>2. CASE ~(call[Loop].op = "settings" /\ pc[Loop] = "returned")
      BY <1>2, <1>3, <1>4, <1>13, <2>2 DEF SettingsEnd, Idle, Back
    <2>3. QED
      BY <2>1, <2>2
  <1>14. QED
    BY <1>6, <1>7, <1>9, <1>10, <1>11, <1>12, <1>13 DEF Ending

-----------------------------------------------------------------------------
(* The shutdown.                                                             *)

LEMMA ShutdownKeepsIInv ==
    ASSUME IInv, Drain \/ CloseExecutor \/ Closed \/ Exit
    PROVE  IInv' /\ (SettingsAreSent => SettingsAreSent')
  <1>1. TypeOK /\ LockIsHeld /\ OneProcess /\ PipeIsPaired /\ NotYetRun
    BY DEF IInv
  <1>2. CASE Drain \/ Closed
    <2>1. /\ UNCHANGED <<mlock, preloads, adapter, worker, queue, pc, call, left, faults, ran>>
          /\ stage # "exited" /\ stage' \in {"draining", "closed"}
      BY <1>2 DEF Drain, Closed, Serving
    <2>2. TypeOK' /\ LockIsHeld' /\ NotYetRun'
      BY <1>1, <2>1 DEF TypeOK, LockIsHeld, NotYetRun
    <2>3. OneProcess' /\ (SettingsAreSent => SettingsAreSent')
      BY <1>1, <2>1 DEF OneProcess, SettingsAreSent, Request
    <2>4. PipeIsPaired'
      BY <1>1, <2>1 DEF PipeIsPaired, Quiet, Exchanging, Request
    <2>5. QED
      BY <2>2, <2>3, <2>4 DEF IInv
  <1>3. CASE CloseExecutor
    <2> DEFINE c == [NoCall EXCEPT !.of = "close", !.op = "close"]
    <2>1. c \in CallType
      BY Shapes DEF CallType, Kinds, NoCall
    <2>2. call' = [call EXCEPT ![Loop] = c]
      BY <1>3 DEF CloseExecutor
    <2> HIDE DEF c
    <2>3. Outside(Loop)
      BY <1>1, <1>3, <2>1, <2>2 DEF CloseExecutor, Outside, Goto, TypeOK
    <2>4. QED
      BY <2>3, OutsideKeepsIInv
  <1>4. CASE Exit
    <2>1. /\ stage' = "exited" /\ pc' = [t \in Threads |-> "gone"]
          /\ worker' = [p \in Workers |-> Dead(p)]
          /\ UNCHANGED <<mlock, preloads, adapter, queue, call, left, faults, ran>>
      BY <1>4 DEF Exit
    <2>2. \A p \in Workers : /\ Dead(p) \in WorkerType /\ ~Dead(p).alive
                             /\ Dead(p).inbox = <<>> /\ Dead(p).busy = NoRequest
                             /\ Dead(p).sink = worker[p].sink
      BY <1>1, DeadType DEF Dead, NotStarted
    <2>3. TypeOK'
      BY <1>1, <2>1, <2>2 DEF TypeOK, WorkerType, Places
    <2>4. LockIsHeld' /\ PipeIsPaired'
      BY <1>1, <2>1 DEF LockIsHeld, PipeIsPaired, InExchange, TypeOK
    <2>5. OneProcess'
      BY <1>1, <2>1, <2>2 DEF OneProcess, TypeOK
    <2>6. NotYetRun'
      BY <1>1, <2>1 DEF NotYetRun
    <2>7. SettingsAreSent'
      BY <1>1, <2>1, <2>2 DEF SettingsAreSent, TypeOK
    <2>8. QED
      BY <2>3, <2>4, <2>5, <2>6, <2>7 DEF IInv
  <1>5. QED
    BY <1>2, <1>3, <1>4

-----------------------------------------------------------------------------
(* Acquiring the lock, and the steps of the thread that has it.              *)

LEMMA Holder ==
    ASSUME IInv, NEW t \in Threads, pc[t] \in InExchange
    PROVE  /\ lock = t /\ t # Free /\ stage # "exited"
           /\ \A u \in Threads \ {t} : pc[u] \notin InExchange
           /\ \A u \in Threads : pc[u] # "gone"
  BY DEF IInv, LockIsHeld, OneProcess, InExchange

LEMMA AcquireKeepsIInv ==
    ASSUME IInv, NEW t \in Threads, Acquire(t)
    PROVE  IInv' /\ (SettingsAreSent => SettingsAreSent')
  <1>1. TypeOK /\ LockIsHeld /\ OneProcess /\ PipeIsPaired /\ NotYetRun
    BY DEF IInv
  <1>2. /\ pc[t] = "lock" /\ lock = Free /\ call[t].arg \in Snapshots
        /\ settings' = IF call[t].op = "settings" THEN call[t].arg ELSE settings
        /\ UNCHANGED <<service, process, responses, worker, queue, call, left, faults, ran>>
    BY <1>1 DEF Acquire, TypeOK
  <1>3. settings' \in Snapshots
    BY <1>1, <1>2 DEF TypeOK
  <1>4. t # Free /\ \A u \in Threads : pc[u] \notin InExchange \cup {"gone"}
    BY <1>1, <1>2 DEF LockIsHeld, OneProcess
  <1>5. CASE process = 0 /\ ~NeedsWorker(t)
    <2>1. lock' = Free /\ pc' = [pc EXCEPT ![t] = "returned"]
      BY <1>5 DEF Acquire, Leave, Goto
    <2>2. TypeOK'
      BY <1>1, <1>2, <1>3, <2>1 DEF TypeOK
    <2>3. LockIsHeld' /\ OneProcess'
      BY <1>1, <1>2, <1>4, <2>1 DEF LockIsHeld, OneProcess, InExchange, TypeOK
    <2>4. PipeIsPaired' /\ SettingsAreSent'
      BY <1>2, <1>5 DEF PipeIsPaired, SettingsAreSent
    <2>5. NotYetRun'
      BY <1>1, <1>2, <2>1 DEF NotYetRun, TypeOK
    <2>6. QED
      BY <2>2, <2>3, <2>4, <2>5 DEF IInv
  <1>6. CASE ~(process = 0 /\ ~NeedsWorker(t))
    <2>1. /\ lock' = t
          /\ pc' = [pc EXCEPT ![t] = IF NeedsWorker(t) THEN "start"
                                     ELSE IF call[t].op = "close" THEN "stop" ELSE "write"]
      BY <1>6 DEF Acquire, Goto
    <2>2. /\ pc'[t] \in {"start", "stop", "write"}
          /\ pc'[t] \in {"stop", "write"} => process # 0
          /\ \A u \in Threads \ {t} : pc'[u] = pc[u]
          /\ pc' \in [Threads -> Places]
      BY <1>1, <1>6, <2>1 DEF TypeOK, Places, InExchange
    <2>3. TypeOK'
      BY <1>1, <1>2, <1>3, <2>1, <2>2 DEF TypeOK, Places
    <2>4. LockIsHeld' /\ OneProcess'
      BY <1>1, <1>2, <1>4, <2>1, <2>2 DEF LockIsHeld, OneProcess, InExchange
    <2>5. process # 0 => Quiet
      BY <1>1, <1>2, <1>4 DEF PipeIsPaired, OneProcess
    <2>6. PipeIsPaired'
      BY <1>2, <1>4, <2>1, <2>2, <2>5 DEF PipeIsPaired, Quiet
    <2>7. NotYetRun'
      BY <1>1, <1>2, <2>2, <2>5 DEF NotYetRun, Quiet
    <2>8. ASSUME SettingsAreSent PROVE SettingsAreSent'
      <3>1. CASE call[t].op = "settings"
        <4>1. pc'[t] = "write" /\ Request(t)'.op = "settings"
          BY <1>1, <1>2, <2>1, <3>1 DEF NeedsWorker, Request, TypeOK
        <4>2. QED
          BY <1>4, <2>1, <4>1 DEF SettingsAreSent
      <3>2. CASE call[t].op # "settings"
        BY <1>2, <2>8, <3>2 DEF SettingsAreSent
      <3>3. QED
        BY <3>1, <3>2
    <2>9. QED
      BY <2>3, <2>4, <2>6, <2>7, <2>8 DEF IInv
  <1>7. QED
    BY <1>5, <1>6

\* A step of the holder t that leaves the worker alone and ends its exchange.
LEMMA LeaveKeepsIInv ==
    ASSUME IInv, NEW t \in Threads, pc[t] \in InExchange,
           NEW place \in {"returned", "raised"}, Leave(t, place),
           process' = 0 \/ (process' = process /\ Quiet'),
           call' \in [Threads -> CallType],
           \A u \in Threads \ {t} : call'[u] = call[u],
           queue' \in [Workers -> Seq(Lines)],
           \A p \in Workers : worker[p].sink = 0 => queue'[p] = queue[p],
           worker' \in [Workers -> WorkerType],
           \A p \in Workers :
             /\ worker'[p].sink = worker[p].sink
             /\ worker'[p].alive => worker[p].alive /\ p = process'
             /\ ~worker'[p].alive => worker'[p].inbox = <<>> /\ worker'[p].busy = NoRequest,
           UNCHANGED <<service, responses, settings, left, faults, ran>>
    PROVE  IInv'
  <1>1. TypeOK /\ LockIsHeld /\ OneProcess /\ PipeIsPaired /\ NotYetRun
    BY DEF IInv
  <1>2. /\ lock = t /\ t # Free /\ stage # "exited"
        /\ \A u \in Threads \ {t} : pc[u] \notin InExchange
        /\ \A u \in Threads : pc[u] # "gone"
    BY Holder
  <1>3. lock' = Free /\ pc' = [pc EXCEPT ![t] = place] /\ pc' \in [Threads -> Places]
    BY <1>1 DEF Leave, Goto, TypeOK, Places
  <1>4. TypeOK'
    BY <1>1, <1>3 DEF TypeOK, WorkerType, CallType, Places
  <1>5. LockIsHeld'
    BY <1>1, <1>2, <1>3 DEF LockIsHeld, TypeOK, InExchange
  <1>6. OneProcess'
    BY <1>1, <1>2, <1>3, ZenonT(60) DEF OneProcess, TypeOK, InExchange
  <1>7. PipeIsPaired'
    BY <1>3 DEF PipeIsPaired
  <1>8. NotYetRun'
    BY <1>1, <1>2, <1>3 DEF NotYetRun, TypeOK, InExchange
  <1>9. QED
    BY <1>4, <1>5, <1>6, <1>7, <1>8 DEF IInv

LEMMA StartKeepsIInv ==
    ASSUME IInv, NEW t \in Threads, StartIsDone(t) \/ StartWorker(t) \/ StartFails(t)
    PROVE  IInv' /\ (SettingsAreSent => SettingsAreSent')
  <1>1. TypeOK /\ LockIsHeld /\ OneProcess /\ PipeIsPaired /\ NotYetRun
    BY DEF IInv
  <1>2. pc[t] = "start" /\ pc[t] \in InExchange
    BY DEF StartIsDone, StartWorker, StartFails, InExchange
  <1>3. /\ lock = t /\ t # Free /\ stage # "exited"
        /\ \A u \in Threads \ {t} : pc[u] \notin InExchange
        /\ \A u \in Threads : pc[u] # "gone"
    BY <1>2, Holder
  <1>4. CASE StartIsDone(t)
    <2>1. /\ UNCHANGED <<service, adapter, worker, queue, call, left, faults, ran>>
          /\ pc' = [pc EXCEPT ![t] = "write"] /\ process # 0
      BY <1>4 DEF StartIsDone, Goto, Alive
    <2>2. TypeOK'
      BY <1>1, <2>1 DEF TypeOK, InExchange
    <2>3. LockIsHeld' /\ OneProcess' /\ NotYetRun'
      BY <1>1, <1>2, <1>3, <2>1 DEF LockIsHeld, OneProcess, NotYetRun, InExchange, TypeOK
    <2>4. PipeIsPaired'
      BY <1>1, <1>2, <1>3, <2>1 DEF PipeIsPaired, Quiet, TypeOK
    <2>5. ASSUME SettingsAreSent PROVE SettingsAreSent'
      BY <1>1, <1>2, <1>3, <2>1, <2>5 DEF SettingsAreSent, TypeOK
    <2>6. QED
      BY <2>2, <2>3, <2>4, <2>5 DEF IInv
  <1>5. CASE StartWorker(t)
    <2>1. PICK p \in Workers \ Started :
            /\ process' = p /\ responses' = p
            /\ queue' = [q \in Workers |-> IF q = p THEN queue[q] ELSE <<>>]
            /\ worker' = [worker EXCEPT ![p] = [NotStarted EXCEPT !.alive = TRUE, !.sink = p]]
      BY <1>5 DEF StartWorker, NewQueue
    <2>2. /\ call' = [call EXCEPT ![t].restore = TRUE]
          /\ pc' = [pc EXCEPT ![t] = "write"]
          /\ UNCHANGED <<service, lock, settings, left, faults, ran>>
          /\ ~Alive(process)
      BY <1>5 DEF StartWorker, Goto, Restoring
    <2> DEFINE new == [NotStarted EXCEPT !.alive = TRUE, !.sink = p]
    <2>3. /\ new \in WorkerType /\ new.alive /\ new.sink = p /\ new.inbox = <<>>
          /\ new.busy = NoRequest /\ new.holds = Default
      BY Shapes DEF NotStarted, WorkerType
    <2>4. worker' = [worker EXCEPT ![p] = new]
      BY <2>1
    <2> HIDE DEF new
    <2>5. worker \in [Workers -> WorkerType] /\ call \in [Threads -> CallType]
      BY <1>1 DEF TypeOK, WorkerType, CallType
    <2>6. /\ worker' \in [Workers -> WorkerType] /\ worker'[p] = new
          /\ \A q \in Workers \ {p} : worker'[q] = worker[q]
      BY <2>3, <2>4, <2>5
    <2>7. call' \in [Threads -> CallType] /\ call'[t].restore
      BY <2>2, <2>5, ZenonT(60) DEF CallType
    <2>8. queue' \in [Workers -> Seq(Lines)] /\ queue'[p] = queue[p]
      BY <1>1, <2>1 DEF TypeOK
    <2>9. worker[p].sink = 0 /\ queue[p] = <<>>
      BY <1>1, <2>1, Shapes DEF Started, OneProcess
    <2>10. TypeOK'
      BY <1>1, <2>1, <2>2, <2>6, <2>7, <2>8 DEF TypeOK, WorkerType, CallType, InExchange
    <2>11. LockIsHeld'
      BY <1>1, <1>2, <1>3, <2>2 DEF LockIsHeld, InExchange, TypeOK
    <2>12. \A q \in Workers : ~worker[q].alive
      BY <1>1, <2>2, Shapes DEF OneProcess, Alive
    <2>13. p # 0 /\ queue'[p] = <<>> /\ \A q \in Workers \ {p} : queue'[q] = <<>>
      BY <2>1, <2>8, <2>9, Shapes
    <2>14. OneProcess'
      BY <1>1, <1>3, <2>1, <2>2, <2>3, <2>6, <2>12, <2>13 DEF OneProcess, TypeOK
    <2>a. pc'[t] = "write" /\ \A u \in Threads \ {t} : pc'[u] = pc[u]
      BY <1>1, <2>2 DEF TypeOK
    <2>b. lock' = t /\ Quiet'
      BY <1>3, <2>1, <2>2, <2>3, <2>6, <2>13, ZenonT(60) DEF Quiet
    <2>15. PipeIsPaired'
      BY <1>3, <2>a, <2>b DEF PipeIsPaired
    <2>c. \A u \in Threads : pc'[u] \notin {"wait", "stop"}
      BY <1>3, <2>a DEF InExchange
    <2>16. NotYetRun'
      BY <1>1, <1>2, <2>2, <2>a, <2>c DEF NotYetRun
    <2>17. SettingsAreSent'
      BY <1>1, <1>3, <2>2, <2>7 DEF SettingsAreSent, Request, TypeOK
    <2>18. QED
      BY <2>10, <2>11, <2>14, <2>15, <2>16, <2>17 DEF IInv
  <1>6. CASE StartFails(t)
    <2>1. /\ process' = 0 /\ Leave(t, "raised")
          /\ UNCHANGED <<service, responses, settings, worker, queue, call, left, faults, ran>>
          /\ ~Alive(process)
      BY <1>6 DEF StartFails
    <2>2. \A q \in Workers : ~worker[q].alive
      BY <1>1, <2>1, Shapes DEF OneProcess, Alive
    <2>3. /\ worker \in [Workers -> WorkerType] /\ call \in [Threads -> CallType]
          /\ queue \in [Workers -> Seq(Lines)]
          /\ \A q \in Workers : worker[q].inbox = <<>> /\ worker[q].busy = NoRequest
      BY <1>1, <2>2 DEF TypeOK, WorkerType, CallType, OneProcess
    <2>4. IInv'
      BY <1>2, <2>1, <2>2, <2>3, LeaveKeepsIInv
    <2>5. SettingsAreSent'
      BY <2>1 DEF SettingsAreSent
    <2>6. QED
      BY <2>4, <2>5
  <1>7. QED
    BY <1>4, <1>5, <1>6

\* What stopping the worker leaves.
LEMMA StopLeaves ==
    ASSUME IInv, Stop, process # 0
    PROVE  /\ process' = 0
           /\ worker' \in [Workers -> WorkerType] /\ queue' \in [Workers -> Seq(Lines)]
           /\ \A p \in Workers :
                /\ worker'[p].sink = worker[p].sink /\ ~worker'[p].alive
                /\ worker'[p].inbox = <<>> /\ worker'[p].busy = NoRequest
                /\ worker[p].sink = 0 => queue'[p] = queue[p]
  <1>1. TypeOK /\ OneProcess
    BY DEF IInv
  <1>2. /\ worker \in [Workers -> WorkerType] /\ queue \in [Workers -> Seq(Lines)]
        /\ process \in Workers /\ worker[process].sink = process
    BY <1>1 DEF TypeOK, OneProcess, WorkerType
  <1>3. CASE Alive(process)
    <2>1. worker' = [worker EXCEPT ![process] = Dead(process)] /\ queue' = EndOf(process)
      BY <1>3 DEF Stop
    <2>2. /\ Dead(process) \in WorkerType /\ ~Dead(process).alive
          /\ Dead(process).inbox = <<>> /\ Dead(process).busy = NoRequest
          /\ Dead(process).sink = process
      BY <1>1, <1>2, DeadType DEF Dead, NotStarted
    <2>3. queue' \in [Workers -> Seq(Lines)] /\ \A p \in Workers \ {process} : queue'[p] = queue[p]
      BY <1>1, <1>2, <2>1, DeadType DEF EndOf
    <2>4. \A p \in Workers \ {process} : worker'[p] = worker[p] /\ ~worker[p].alive
      BY <1>1, <1>2, <2>1 DEF OneProcess
    <2>5. worker' \in [Workers -> WorkerType] /\ worker'[process] = Dead(process)
      BY <1>2, <2>1, <2>2
    <2>6. QED
      BY <1>1, <1>2, <2>2, <2>3, <2>4, <2>5, Shapes, SMTT(30) DEF Stop, OneProcess
  <1>4. CASE ~Alive(process)
    BY <1>1, <1>2, <1>4 DEF Stop, Alive, OneProcess
  <1>5. QED
    BY <1>3, <1>4

LEMMA WriteKeepsIInv ==
    ASSUME IInv, NEW t \in Threads, Write(t) \/ WriteBlocks(t) \/ WriteFails(t)
    PROVE  IInv' /\ (SettingsAreSent => SettingsAreSent')
  <1>1. TypeOK /\ LockIsHeld /\ OneProcess /\ PipeIsPaired /\ NotYetRun
    BY DEF IInv
  <1>2. /\ pc[t] \in {"write", "blocked"} /\ pc[t] \in InExchange
        /\ Write(t) \/ WriteBlocks(t) => pc[t] = "write"
    BY DEF Write, WriteBlocks, WriteFails, InExchange
  <1>3. /\ lock = t /\ t # Free /\ stage # "exited"
        /\ \A u \in Threads \ {t} : pc[u] \notin InExchange
        /\ \A u \in Threads : pc[u] # "gone"
    BY <1>2, Holder
  <1>4. process \in Workers /\ process # 0
    BY <1>1, <1>2 DEF OneProcess, TypeOK
  <1>5. Quiet
    BY <1>1, <1>2, <1>3, <1>4 DEF PipeIsPaired
  <1>6. /\ worker \in [Workers -> WorkerType] /\ queue \in [Workers -> Seq(Lines)]
        /\ call \in [Threads -> CallType]
    BY <1>1 DEF TypeOK, WorkerType, CallType
  <1>7. CASE Write(t)
    <2>1. PICK r \in Requests : r = Request(t)
      BY <1>1, RequestType
    <2>2. /\ UNCHANGED <<service, adapter, queue, call, left, faults, ran>>
          /\ pc' = [pc EXCEPT ![t] = "wait"] /\ worker[process].alive
          /\ worker' = [worker EXCEPT ![process].inbox = Append(@, r)]
      BY <1>7, <2>1 DEF Write, Goto, Alive
    <2>3. Append(worker[process].inbox, r) = <<r>> /\ <<r>> \in Seq(Requests)
      BY <1>5, <2>1 DEF Quiet
    <2>4. /\ worker' \in [Workers -> WorkerType]
          /\ worker'[process] = [worker[process] EXCEPT !.inbox = <<r>>]
          /\ \A p \in Workers \ {process} : worker'[p] = worker[p]
      BY <1>4, <1>6, <2>2, <2>3, ZenonT(60) DEF WorkerType
    <2>5. /\ worker'[process].inbox = <<r>> /\ worker'[process].busy = worker[process].busy
          /\ worker'[process].alive = worker[process].alive
          /\ worker'[process].sink = worker[process].sink
          /\ worker'[process].holds = worker[process].holds
      BY <1>4, <1>6, <2>4 DEF WorkerType
    <2>6. Request(t)' = r
      BY <2>1, <2>2 DEF Request
    <2>7. TypeOK'
      BY <1>1, <2>2, <2>4 DEF TypeOK, WorkerType, InExchange
    <2>8. LockIsHeld'
      BY <1>1, <1>2, <1>3, <2>2 DEF LockIsHeld, InExchange, TypeOK
    <2>9. OneProcess'
      BY <1>1, <1>3, <1>4, <2>2, <2>4, <2>5, SMTT(30) DEF OneProcess, TypeOK
    <2>10. PipeIsPaired'
      <3>1. Exchanging(r)'
        BY <1>5, <2>2, <2>5 DEF Exchanging, Quiet
      <3>2. QED
        BY <1>1, <1>3, <2>2, <2>6, <3>1 DEF PipeIsPaired, TypeOK, Exchanging
    <2>11. NotYetRun'
      BY <1>1, <1>2, <1>3, <2>2, <2>5 DEF NotYetRun, TypeOK, InExchange
    <2>12. ASSUME SettingsAreSent PROVE SettingsAreSent'
      BY <1>1, <1>2, <1>3, <1>5, <2>1, <2>2, <2>5, <2>6, <2>12 DEF SettingsAreSent, TypeOK, Quiet
    <2>13. QED
      BY <2>7, <2>8, <2>9, <2>10, <2>11, <2>12 DEF IInv
  <1>8. CASE WriteFails(t)
    <2>1. /\ Stop /\ Leave(t, "raised")
          /\ UNCHANGED <<service, responses, settings, call, left, faults, ran>>
      BY <1>8 DEF WriteFails
    <2>2. IInv'
      BY <1>2, <1>4, <1>6, <2>1, StopLeaves, LeaveKeepsIInv
    <2>3. SettingsAreSent'
      BY <2>1 DEF SettingsAreSent, Stop
    <2>4. QED
      BY <2>2, <2>3
  <1>9. CASE WriteBlocks(t)
    <2>1. /\ UNCHANGED <<service, adapter, worker, queue, call, left, faults, ran>>
          /\ pc' = [pc EXCEPT ![t] = "blocked"] /\ pc[t] = "write" /\ Large(t)
      BY <1>2, <1>9 DEF WriteBlocks, Goto
    <2>2. Request(t)' = Request(t) /\ Request(t).op # "settings"
      BY <2>1 DEF Request, Large
    <2>3. TypeOK'
      BY <1>1, <2>1 DEF TypeOK, InExchange
    <2>4. LockIsHeld'
      BY <1>1, <1>2, <1>3, <2>1 DEF LockIsHeld, InExchange, TypeOK
    <2>5. OneProcess'
      BY <1>1, <1>3, <1>4, <2>1, SMTT(30) DEF OneProcess, TypeOK
    <2>6. PipeIsPaired'
      BY <1>1, <1>3, <1>5, <2>1 DEF PipeIsPaired, Quiet, TypeOK
    <2>7. NotYetRun'
      BY <1>1, <1>3, <2>1 DEF NotYetRun, TypeOK
    <2>8. SettingsAreSent => SettingsAreSent'
      BY <1>1, <1>3, <2>1, <2>2 DEF SettingsAreSent, TypeOK
    <2>9. QED
      BY <2>3, <2>4, <2>5, <2>6, <2>7, <2>8 DEF IInv
  <1>10. QED
    BY <1>7, <1>8, <1>9

\* In an exchange, what the first line in the queue can be.
LEMMA LineIsOwn ==
    ASSUME IInv, NEW t \in Threads, Waiting(t)
    PROVE  /\ process \in Workers /\ responses = process /\ lock = t
           /\ worker[process].inbox = <<>> /\ worker[process].busy = NoRequest
           /\ \/ /\ worker[process].alive
                 /\ \E ok \in BOOLEAN : queue[process] = <<Reply(Request(t), ok)>>
              \/ /\ ~worker[process].alive
                 /\ \/ queue[process] = <<Exited>>
                    \/ \E ok \in BOOLEAN : queue[process] = <<Reply(Request(t), ok), Exited>>
  <1>1. TypeOK /\ OneProcess /\ PipeIsPaired
    BY DEF IInv
  <1>2. pc[t] = "wait" /\ pc[t] \in InExchange /\ queue[responses] # <<>>
    BY DEF Waiting, InExchange
  <1>3. lock = t /\ t # Free /\ stage # "exited"
    BY <1>2, Holder
  <1>4. process \in Workers /\ process # 0 /\ responses = process
    BY <1>1, <1>2 DEF OneProcess, TypeOK
  <1>5. Exchanging(Request(t))
    BY <1>1, <1>2, <1>3, <1>4 DEF PipeIsPaired
  <1>6. ~worker[process].alive => worker[process].inbox = <<>> /\ worker[process].busy = NoRequest
    BY <1>1, <1>4 DEF OneProcess
  <1>7. QED
    BY <1>2, <1>3, <1>4, <1>5, <1>6 DEF Exchanging

LEMMA ReceiveKeepsIInv ==
    ASSUME IInv, NEW t \in Threads, Restored(t) \/ Receive(t) \/ ReceiveExit(t)
    PROVE  IInv' /\ (SettingsAreSent => SettingsAreSent')
  <1>1. TypeOK /\ LockIsHeld /\ OneProcess /\ PipeIsPaired /\ NotYetRun
    BY DEF IInv
  <1>2. Waiting(t) /\ pc[t] = "wait" /\ pc[t] \in InExchange
    BY DEF Restored, Receive, ReceiveExit, Waiting, InExchange
  <1>3. /\ lock = t /\ t # Free /\ stage # "exited"
        /\ \A u \in Threads \ {t} : pc[u] \notin InExchange
        /\ \A u \in Threads : pc[u] # "gone"
    BY <1>2, Holder
  <1>4. /\ process \in Workers /\ process # 0 /\ responses = process
        /\ worker[process].inbox = <<>> /\ worker[process].busy = NoRequest
    BY <1>2, LineIsOwn, Shapes
  <1>5. /\ worker \in [Workers -> WorkerType] /\ queue \in [Workers -> Seq(Lines)]
        /\ call \in [Threads -> CallType]
    BY <1>1 DEF TypeOK, WorkerType, CallType
  <1>6. /\ queue' = [queue EXCEPT ![process] = Tail(queue[process])]
        /\ UNCHANGED worker
    BY <1>4 DEF Restored, Receive, ReceiveExit, Consume
  <1>7. /\ queue[process] # <<>> /\ Tail(queue[process]) \in Seq(Lines)
        /\ queue' \in [Workers -> Seq(Lines)] /\ queue'[process] = Tail(queue[process])
        /\ \A p \in Workers \ {process} : queue'[p] = queue[p]
    <2>1. queue[process] # <<>>
      BY <1>2, <1>4 DEF Waiting
    <2>2. queue[process] \in Seq(Lines)
      BY <1>4, <1>5
    <2>3. Tail(queue[process]) \in Seq(Lines)
      BY <2>1, <2>2
    <2>4. QED
      BY <1>4, <1>5, <1>6, <2>1, <2>3
  <1>8. Line = queue[process][1]
    BY <1>4, <1>7 DEF Line
  <1>9. /\ call' = [call EXCEPT ![t].restore = FALSE]
        /\ UNCHANGED <<service, responses, settings, left, faults, ran>>
    BY DEF Restored, Receive, ReceiveExit
  <1>10. /\ call' \in [Threads -> CallType] /\ ~call'[t].restore
         /\ \A u \in Threads \ {t} : call'[u] = call[u]
    BY <1>5, <1>9, ZenonT(60) DEF CallType
  <1>11. worker[process].sink = process
    BY <1>1, <1>4 DEF OneProcess
  <1>12. \/ /\ ~Line.eof
            /\ Tail(queue[process]) = IF worker[process].alive THEN <<>> ELSE <<Exited>>
         \/ Line.eof /\ ~Line.ok /\ ~worker[process].alive
    <2>1. \A r, ok : Reply(r, ok).eof = FALSE /\ Reply(r, ok).ok = ok
      BY DEF Reply
    <2>2. Exited.eof /\ Exited.ok = FALSE
      BY DEF Exited
    <2>3. CASE worker[process].alive
      <3>1. PICK ok \in BOOLEAN : queue[process] = <<Reply(Request(t), ok)>>
        BY <1>2, <2>3, LineIsOwn
      <3>2. Line = Reply(Request(t), ok) /\ Tail(queue[process]) = <<>>
        BY <1>8, <3>1
      <3>3. QED
        BY <2>1, <2>3, <3>2
    <2>4. CASE ~worker[process].alive /\ queue[process] = <<Exited>>
      BY <1>8, <2>2, <2>4
    <2>5. CASE ~worker[process].alive /\ queue[process] # <<Exited>>
      <3>1. PICK ok \in BOOLEAN : queue[process] = <<Reply(Request(t), ok), Exited>>
        BY <1>2, <2>5, LineIsOwn
      <3>2. Line = Reply(Request(t), ok) /\ Tail(queue[process]) = <<Exited>>
        BY <1>8, <3>1
      <3>3. QED
        BY <2>1, <2>5, <3>2
    <2>6. QED
      BY <2>3, <2>4, <2>5
  <1>13. ~Line.eof => Quiet'
    <2>1. SUFFICES ASSUME ~Line.eof, process' = process PROVE Quiet'
      <3>1. process' = process \/ Line.eof
        BY DEF Restored, Receive, ReceiveExit
      <3>2. QED
        BY <3>1
    <2>2. QED
      BY <1>4, <1>6, <1>7, <1>12, <2>1 DEF Quiet
  <1>14. CASE Restored(t)
    <2>1. /\ UNCHANGED <<lock, process>> /\ pc' = [pc EXCEPT ![t] = "write"] /\ Line.ok
          /\ call[t].restore
      BY <1>14 DEF Restored, Goto
    <2>2. ~Line.eof
      BY <1>12, <2>1
    <2>a. pc'[t] = "write" /\ \A u \in Threads \ {t} : pc'[u] = pc[u]
      BY <1>1, <2>1 DEF TypeOK
    <2>3. TypeOK'
      BY <1>1, <1>6, <1>7, <1>9, <1>10, <2>1 DEF TypeOK, CallType, InExchange
    <2>4. LockIsHeld'
      BY <1>3, <2>1, <2>a DEF LockIsHeld, InExchange
    <2>5. OneProcess'
      BY <1>1, <1>3, <1>4, <1>6, <1>7, <1>9, <1>11, <2>1, <2>a DEF OneProcess
    <2>6. PipeIsPaired'
      BY <1>3, <1>13, <2>1, <2>2, <2>a DEF PipeIsPaired
    <2>7. NotYetRun'
      BY <1>1, <1>2, <1>3, <1>9, <2>1, <2>a DEF NotYetRun, InExchange
    <2>8. ASSUME SettingsAreSent PROVE SettingsAreSent'
      <3>1. ~(/\ worker[process].alive /\ worker[process].holds # settings
              /\ settings \notin Refused)
        BY <1>2, <1>3, <1>4, <1>7, <2>8 DEF SettingsAreSent
      <3>2. QED
        BY <1>6, <1>9, <2>1, <3>1 DEF SettingsAreSent
    <2>9. QED
      BY <2>3, <2>4, <2>5, <2>6, <2>7, <2>8 DEF IInv
  <1>15. CASE Receive(t) \/ ReceiveExit(t)
    <2>1. PICK place \in {"returned", "raised"} : Leave(t, place)
      BY <1>15 DEF Receive, ReceiveExit, AfterExit
    <2>2. process' = 0 \/ (process' = process /\ Quiet')
      BY <1>13, <1>15 DEF Receive, ReceiveExit
    <2>3. \A p \in Workers : worker[p].sink = 0 => queue'[p] = queue[p]
      BY <1>4, <1>7, <1>11
    <2>4. \A p \in Workers : worker[p].alive => p = process'
      BY <1>1, <1>12, <1>15 DEF Receive, ReceiveExit, OneProcess
    <2>5. \A p \in Workers : ~worker[p].alive => worker[p].inbox = <<>> /\ worker[p].busy = NoRequest
      BY <1>1 DEF OneProcess
    <2>6. IInv'
      <3>1. /\ worker' \in [Workers -> WorkerType]
            /\ \A p \in Workers :
                 /\ worker'[p].sink = worker[p].sink
                 /\ worker'[p].alive => worker[p].alive /\ p = process'
                 /\ ~worker'[p].alive => worker'[p].inbox = <<>> /\ worker'[p].busy = NoRequest
        BY <1>5, <1>6, <2>4, <2>5
      <3>2. UNCHANGED <<service, responses, settings, left, faults, ran>>
        BY <1>9
      <3>3. QED
        BY <1>2, <1>7, <1>10, <2>1, <2>2, <2>3, <3>1, <3>2, LeaveKeepsIInv
    <2>7. ASSUME SettingsAreSent PROVE SettingsAreSent'
      <3>1. ~(/\ worker[process].alive /\ worker[process].holds # settings
              /\ settings \notin Refused)
        BY <1>2, <1>3, <1>4, <1>7, <2>7 DEF SettingsAreSent
      <3>2. QED
        BY <1>6, <1>9, <2>2, <3>1 DEF SettingsAreSent
    <2>8. QED
      BY <2>6, <2>7
  <1>16. QED
    BY <1>14, <1>15

LEMMA StoppingKeepsIInv ==
    ASSUME IInv, NEW t \in Threads, Overdue(t) \/ StopWorker(t), faults' \in Nat
    PROVE  IInv' /\ (SettingsAreSent => SettingsAreSent')
  <1>1. TypeOK /\ LockIsHeld /\ OneProcess /\ PipeIsPaired /\ NotYetRun
    BY DEF IInv
  <1>2. pc[t] \in {"wait", "stop"} /\ pc[t] \in InExchange
    BY DEF Overdue, StopWorker, InExchange
  <1>3. /\ lock = t /\ t # Free /\ stage # "exited"
        /\ \A u \in Threads \ {t} : pc[u] \notin InExchange
        /\ \A u \in Threads : pc[u] # "gone"
    BY <1>2, Holder
  <1>4. CASE Overdue(t)
    <2>1. /\ pc[t] = "wait" /\ pc' = [pc EXCEPT ![t] = "stop"]
          /\ UNCHANGED <<service, adapter, worker, queue, call, left, ran>>
      BY <1>4 DEF Overdue, Goto
    <2>2. pc'[t] = "stop" /\ \A u \in Threads \ {t} : pc'[u] = pc[u]
      BY <1>1, <2>1 DEF TypeOK
    <2>3. TypeOK'
      BY <1>1, <2>1 DEF TypeOK, InExchange
    <2>4. LockIsHeld' /\ OneProcess'
      BY <1>1, <1>3, <2>1, <2>2 DEF LockIsHeld, OneProcess, InExchange
    <2>5. Request(t)' = Request(t)
      BY <2>1 DEF Request
    <2>6. PipeIsPaired'
      BY <1>1, <1>3, <2>1, <2>2, <2>5 DEF PipeIsPaired, Exchanging
    <2>7. NotYetRun'
      BY <1>1, <2>1, <2>2 DEF NotYetRun
    <2>8. ASSUME SettingsAreSent PROVE SettingsAreSent'
      BY <1>3, <2>1, <2>2, <2>5, <2>8 DEF SettingsAreSent
    <2>9. QED
      BY <2>3, <2>4, <2>6, <2>7, <2>8 DEF IInv
  <1>5. CASE StopWorker(t)
    <2>1. /\ Stop /\ Leave(t, "raised") /\ process' = 0
          /\ call' = [call EXCEPT ![t].restore = FALSE]
          /\ UNCHANGED <<service, responses, settings, left, faults, ran>>
      BY <1>5 DEF StopWorker, Stop
    <2>2. worker \in [Workers -> WorkerType] /\ queue \in [Workers -> Seq(Lines)] /\ call \in [Threads -> CallType]
      BY <1>1 DEF TypeOK, WorkerType, CallType
    <2>3. call' \in [Threads -> CallType] /\ \A u \in Threads \ {t} : call'[u] = call[u]
      BY <2>1, <2>2, ZenonT(60) DEF CallType
    <2>4. /\ worker' \in [Workers -> WorkerType] /\ queue' \in [Workers -> Seq(Lines)]
          /\ \A p \in Workers :
               /\ worker'[p].sink = worker[p].sink /\ ~worker'[p].alive
               /\ worker'[p].inbox = <<>> /\ worker'[p].busy = NoRequest
               /\ worker[p].sink = 0 => queue'[p] = queue[p]
      <3>1. CASE process # 0
        BY <2>1, <3>1, StopLeaves
      <3>2. CASE process = 0
        BY <1>1, <2>1, <2>2, <3>2, Shapes DEF Stop, Alive, OneProcess
      <3>3. QED
        BY <3>1, <3>2
    <2>5. IInv'
      BY <1>2, <2>1, <2>3, <2>4, LeaveKeepsIInv
    <2>6. SettingsAreSent'
      BY <2>1 DEF SettingsAreSent
    <2>7. QED
      BY <2>5, <2>6
  <1>6. QED
    BY <1>4, <1>5

-----------------------------------------------------------------------------
(* Steps of the worker.                                                      *)

\* The worker that steps is the adapter's; what it becomes is w, and its queue q.
LEMMA WorkerStep ==
    ASSUME IInv, NEW p \in Workers, Alive(p),
           NEW w \in WorkerType, worker' = [worker EXCEPT ![p] = w],
           w.sink = p, ~w.alive => w.inbox = <<>> /\ w.busy = NoRequest,
           NEW q \in Seq(Lines), queue' = [queue EXCEPT ![p] = q],
           UNCHANGED <<service, adapter, pc, call, left>>,
           faults' \in Nat, ran' \in [Jobs -> Nat],
           PipeIsPaired', NotYetRun'
    PROVE  IInv'
  <1>1. TypeOK /\ LockIsHeld /\ OneProcess
    BY DEF IInv
  <1>2. worker \in [Workers -> WorkerType] /\ queue \in [Workers -> Seq(Lines)]
    BY <1>1 DEF TypeOK, WorkerType
  <1>3. /\ worker' \in [Workers -> WorkerType] /\ queue' \in [Workers -> Seq(Lines)]
        /\ worker'[p] = w /\ \A o \in Workers \ {p} : worker'[o] = worker[o] /\ queue'[o] = queue[o]
    BY <1>2
  <1>4. TypeOK'
    BY <1>1, <1>3 DEF TypeOK, WorkerType
  <1>5. LockIsHeld'
    BY <1>1 DEF LockIsHeld
  <1>6. p = process /\ worker[p].alive /\ p # 0 /\ stage # "exited"
    BY <1>1, Shapes DEF OneProcess, Alive
  <1>7. OneProcess'
    BY <1>1, <1>3, <1>6 DEF OneProcess
  <1>8. QED
    BY <1>4, <1>5, <1>7 DEF IInv

\* Who is in an exchange with a worker that has something to do, and how far it is.
LEMMA Busy ==
    ASSUME IInv, NEW p \in Workers, Alive(p)
    PROVE  /\ p = process /\ p # 0 /\ stage # "exited" /\ worker[p].sink = p
           /\ Quiet \/ (/\ lock \in Threads /\ lock # Free /\ pc[lock] \in {"wait", "stop"}
                       /\ Exchanging(Request(lock)) /\ \A t \in Threads \ {lock} : pc[t] \notin InExchange)
  <1>1. TypeOK /\ LockIsHeld /\ OneProcess /\ PipeIsPaired
    BY DEF IInv
  <1>2. p = process /\ p # 0 /\ stage # "exited" /\ worker[p].sink = p
    BY <1>1, Shapes DEF OneProcess, Alive
  <1>3. ASSUME ~Quiet
        PROVE /\ lock \in Threads /\ lock # Free /\ pc[lock] \in {"wait", "stop"}
              /\ Exchanging(Request(lock)) /\ \A t \in Threads \ {lock} : pc[t] \notin InExchange
    <2>1. lock \in Threads /\ lock # Free
      BY <1>1, <1>2, <1>3 DEF PipeIsPaired, TypeOK
    <2>2. pc[lock] \in {"wait", "stop"}
      BY <1>1, <1>2, <1>3, <2>1 DEF PipeIsPaired, LockIsHeld, OneProcess, InExchange
    <2>3. QED
      BY <1>1, <1>2, <1>3, <2>1, <2>2 DEF PipeIsPaired, LockIsHeld
  <1>4. QED
    BY <1>2, <1>3

LEMMA TakeKeepsIInv ==
    ASSUME IInv, NEW p \in Workers, Take(p)
    PROVE  IInv' /\ (SettingsAreSent => SettingsAreSent')
  <1>1. TypeOK /\ LockIsHeld /\ OneProcess /\ PipeIsPaired /\ NotYetRun /\ Alive(p)
    BY DEF IInv, Take
  <1>2. /\ worker[p].inbox # <<>> /\ worker[p].busy = NoRequest
        /\ UNCHANGED <<service, adapter, queue, pc, call, left, faults>>
    BY DEF Take
  <1>3. p = process /\ p # 0 /\ stage # "exited" /\ worker[p].sink = p /\ worker[p].alive
    BY <1>1, Busy DEF Alive
  <1>4. ~Quiet
    BY <1>2, <1>3 DEF Quiet
  <1>5. /\ lock \in Threads /\ lock # Free /\ pc[lock] \in {"wait", "stop"}
        /\ Exchanging(Request(lock)) /\ \A t \in Threads \ {lock} : pc[t] \notin InExchange
    BY <1>1, <1>4, Busy
  <1>6. PICK r \in Requests : r = Request(lock)
    BY <1>1, <1>5, RequestType
  <1>7. worker[p].inbox = <<r>> /\ queue[p] = <<>>
    BY <1>2, <1>3, <1>5, <1>6 DEF Exchanging
  <1>8. worker \in [Workers -> WorkerType] /\ queue \in [Workers -> Seq(Lines)]
    BY <1>1 DEF TypeOK, WorkerType
  <1> DEFINE w == [worker[p] EXCEPT !.inbox = <<>>, !.busy = r]
  <1>9. /\ w \in WorkerType /\ w.alive /\ w.inbox = <<>> /\ w.busy = r /\ w.sink = p
        /\ w.holds = worker[p].holds
    <2>1. worker[p] \in WorkerType /\ <<>> \in Seq(Requests)
      BY <1>8
    <2>2. QED
      BY <1>3, <2>1 DEF WorkerType
  <1>10. /\ worker' = [worker EXCEPT ![p].inbox = Tail(@), ![p].busy = r]
         /\ ran' = IF r.op = "recognize" THEN [ran EXCEPT ![r.by] = @ + 1] ELSE ran
    BY <1>7 DEF Take
  <1>11. worker' = [worker EXCEPT ![p] = w]
    <2>1. Tail(worker[p].inbox) = <<>>
      BY <1>7
    <2>2. worker' = [worker EXCEPT ![p].inbox = <<>>, ![p].busy = r]
      BY <1>10, <2>1
    <2>3. QED
      BY <1>8, <2>2 DEF WorkerType
  <1> HIDE DEF w
  <1>12. worker'[p] = w
    BY <1>8, <1>11
  <1>13. Request(lock)' = r /\ r.by = lock
    BY <1>2, <1>6 DEF Request
  <1>14. PipeIsPaired'
    <2>1. Exchanging(r)'
      BY <1>2, <1>3, <1>7, <1>9, <1>12 DEF Exchanging
    <2>2. QED
      BY <1>2, <1>5, <1>13, <2>1 DEF PipeIsPaired, Exchanging
  <1>15. ran \in [Jobs -> Nat]
    BY <1>1 DEF TypeOK
  <1>16. /\ ran' \in [Jobs -> Nat]
         /\ \A j \in Jobs : ran'[j] = IF j = lock /\ r.op = "recognize" THEN ran[j] + 1 ELSE ran[j]
    <2>1. CASE r.op = "recognize" /\ lock \in Jobs
      <3>1. ran' = [ran EXCEPT ![lock] = ran[lock] + 1] /\ ran[lock] + 1 \in Nat
        BY <1>10, <1>13, <1>15, <2>1
      <3>2. QED
        BY <1>15, <2>1, <3>1
    <2>2. CASE r.op = "recognize" /\ lock \notin Jobs
      <3>1. ran' = ran
        BY <1>10, <1>13, <1>15, <2>2
      <3>2. QED
        BY <1>15, <2>2, <3>1
    <2>3. CASE r.op # "recognize"
      BY <1>10, <1>15, <2>3
    <2>4. QED
      BY <2>1, <2>2, <2>3
  <1>17. NotYetRun'
    <2>1. lock \in Jobs => ran[lock] = 0
      BY <1>1, <1>2, <1>3, <1>5 DEF NotYetRun
    <2>2. r.op = "recognize" => ~call[lock].restore
      BY <1>6 DEF Request
    <2>3. process' = process /\ worker'[process].inbox = <<>>
      BY <1>2, <1>3, <1>9, <1>12
    <2>4. \A j \in Jobs : ran'[j] <= 1
      BY <1>1, <1>15, <1>16, <2>1 DEF NotYetRun
    <2>5. QED
      BY <1>1, <1>2, <1>5, <1>16, <2>1, <2>2, <2>3, <2>4 DEF NotYetRun, InExchange
  <1>18. queue' = [queue EXCEPT ![p] = queue[p]] /\ queue[p] \in Seq(Lines) /\ faults' \in Nat
    BY <1>1, <1>2, <1>8 DEF TypeOK
  <1>19. IInv'
    BY <1>1, <1>2, <1>9, <1>11, <1>14, <1>16, <1>17, <1>18, WorkerStep
  <1>20. ASSUME SettingsAreSent PROVE SettingsAreSent'
    BY <1>2, <1>3, <1>6, <1>9, <1>12, <1>13, <1>20 DEF SettingsAreSent
  <1>21. QED
    BY <1>19, <1>20

LEMMA ServeKeepsIInv ==
    ASSUME IInv, NEW p \in Workers, Serve(p)
    PROVE  IInv' /\ (SettingsAreSent => SettingsAreSent')
  <1>1. TypeOK /\ LockIsHeld /\ OneProcess /\ PipeIsPaired /\ NotYetRun /\ Alive(p)
    BY DEF IInv, Serve
  <1>2. /\ worker[p].busy # NoRequest
        /\ UNCHANGED <<service, adapter, pc, call, left, faults, ran>>
    BY DEF Serve
  <1>3. p = process /\ p # 0 /\ stage # "exited" /\ worker[p].sink = p /\ worker[p].alive
    BY <1>1, Busy DEF Alive
  <1>4. ~Quiet
    BY <1>2, <1>3 DEF Quiet
  <1>5. /\ lock \in Threads /\ lock # Free /\ pc[lock] \in {"wait", "stop"}
        /\ Exchanging(Request(lock)) /\ \A t \in Threads \ {lock} : pc[t] \notin InExchange
    BY <1>1, <1>4, Busy
  <1>6. PICK r \in Requests : r = Request(lock)
    BY <1>1, <1>5, RequestType
  <1>7. worker[p].inbox = <<>> /\ queue[p] = <<>> /\ worker[p].busy = r
    BY <1>2, <1>3, <1>5, <1>6 DEF Exchanging
  <1>8. worker \in [Workers -> WorkerType] /\ queue \in [Workers -> Seq(Lines)]
    BY <1>1 DEF TypeOK, WorkerType
  <1>9. PICK ok \in BOOLEAN :
          /\ r.op = "settings" => ok = (r.arg \notin Refused)
          /\ queue' = [queue EXCEPT ![p] = Append(@, Reply(r, ok))]
          /\ worker' = [worker EXCEPT ![p].busy = NoRequest,
                          ![p].holds = IF r.op = "settings" /\ ok THEN r.arg ELSE @]
    BY <1>3, <1>7 DEF Serve
  <1> DEFINE held == IF r.op = "settings" /\ ok THEN r.arg ELSE worker[p].holds
             w == [worker[p] EXCEPT !.busy = NoRequest, !.holds = held]
             q == <<Reply(r, ok)>>
  <1>10. held \in Snapshots \cup {Default}
    BY <1>8 DEF WorkerType, Requests
  <1>11. worker' = [worker EXCEPT ![p] = w]
    BY <1>8, <1>9 DEF WorkerType
  <1> HIDE DEF held
  <1>12. /\ w \in WorkerType /\ w.alive /\ w.inbox = <<>> /\ w.busy = NoRequest /\ w.sink = p
         /\ w.holds = held
    BY <1>3, <1>7, <1>8, <1>10, Shapes DEF WorkerType
  <1>13. q \in Seq(Lines) /\ queue' = [queue EXCEPT ![p] = q]
    <2>1. Reply(r, ok) \in Lines
      BY Shapes
    <2>2. Append(queue[p], Reply(r, ok)) = q
      BY <1>7
    <2>3. QED
      BY <1>9, <2>1, <2>2
  <1> HIDE DEF w, q
  <1>14. worker'[p] = w /\ queue'[p] = q
    BY <1>8, <1>11, <1>13
  <1>15. Request(lock)' = r
    BY <1>2, <1>6 DEF Request
  <1>16. PipeIsPaired'
    <2>1. Exchanging(r)'
      BY <1>2, <1>3, <1>12, <1>14 DEF Exchanging, q
    <2>2. QED
      BY <1>2, <1>5, <1>15, <2>1 DEF PipeIsPaired, Exchanging
  <1>17. NotYetRun'
    BY <1>1, <1>2, <1>3, <1>12, <1>14 DEF NotYetRun
  <1>18. faults' \in Nat /\ ran' \in [Jobs -> Nat]
    BY <1>1, <1>2 DEF TypeOK
  <1>19. IInv'
    BY <1>1, <1>2, <1>11, <1>12, <1>13, <1>16, <1>17, <1>18, WorkerStep
  <1>20. ASSUME SettingsAreSent, settings \notin Refused PROVE SettingsAreSent'
    <2>1. CASE r.op = "settings"
      <3>1. r.arg = settings
        BY <1>6, <2>1 DEF Request
      <3>2. held = settings
        BY <1>9, <1>20, <2>1, <3>1 DEF held
      <3>3. QED
        BY <1>2, <1>3, <1>12, <1>14, <3>2 DEF SettingsAreSent
    <2>2. CASE r.op # "settings"
      <3>1. held = worker[p].holds
        BY <2>2 DEF held
      <3>2. worker[p].holds = settings
        BY <1>3, <1>6, <1>20, <2>2 DEF SettingsAreSent
      <3>3. QED
        BY <1>2, <1>3, <1>12, <1>14, <3>1, <3>2 DEF SettingsAreSent
    <2>3. QED
      BY <2>1, <2>2
  <1>21. settings \in Refused => SettingsAreSent'
    BY <1>2 DEF SettingsAreSent
  <1>22. QED
    BY <1>19, <1>20, <1>21

LEMMA FaultKeepsIInv ==
    ASSUME IInv, NEW p \in Workers, Crash(p) \/ Hang(p)
    PROVE  IInv' /\ (SettingsAreSent => SettingsAreSent')
  <1>1. TypeOK /\ LockIsHeld /\ OneProcess /\ PipeIsPaired /\ NotYetRun /\ Alive(p)
    BY DEF IInv, Crash, Hang
  <1>2. /\ UNCHANGED <<service, adapter, pc, call, left, ran>>
        /\ faults' \in Nat /\ ran' \in [Jobs -> Nat]
    BY <1>1, SMTT(30) DEF Crash, Hang, TypeOK
  <1>3. p = process /\ p # 0 /\ stage # "exited" /\ worker[p].sink = p /\ worker[p].alive
    BY <1>1, Busy DEF Alive
  <1>4. worker \in [Workers -> WorkerType] /\ queue \in [Workers -> Seq(Lines)]
    BY <1>1 DEF TypeOK, WorkerType
  <1>5. \A t \in Threads : Request(t)' = Request(t)
    BY <1>2 DEF Request
  <1>6. lock \in Threads \cup {Free}
    BY <1>1 DEF TypeOK
  <1>7. CASE Crash(p)
    <2>1. /\ Dead(p) \in WorkerType /\ ~Dead(p).alive /\ Dead(p).inbox = <<>>
          /\ Dead(p).busy = NoRequest /\ Dead(p).sink = p
      BY <1>1, <1>3, DeadType DEF Dead, NotStarted
    <2> DEFINE q == Append(queue[p], Exited)
    <2>2. q \in Seq(Lines) /\ queue' = [queue EXCEPT ![p] = q]
      BY <1>3, <1>4, <1>7, Shapes DEF Crash, EndOf
    <2>3. worker' = [worker EXCEPT ![p] = Dead(p)]
      BY <1>7 DEF Crash
    <2> HIDE DEF q
    <2>4. worker'[p] = Dead(p) /\ queue'[p] = q
      BY <1>4, <2>2, <2>3
    <2>5. ASSUME Quiet PROVE Quiet'
      <3>1. q = <<Exited>>
        BY <1>3, <2>5 DEF Quiet, q
      <3>2. QED
        BY <1>2, <1>3, <2>1, <2>4, <3>1 DEF Quiet
    <2>6. ASSUME NEW t \in Threads, Exchanging(Request(t)) PROVE Exchanging(Request(t))'
      <3>1. \/ q = <<Exited>>
            \/ \E ok \in BOOLEAN : q = <<Reply(Request(t), ok), Exited>>
        <4>1. queue[p] = <<>> \/ \E ok \in BOOLEAN : queue[p] = <<Reply(Request(t), ok)>>
          BY <1>3, <2>6 DEF Exchanging
        <4>2. CASE queue[p] = <<>>
          BY <4>2 DEF q
        <4>3. ASSUME NEW ok \in BOOLEAN, queue[p] = <<Reply(Request(t), ok)>>
              PROVE  q = <<Reply(Request(t), ok), Exited>>
          <5>1. ASSUME NEW x \in Lines, NEW y \in Lines PROVE Append(<<x>>, y) = <<x, y>>
            <6>1. <<x>> \in Seq(Lines) /\ <<x, y>> \in Seq(Lines)
              OBVIOUS
            <6>2. Append(<<x>>, y) \in Seq(Lines) /\ Len(Append(<<x>>, y)) = 2
              BY <6>1
            <6>3. Append(<<x>>, y)[1] = x /\ Append(<<x>>, y)[2] = y
              BY <6>1
            <6>4. QED
              <7> DEFINE s == Append(<<x>>, y)  u == <<x, y>>
              <7>1. s \in Seq(Lines) /\ u \in Seq(Lines) /\ Len(s) = 2 /\ Len(u) = 2
                BY <6>1, <6>2
              <7>2. s[1] = u[1] /\ s[2] = u[2]
                BY <6>3
              <7> HIDE DEF s, u
              <7>3. \A i \in 1 .. Len(s) : s[i] = u[i]
                BY <7>1, <7>2
              <7>4. s = u
                BY <7>1, <7>3, SeqEqual
              <7>5. QED
                BY <7>4 DEF s, u
          <5>a. Reply(Request(t), ok) \in Lines /\ Exited \in Lines
            BY <1>1, Shapes, RequestType
          <5>2. q = Append(<<Reply(Request(t), ok)>>, Exited)
            BY <4>3 DEF q
          <5>3. QED
            BY <5>1, <5>2, <5>a
        <4>4. QED
          BY <4>1, <4>2, <4>3
      <3>2. QED
        BY <1>2, <1>3, <1>5, <2>1, <2>4, <3>1 DEF Exchanging
    <2>7. PipeIsPaired'
      BY <1>1, <1>2, <1>3, <1>6, <2>5, <2>6 DEF PipeIsPaired
    <2>8. NotYetRun'
      BY <1>1, <1>2, <1>3, <2>1, <2>4 DEF NotYetRun
    <2>9. IInv'
      BY <1>1, <1>2, <2>1, <2>2, <2>3, <2>7, <2>8, WorkerStep
    <2>10. SettingsAreSent'
      BY <1>2, <1>3, <2>1, <2>4 DEF SettingsAreSent
    <2>11. QED
      BY <2>9, <2>10
  <1>8. CASE Hang(p)
    <2> DEFINE w == [worker[p] EXCEPT !.hung = TRUE]
    <2>1. /\ w \in WorkerType /\ w.alive /\ w.inbox = worker[p].inbox
          /\ w.busy = worker[p].busy /\ w.holds = worker[p].holds /\ w.sink = p
      BY <1>3, <1>4, ZenonT(60) DEF WorkerType
    <2>2. worker' = [worker EXCEPT ![p] = w] /\ UNCHANGED queue
      BY <1>8 DEF Hang
    <2> HIDE DEF w
    <2>3. worker'[p] = w
      BY <1>4, <2>2
    <2>4. queue' = [queue EXCEPT ![p] = queue[p]] /\ queue[p] \in Seq(Lines)
      BY <1>4, <2>2
    <2>5. Quiet => Quiet'
      BY <1>2, <1>3, <2>1, <2>2, <2>3 DEF Quiet
    <2>6. ASSUME NEW t \in Threads, Exchanging(Request(t)) PROVE Exchanging(Request(t))'
      BY <1>2, <1>3, <1>5, <2>1, <2>2, <2>3, <2>6 DEF Exchanging
    <2>7. PipeIsPaired'
      BY <1>1, <1>2, <1>3, <1>6, <2>5, <2>6 DEF PipeIsPaired
    <2>8. NotYetRun'
      BY <1>1, <1>2, <1>3, <2>1, <2>3 DEF NotYetRun
    <2>9. IInv'
      BY <1>1, <1>2, <2>1, <2>2, <2>4, <2>7, <2>8, WorkerStep
    <2>10. SettingsAreSent => SettingsAreSent'
      BY <1>2, <1>3, <1>5, <1>6, <2>1, <2>2, <2>3 DEF SettingsAreSent
    <2>11. QED
      BY <2>9, <2>10
  <1>9. QED
    BY <1>7, <1>8

-----------------------------------------------------------------------------
LEMMA StepKeepsIInv ==
    ASSUME IInv, [Next]_vars
    PROVE  IInv' /\ (SettingsAreSent => SettingsAreSent')
  <1>1. CASE Calling
    BY <1>1, CallingIsOutside, OutsideKeepsIInv
  <1>2. ASSUME NEW t \in Threads, Asking(t) \/ SlowReply(t) \/ Ending(t)
        PROVE  IInv' /\ (SettingsAreSent => SettingsAreSent')
    <2>1. faults \in Nat
      BY DEF IInv, TypeOK
    <2>2. CASE GiveUp(t) \/ Ending(t)
      BY <2>2, ReturningIsOutside, OutsideKeepsIInv
    <2>3. CASE Acquire(t)
      BY <2>3, AcquireKeepsIInv
    <2>4. CASE StartIsDone(t) \/ StartWorker(t) \/ StartFails(t)
      BY <2>4, StartKeepsIInv
    <2>5. CASE Write(t) \/ WriteBlocks(t) \/ WriteFails(t)
      BY <2>5, WriteKeepsIInv
    <2>6. CASE Restored(t) \/ Receive(t) \/ ReceiveExit(t)
      BY <2>6, ReceiveKeepsIInv
    <2>7. CASE Expire(t)
      BY <2>1, <2>7, StoppingKeepsIInv DEF Expire
    <2>8. CASE SlowReply(t)
      BY <2>1, <2>8, StoppingKeepsIInv DEF SlowReply
    <2>9. CASE StopWorker(t)
      BY <2>1, <2>9, StoppingKeepsIInv DEF StopWorker
    <2>10. QED
      BY <1>2, <2>2, <2>3, <2>4, <2>5, <2>6, <2>7, <2>8, <2>9 DEF Asking
  <1>3. ASSUME NEW p \in Workers, Take(p) \/ Serve(p) \/ Crash(p) \/ Hang(p)
        PROVE  IInv' /\ (SettingsAreSent => SettingsAreSent')
    BY <1>3, TakeKeepsIInv, ServeKeepsIInv, FaultKeepsIInv
  <1>4. CASE Drain \/ CloseExecutor \/ Closed \/ Exit
    BY <1>4, ShutdownKeepsIInv
  <1>5. CASE UNCHANGED vars
    <2>1. UNCHANGED <<service, adapter, worker, queue, pc, call, left, faults, ran>>
      BY <1>5 DEF vars
    <2>2. TypeOK' /\ LockIsHeld' /\ OneProcess' /\ NotYetRun'
      BY <2>1 DEF IInv, TypeOK, LockIsHeld, OneProcess, NotYetRun
    <2>3. \A t : Request(t)' = Request(t)
      BY <2>1 DEF Request
    <2>4. PipeIsPaired' /\ (SettingsAreSent => SettingsAreSent')
      BY <2>1, <2>3 DEF IInv, PipeIsPaired, Quiet, Exchanging, SettingsAreSent
    <2>5. QED
      BY <2>2, <2>4 DEF IInv
  <1>6. QED
    BY <1>1, <1>2, <1>3, <1>4, <1>5 DEF Next

LEMMA Invariance == Spec => []IInv
  <1>1. IInv /\ [Next]_vars => IInv'
    BY StepKeepsIInv
  <1>2. QED
    BY InitInv, <1>1, PTL DEF Spec

-----------------------------------------------------------------------------
(* The theorems.                                                             *)

\* Every state is of the type stated.
THEOREM Typed == Spec => []TypeOK
  <1>1. IInv => TypeOK
    BY DEF IInv
  <1>2. QED
    BY <1>1, Invariance, PTL

\* A thread takes no line that answers another request than its own (_exchange reads
\* the queue of the worker it wrote to, paddle_process_adapter.py).
THEOREM RepliesAreOwn == Spec => []RepliesMatchRequests
  <1>1. IInv => RepliesMatchRequests
    <2> SUFFICES ASSUME IInv, NEW t \in Threads, Waiting(t), ~Line.eof
                 PROVE  Line.to = Request(t)
      BY DEF RepliesMatchRequests
    <2>1. /\ responses = process
          /\ \/ \E ok \in BOOLEAN : queue[process] = <<Reply(Request(t), ok)>>
             \/ queue[process] = <<Exited>>
             \/ \E ok \in BOOLEAN : queue[process] = <<Reply(Request(t), ok), Exited>>
      BY LineIsOwn
    <2>2. queue[process] # <<Exited>>
      BY <2>1 DEF Line, Exited
    <2>3. \E ok \in BOOLEAN : Line = Reply(Request(t), ok)
      BY <2>1, <2>2 DEF Line
    <2>4. QED
      BY <2>3 DEF Reply
  <1>2. QED
    BY <1>1, Invariance, PTL

\* Never do two workers live: _start drops the old one first, and only the thread with
\* the adapter's lock starts one.
THEOREM OneWorker == Spec => []OneWorkerLives
  <1>1. IInv => OneWorkerLives
    <2> SUFFICES ASSUME IInv PROVE OneWorkerLives
      OBVIOUS
    <2> DEFINE living == {p \in Workers : worker[p].alive}
    <2>1. living \subseteq {process}
      BY DEF IInv, OneProcess
    <2> HIDE DEF living
    <2>2. living = {} => Cardinality(living) <= 1
      BY FS_EmptySet
    <2>3. Cardinality({process}) = 1
      BY FS_Singleton
    <2>4. Cardinality(living) <= 1
      BY <2>1, <2>2, <2>3
    <2>5. QED
      BY <2>4 DEF OneWorkerLives, living
  <1>2. QED
    BY <1>1, Invariance, PTL

\* The pairing of requests and replies survives every change of the worker (_start,
\* _stop and _exchange).
THEOREM AnswersArePaired == Spec => []OneWorkerAnswers
  BY RepliesAreOwn, OneWorker, PTL DEF OneWorkerAnswers

\* No recognition is begun twice for one call: the adapter does not send a request
\* again after its worker has died.
THEOREM NoRecognitionTwice == Spec => []NothingRunsTwice
  <1>1. IInv => NothingRunsTwice
    BY DEF IInv, NotYetRun, NothingRunsTwice
  <1>2. QED
    BY <1>1, Invariance, PTL

\* A worker never recognises or preloads under other settings than the adapter's, also
\* one that was restarted (_start), but for settings the worker's cache manager refuses.
THEOREM SettingsOfTheRun == Spec => []RunsUnderTheSettings
  <1>1. IInv /\ SettingsAreSent /\ [Next]_vars => IInv' /\ SettingsAreSent'
    BY StepKeepsIInv
  <1>2. IInv /\ SettingsAreSent => RunsUnderTheSettings
    <2> SUFFICES ASSUME IInv, SettingsAreSent, NEW p \in Workers,
                        worker[p].busy.op \in {"recognize", "preload"},
                        worker[p].holds # settings, settings \notin Refused
                 PROVE  FALSE
      BY DEF RunsUnderTheSettings
    <2>1. worker[p].busy # NoRequest
      BY DEF NoRequest
    <2>2. Alive(p)
      BY <2>1, Shapes DEF IInv, OneProcess, Alive
    <2>3. p = process /\ p # 0 /\ worker[p].alive
      BY <2>2, Busy DEF Alive
    <2>4. ~Quiet
      BY <2>1, <2>3 DEF Quiet
    <2>5. Exchanging(Request(lock))
      BY <2>2, <2>4, Busy
    <2>6. worker[p].busy = Request(lock)
      BY <2>1, <2>3, <2>5 DEF Exchanging
    <2>7. Request(lock).op = "settings"
      BY <2>3 DEF SettingsAreSent
    <2>8. QED
      BY <2>6, <2>7
  <1>3. QED
    BY InitInv, <1>1, <1>2, PTL DEF Spec


=============================================================================
