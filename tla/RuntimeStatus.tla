---------------------------- MODULE RuntimeStatus ----------------------------
(***************************************************************************)
(* What the service tells of its runtime while RuntimeInstall's operations *)
(* change it: GET /v2/runtime/status (runtime_status_from_environment)     *)
(* reads the marker, the component probe and its cache, the versions and   *)
(* at last the journals, one after the other and without the store lock;   *)
(* inspect does the same without the cache; the engine resolver keeps its  *)
(* probes until an operation of this service succeeds.                     *)
(***************************************************************************)
EXTENDS RuntimeInstall

CONSTANTS
    Supervisor, \* the process that answers; operations of others are not seen by it
    Pollers     \* threads of it that serve a status request

ASSUME StatusAssumption == Supervisor \in Procs

VARIABLES
    cache,   \* the component probe cache: marker stamp -> the verdict within its TTL
    tainted, \* history: stamps whose cached verdict is of another runtime, or of the
             \* runtime before it was harmed
    poll,    \* per poller: [pc, serves, mark, key, ok, told]; quiet (history): since the
             \* request began nothing touched the runtime and no tainted verdict was used
    engine,  \* the resolver's cached verdict: [known, ok]; missed tells (history) that
             \* an operation failed, a receipt could not be built or harm was done since
             \* it was taken
    refresh, \* a receipt tells a success and the resolver has not been told yet
    draining \* the service takes no jobs any more

telling == <<cache, tainted, poll, engine, refresh, draining>>

\* A marker is written once, by the operation that built the runtime: the operation
\* stands for its time stamp.
Stamps == AllOps \cup {None}
NoCache == [k \in Stamps |-> {}]
NoPoll == [pc |-> "idle", serves |-> FALSE, mark |-> FALSE, key |-> None, ok |-> FALSE,
           told |-> None, quiet |-> FALSE]
NoVerdict == [known |-> FALSE, ok |-> FALSE, missed |-> FALSE]

Running(l) == \E o \in AllOps : l[o].state = "running"
To(q, r) == poll' = [poll EXCEPT ![q] = r]

-----------------------------------------------------------------------------
(* A status request.                                                         *)

\* The marker is there and names this product.
MarkerMatches == active.state \notin {"absent", "untrusted"}

ReadMarker(q) ==
    /\ poll[q].pc = "idle"
    /\ \E kind \in {"stat", "inspect"} :
         To(q, [NoPoll EXCEPT !.pc = kind, !.serves = ~draining,
                              !.mark = MarkerMatches, !.quiet = ~Running(log)])
    /\ UNCHANGED <<vars, cache, tainted, engine, refresh, draining>>

\* The key is fixed before the lock of the cache is taken.
Key_RootOnly == None
Key == active.by

StatMarker(q) ==
    /\ poll[q].pc = "stat"
    /\ To(q, [poll[q] EXCEPT !.pc = "lookUp", !.key = Key])
    /\ UNCHANGED <<vars, cache, tainted, engine, refresh, draining>>

Probing == \E q \in Pollers : poll[q].pc = "probe"

LookUp(q) ==
    /\ poll[q].pc = "lookUp" /\ ~Probing
    /\ LET cached == cache[poll[q].key] IN
       To(q, IF cached = {} THEN [poll[q] EXCEPT !.pc = "probe"]
             ELSE [poll[q] EXCEPT !.pc = "view", !.ok = TRUE \in cached,
                                  !.quiet = @ /\ poll[q].key \notin tainted])
    /\ UNCHANGED <<vars, cache, tainted, engine, refresh, draining>>

\* Imports every component in the runtime's own Python: a drifted runtime is one that
\* fails this.  The marker is not looked at.
Imports == IF active.state = "untrusted" THEN BOOLEAN ELSE {active.state = "sound"}

Probe(q) ==
    /\ poll[q].pc = "probe"
    /\ \E ok \in Imports :
         /\ To(q, [poll[q] EXCEPT !.pc = "view", !.ok = ok])
         /\ cache' = [cache EXCEPT ![poll[q].key] = {ok}]
    /\ tainted' = IF active.by = poll[q].key THEN tainted \ {poll[q].key} ELSE tainted \cup {poll[q].key}
    /\ UNCHANGED <<vars, engine, refresh, draining>>

\* inspect_snapshot probes for itself.
ProbeForInspect(q) ==
    /\ poll[q].pc = "inspect"
    /\ \E ok \in Imports :
         To(q, [poll[q] EXCEPT !.pc = "view", !.ok = ok, !.key = active.by])
    /\ UNCHANGED <<vars, cache, tainted, engine, refresh, draining>>

\* _component_statuses: ready are the components that the marker, the Python found
\* now and the probe agree on.
View(q) ==
    /\ poll[q].pc = "view"
    /\ To(q, [poll[q] EXCEPT !.pc = "journal",
                             !.ok = @ /\ poll[q].mark /\ active # Nothing])
    /\ UNCHANGED <<vars, cache, tainted, engine, refresh, draining>>

\* latest_projection puts an operation that runs before all others.  A service that
\* drains is degraded, as is one whose components are not ready.
ServiceState(serves, ready, l) == IF Running(l) THEN "maintenance"
                                  ELSE IF serves /\ ready THEN "ready" ELSE "degraded"

ReadJournal(q) ==
    /\ poll[q].pc = "journal"
    /\ To(q, [NoPoll EXCEPT !.told = ServiceState(poll[q].serves, poll[q].ok, log)])
    /\ UNCHANGED <<vars, cache, tainted, engine, refresh, draining>>

Expire(k) ==
    /\ cache[k] # {}
    /\ cache' = [cache EXCEPT ![k] = {}] /\ tainted' = tainted \ {k}
    /\ UNCHANGED <<vars, poll, engine, refresh, draining>>

-----------------------------------------------------------------------------
(* The engine resolver.                                                      *)

\* The lock of the resolver is held through a probe, so that a refresh waits for it.
\* It imports Paddle alone.
PaddleImports == IF active.state \in {"drifted", "untrusted"} THEN BOOLEAN
                 ELSE {active.state = "sound"}

ProbeEngine ==
    /\ ~engine.known
    /\ \E ok \in PaddleImports :
         engine' = [known |-> TRUE, ok |-> ok, missed |-> FALSE]
    /\ UNCHANGED <<vars, cache, tainted, poll, refresh, draining>>

Refresh ==
    /\ refresh
    /\ refresh' = FALSE /\ engine' = NoVerdict
    /\ UNCHANGED <<vars, cache, tainted, poll, draining>>

-----------------------------------------------------------------------------
(* RuntimeInstall's steps, as the service notices them.                      *)

\* A receipt of an ensure or a repair that succeeded, once it is built.
Refreshes_Ensure(kind) == kind = "ensure"
Refreshes(kind) == kind \in {"ensure", "repair"}

Operate ==
    /\ \/ \E p \in Procs : Work(p) \/ \E o \in Ops : Start(p, o)
       \/ \E o \in AllOps : Cancel(o)
    /\ LET answered == w[Supervisor].pc = "receipt" /\ w'[Supervisor] # w[Supervisor]
           built == mishaps' = mishaps IN
       /\ refresh' = (refresh \/ (answered /\ built /\ Refreshes(w[Supervisor].ask.kind)))
       /\ engine' = [engine EXCEPT !.missed = @ \/ (engine.known /\
                        \/ answered /\ ~built
                        \/ \E o \in AllOps : log[o] # log'[o] /\ log'[o].state \in {"failed", "cancelled"})]
    /\ poll' = [q \in Pollers |-> [poll[q] EXCEPT !.quiet = @ /\ log' = log]]
    /\ UNCHANGED <<cache, tainted, draining>>

\* Harm to a runtime makes what was read of it stale.
Harm ==
    /\ Damage
    /\ tainted' = IF cache[active.by] = {} THEN tainted ELSE tainted \cup {active.by}
    /\ poll' = [q \in Pollers |-> [poll[q] EXCEPT !.quiet = FALSE]]
    /\ engine' = [engine EXCEPT !.missed = engine.known]
    /\ UNCHANGED <<cache, refresh, draining>>

Drain ==
    /\ ~draining /\ draining' = TRUE
    /\ UNCHANGED <<vars, cache, tainted, poll, engine, refresh>>

Restart ==
    /\ Die(Supervisor)
    /\ cache' = NoCache /\ tainted' = {}
    /\ poll' = [q \in Pollers |-> NoPoll]
    /\ engine' = NoVerdict /\ refresh' = FALSE /\ draining' = FALSE

StatusInit ==
    /\ Init
    /\ cache = NoCache /\ tainted = {}
    /\ poll = [q \in Pollers |-> NoPoll]
    /\ engine = NoVerdict /\ refresh = FALSE /\ draining = FALSE

StatusNext ==
    \/ Operate \/ Harm \/ Restart \/ Drain \/ ProbeEngine \/ Refresh
    \/ \E q \in Pollers :
         \/ ReadMarker(q) \/ StatMarker(q) \/ LookUp(q) \/ Probe(q)
         \/ ProbeForInspect(q) \/ View(q) \/ ReadJournal(q)
    \/ \E k \in Stamps : Expire(k)

StatusSpec == StatusInit /\ [][StatusNext]_<<vars, telling>>

-----------------------------------------------------------------------------
(* Properties                                                                *)

\* A status during which no operation ran tells ready just when the runtime is sound
\* and the service did not drain as the request began, whatever was cached before,
\* during and after the operations that went before it; the one exception are verdicts
\* taken across a rename or before the runtime was harmed, for as long as they are kept.
StatusIsTrue ==
    [][\A q \in Pollers :
         /\ poll[q].pc = "journal" /\ poll'[q].told # None
         /\ poll[q].quiet
         => (poll'[q].told = "ready" <=> active.state = "sound" /\ poll[q].serves)]_<<vars, telling>>

\* Once a success is answered, the verdict jobs are admitted by is that of the runtime in
\* its place, unless it was harmed since, an operation that probes met on its way failed
\* or the receipt of a success could not be built: only a receipt refreshes the resolver.
Unanswered == w[Supervisor].pc \in {"unlock", "receipt"}
Fresh == engine.known /\ ~engine.missed /\ ~refresh /\ ~Running(log) /\ ~Unanswered
VerdictsAreRenewed ==
    Fresh /\ active.state \in {"absent", "sound"} => engine.ok = (active.state = "sound")

-----------------------------------------------------------------------------
(* What makes them inductive (the proofs are in RuntimeProofs).              *)

PollType == [pc : {"idle", "stat", "inspect", "lookUp", "probe", "view", "journal"},
             serves : BOOLEAN, mark : BOOLEAN, key : Stamps, ok : BOOLEAN,
             told : {None, "maintenance", "ready", "degraded"}, quiet : BOOLEAN]
StatusTypeOK ==
    /\ cache \in [Stamps -> SUBSET BOOLEAN] /\ tainted \in SUBSET Stamps
    /\ poll \in [Pollers -> PollType]
    /\ engine \in [known : BOOLEAN, ok : BOOLEAN, missed : BOOLEAN] /\ refresh \in BOOLEAN
    /\ draining \in BOOLEAN

\* A verdict of a runtime, and that the cache has none but true ones of it.
Verdict(r, ok) == r.state = "untrusted" \/ ok = (r.state = "sound")
Cached(r) == cache[r.by] # {} /\ r.by \notin tainted => Verdict(r, TRUE \in cache[r.by])
CacheIsTrue == Cached(active) /\ Cached(rollback) /\ Cached(Nothing)

\* A stamp leads to one runtime, and is known only once its runtime was in its place.
StampsAreUnique ==
    /\ active.by = None => active = Nothing
    /\ rollback.by = None => rollback = Nothing
    /\ active.by = rollback.by => rollback = Nothing
Placed(k) ==
    /\ log[k] # NoLog
    /\ \A p \in Procs : Executing(p) /\ w[p].op = k =>
         w[p].pc \in {"launch", "succeed", "undo", "undoIn", "clean", "fail", "leave"}
Known(k) == cache[k] # {} \/ \E q \in Pollers : poll[q].key = k
StampsArePlaced == \A k \in AllOps : Known(k) => Placed(k)

\* What a request has read is still so while nothing happens.
Current(q) ==
    LET r == poll[q] IN
    /\ ~Running(log) /\ r.mark = MarkerMatches
    /\ r.pc \in {"lookUp", "probe"} => r.key = active.by
    /\ r.pc = "view" => Verdict(active, r.ok)
    /\ r.pc = "journal" => r.ok = (active.state = "sound")
RequestsAreCurrent ==
    \A q \in Pollers : /\ poll[q].pc # "idle" => poll[q].told = None
                       /\ poll[q].pc # "idle" /\ poll[q].quiet => Current(q)

StatusInv == IInv /\ StatusTypeOK /\ CacheIsTrue /\ StampsAreUnique /\ StampsArePlaced /\ RequestsAreCurrent

\* Requests are executed as they were asked for, and retries have a model of their own.
AskedFor == \A p \in Procs : /\ w[p].op # Retry
                             /\ w[p].pc # "idle" => w[p].ask \in Intents

=============================================================================
