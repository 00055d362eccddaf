---------------------------- MODULE MinerUSession ----------------------------
(***************************************************************************)
(* The MinerU side of the supervisor: the adapter that owns the local      *)
(* mineru-api subprocess and leases it to jobs and preloads, the           *)
(* connection (local, or a self-hosted server) with the tiers observed on  *)
(* it, and a settings update that wants to change the connection.          *)
(*                                                                         *)
(* A thread holds the adapter's process lock, the readiness lock and the   *)
(* service lock one after the other, never together with a neighbouring    *)
(* step: each step below is one critical section.                          *)
(***************************************************************************)
EXTENDS Naturals

CONSTANTS
    Workers,     \* threads that come to use MinerU: jobs and preloads
    Preloaders,  \* those that run prepare(), the others parse documents
    Conns, Local, NoConn,
    Tiers

ASSUME SessionAssumption ==
    /\ Preloaders \subseteq Workers
    /\ Local \in Conns /\ NoConn \notin Conns

VARIABLES
    conn,     \* _connection of mineru_readiness
    observed, \* _observations: the connection a tier was last executed on
    served,   \* history: the connection that answered that execution
    built,    \* the executor's _adapter is not None
    execConn, \* the connection in the executor's _settings
    asked,    \* the connection in the settings the module acknowledged
    started,  \* _process_started
    idle,     \* _last_used is at least the TTL ago
    api,      \* the mineru-api subprocess exists
    client,   \* the MinerUService singleton has been constructed
    pc,       \* each worker's position
    snap,     \* the connection a worker will file its observation under
    used,     \* the connection its call goes to, or that it configures the adapter with
    todo,     \* the tiers a preloader has not executed yet
    upd,      \* the running update_settings: [pc, target, undo]
    raced,    \* history: an update saw no adapter, and one was built before it went on
    closed,   \* close() has been called
    cut,      \* history: the workers whose call close() took the subprocess from
    gap       \* history: the subprocess was stopped, or the connection changed, under a
              \* worker between its ensure_started and the end of its lease, or a failed
              \* start left a subprocess behind

connVars == <<conn, observed, gap>>
procVars == <<started, idle, api, client, closed, cut>>
cfgVars == <<built, execConn, asked, upd, raced>>
callVars == <<snap, used, todo, served>>
vars == <<connVars, procVars, cfgVars, callVars, pc>>

Leased == {"leased", "ready", "waiting", "calling", "leaving"}
Pcs == {"away", "asking", "built", "configuring", "starting", "started"} \cup Leased
UpdatePcs == {"none", "check", "blind", "executor", "adapter", "store"}

\* _active_leases > 0
Active == \E w \in Workers : pc[w] \in Leased

\* Somebody relies on what ensure_started found.
Relied == Active \/ \E w \in Workers : pc[w] = "started"

Goto(w, next) == pc' = [pc EXCEPT ![w] = next]

\* The local variable goes out of scope.
Forget(w) == used' = [used EXCEPT ![w] = NoConn]

\* configure_connection: a change clears the observed tiers.
SetConnection(c) ==
    /\ conn' = c
    /\ observed' = IF c = conn THEN observed ELSE [t \in Tiers |-> NoConn]
    /\ gap' = (gap \/ (c # conn /\ Relied))

\* The gate of the adapter's configure_settings.
Refused_Never(c) == FALSE
Refused(c) == c # conn /\ Active

-----------------------------------------------------------------------------
(* AdapterExecutor.adapter: the first user builds it, publishes it, and only *)
(* then hands it the settings.                                               *)

Arrive(w) ==
    /\ pc[w] = "away"
    /\ Goto(w, "asking")
    /\ todo' = [todo EXCEPT ![w] = IF w \in Preloaders THEN Tiers ELSE {}]
    /\ UNCHANGED <<connVars, procVars, cfgVars, snap, used, served>>

FindAdapter(w) ==
    /\ pc[w] = "asking" /\ built
    /\ Goto(w, "starting")
    /\ UNCHANGED <<connVars, procVars, cfgVars, callVars>>

BuildAdapter(w) ==
    /\ pc[w] = "asking" /\ ~built
    /\ built' = TRUE
    /\ Goto(w, "built")
    /\ UNCHANGED <<connVars, procVars, callVars, execConn, asked, upd, raced>>

ReadSettings(w) ==
    /\ pc[w] = "built"
    /\ used' = [used EXCEPT ![w] = execConn]
    /\ Goto(w, "configuring")
    /\ UNCHANGED <<connVars, procVars, cfgVars, snap, todo, served>>

ConfigureBuilt(w) ==
    /\ pc[w] = "configuring"
    /\ IF Refused(used[w]) THEN Goto(w, "away") /\ UNCHANGED connVars
                           ELSE SetConnection(used[w]) /\ Goto(w, "starting")
    /\ Forget(w)
    /\ UNCHANGED <<procVars, cfgVars, snap, todo, served>>

-----------------------------------------------------------------------------
(* recognize_many and preload: start the process, lease it, call, give back. *)

\* MinerUService(): the first construction starts the subprocess, if local.
Construct ==
    /\ client' = TRUE
    /\ api' = (api \/ (~client /\ conn = Local))

EnsureStarted(w) ==
    /\ pc[w] = "starting"
    /\ Goto(w, "started")
    /\ IF conn = Local /\ ~started
       THEN started' = TRUE /\ idle' = FALSE /\ Construct /\ UNCHANGED <<closed, cut>>
       ELSE UNCHANGED procVars
    /\ UNCHANGED <<connVars, cfgVars, callVars>>

\* The subprocess does not come up: whether it is left behind depends on why.
StartFails(w) ==
    /\ conn = Local /\ ~client
    /\ \/ pc[w] = "starting" /\ ~started /\ Goto(w, "away")
       \/ pc[w] = "leased" /\ Goto(w, "leaving")
    /\ api' \in BOOLEAN
    /\ gap' = (gap \/ api')
    /\ UNCHANGED <<conn, observed, cfgVars, callVars, started, idle, client, closed, cut>>

TakeLease(w) ==
    /\ pc[w] = "started"
    /\ Goto(w, "leased")
    /\ UNCHANGED <<connVars, procVars, cfgVars, callVars>>

GetClient(w) ==
    /\ pc[w] = "leased"
    /\ Construct
    /\ Goto(w, "ready")
    /\ UNCHANGED <<connVars, cfgVars, callVars, started, idle, closed, cut>>

\* A preloader notes the connection a tier's observation will belong to.
NoteConnection(w) ==
    /\ pc[w] = "ready" /\ w \in Preloaders /\ todo[w] # {} /\ snap[w] = NoConn
    /\ snap' = [snap EXCEPT ![w] = conn]
    /\ UNCHANGED <<connVars, procVars, cfgVars, used, todo, served, pc>>

\* _call_api fixes the connection at its entry, before the service lock.
FixConnection(w) ==
    /\ pc[w] = "ready" /\ (w \in Preloaders => snap[w] # NoConn)
    /\ used' = [used EXCEPT ![w] = conn]
    /\ Goto(w, "waiting")
    /\ UNCHANGED <<connVars, procVars, cfgVars, snap, todo, served>>

\* Under the service lock; a local call starts the subprocess if it is down.
EnterCall(w) ==
    /\ pc[w] = "waiting" /\ \A v \in Workers : pc[v] # "calling"
    /\ api' = (api \/ used[w] = Local)
    /\ cut' = cut \ {w}
    /\ Goto(w, "calling")
    /\ UNCHANGED <<connVars, cfgVars, callVars, started, idle, client, closed>>

ObservedOn_Now(w) == conn
ObservedOn(w) == snap[w]

Executed(w) ==
    /\ pc[w] = "calling" /\ w \in Preloaders
    /\ \E t \in todo[w] :
         /\ observed' = [observed EXCEPT ![t] = ObservedOn(w)]
         /\ served' = [served EXCEPT ![t] = used[w]]
         /\ todo' = [todo EXCEPT ![w] = @ \ {t}]
    /\ snap' = [snap EXCEPT ![w] = NoConn]
    /\ Forget(w)
    /\ Goto(w, IF todo'[w] = {} THEN "leaving" ELSE "ready")
    /\ UNCHANGED <<conn, gap, procVars, cfgVars>>

Parsed(w) ==
    /\ pc[w] = "calling" /\ w \notin Preloaders
    /\ Forget(w)
    /\ Goto(w, "leaving")
    /\ UNCHANGED <<connVars, procVars, cfgVars, snap, todo, served>>

\* The call, or the start of the subprocess in front of it, raises.
CallFails(w) ==
    /\ \/ pc[w] = "calling" /\ UNCHANGED api
       \/ /\ pc[w] = "waiting" /\ used[w] = Local
          /\ \A v \in Workers : pc[v] # "calling"
          /\ api' \in BOOLEAN
    /\ IF w \in Preloaders
       THEN \E t \in todo[w] : observed' = [observed EXCEPT ![t] = NoConn]
       ELSE UNCHANGED observed
    /\ snap' = [snap EXCEPT ![w] = NoConn]
    /\ Forget(w)
    /\ Goto(w, "leaving")
    /\ UNCHANGED <<conn, gap, started, idle, client, closed, cut, cfgVars, todo, served>>

\* The finally clause.
DropLease(w) ==
    /\ pc[w] = "leaving"
    /\ Goto(w, "away")
    /\ idle' = FALSE
    /\ UNCHANGED <<connVars, cfgVars, callVars, started, api, client, closed, cut>>

-----------------------------------------------------------------------------
(* Stopping the process: the TTL watcher, an explicit release, close.        *)

Stop ==
    /\ started' = FALSE
    /\ api' = (api /\ ~started)
    /\ gap' = (gap \/ (started /\ Relied))
    /\ UNCHANGED <<conn, observed, cfgVars, callVars, idle, client, pc>>

TimePasses ==
    /\ started /\ ~idle
    /\ idle' = TRUE
    /\ UNCHANGED <<connVars, cfgVars, callVars, started, api, client, closed, cut, pc>>

MayEvict_AnyTime == TRUE
MayEvict == ~Active

WatcherStops == started /\ idle /\ MayEvict /\ Stop /\ UNCHANGED <<closed, cut>>

ReleaseIdle == started /\ MayEvict /\ Stop /\ UNCHANGED <<closed, cut>>

\* shutdown_now, past its grace period: close() asks for no leases.  A job that is
\* still running goes on, and may start the subprocess and its watcher again.
Close ==
    /\ built /\ ~closed
    /\ closed' = TRUE
    /\ cut' = IF started THEN cut \cup {w \in Workers : pc[w] = "calling"} ELSE cut
    /\ Stop

-----------------------------------------------------------------------------
(* update_settings, as far as the MinerU executor takes part in it: apply    *)
(* the connection, store the settings, apply the previous one if the store   *)
(* failed.  The module lock admits one update at a time.                     *)

UpdateAt(next) == upd' = [upd EXCEPT !.pc = next]

UpdateBegin(c) ==
    /\ upd.pc = "none"
    /\ upd' = [pc |-> "check", target |-> c, undo |-> FALSE]
    /\ UNCHANGED <<connVars, procVars, callVars, built, execConn, asked, raced, pc>>

\* MinerUExecutor.configure_settings looks whether an adapter exists ...
UpdateLooks ==
    /\ upd.pc = "check"
    /\ UpdateAt(IF built THEN "executor" ELSE "blind")
    /\ UNCHANGED <<connVars, procVars, callVars, built, execConn, asked, raced, pc>>

\* ... and sets the connection itself if there was none.
UpdateBlind ==
    /\ upd.pc = "blind"
    /\ SetConnection(upd.target)
    /\ raced' = (raced \/ built)
    /\ UpdateAt("executor")
    /\ UNCHANGED <<procVars, callVars, built, execConn, asked, pc>>

AfterConfigure == IF upd.undo THEN "none" ELSE "store"

UpdateExecutor ==
    /\ upd.pc = "executor"
    /\ execConn' = upd.target
    /\ UpdateAt(IF built THEN "adapter" ELSE AfterConfigure)
    /\ UNCHANGED <<connVars, procVars, callVars, built, asked, raced, pc>>

\* A refusal ends the update; during the undo it is swallowed.
UpdateAdapter ==
    /\ upd.pc = "adapter"
    /\ IF Refused(upd.target) THEN UpdateAt("none") /\ UNCHANGED connVars
                              ELSE UpdateAt(AfterConfigure) /\ SetConnection(upd.target)
    /\ UNCHANGED <<procVars, callVars, built, execConn, asked, raced, pc>>

UpdateStored ==
    /\ upd.pc = "store"
    /\ asked' = upd.target
    /\ UpdateAt("none")
    /\ UNCHANGED <<connVars, procVars, callVars, built, execConn, raced, pc>>

StoreFails ==
    /\ upd.pc = "store"
    /\ upd' = [pc |-> "check", target |-> asked, undo |-> TRUE]
    /\ UNCHANGED <<connVars, procVars, callVars, built, execConn, asked, raced, pc>>

Update ==
    \/ \E c \in Conns : UpdateBegin(c)
    \/ UpdateLooks \/ UpdateBlind \/ UpdateExecutor \/ UpdateAdapter
    \/ UpdateStored \/ StoreFails

-----------------------------------------------------------------------------
Init ==
    /\ conn \in Conns /\ execConn = conn /\ asked = conn
    /\ observed = [t \in Tiers |-> NoConn] /\ served = observed
    /\ built \in BOOLEAN /\ raced = FALSE
    /\ closed = FALSE /\ cut = {} /\ gap = FALSE
    /\ started = FALSE /\ idle = FALSE /\ api = FALSE /\ client = FALSE
    /\ pc = [w \in Workers |-> "away"]
    /\ snap = [w \in Workers |-> NoConn] /\ used = snap
    /\ todo = [w \in Workers |-> {}]
    /\ upd = [pc |-> "none", target |-> conn, undo |-> FALSE]

Use(w) ==
    \/ Arrive(w) \/ FindAdapter(w) \/ BuildAdapter(w) \/ ReadSettings(w)
    \/ ConfigureBuilt(w) \/ EnsureStarted(w) \/ StartFails(w) \/ TakeLease(w)
    \/ GetClient(w) \/ NoteConnection(w) \/ FixConnection(w) \/ EnterCall(w)
    \/ Executed(w) \/ Parsed(w) \/ CallFails(w) \/ DropLease(w)

Next ==
    \/ \E w \in Workers : Use(w)
    \/ TimePasses \/ WatcherStops \/ ReleaseIdle \/ Close
    \/ Update

Spec == Init /\ [][Next]_vars

-----------------------------------------------------------------------------
(* Properties                                                                *)

TypeOK ==
    /\ conn \in Conns /\ execConn \in Conns /\ asked \in Conns
    /\ observed \in [Tiers -> Conns \cup {NoConn}]
    /\ served \in [Tiers -> Conns \cup {NoConn}]
    /\ {built, started, idle, api, client, raced, closed, gap} \subseteq BOOLEAN
    /\ cut \subseteq Workers
    /\ pc \in [Workers -> Pcs]
    /\ snap \in [Workers -> Conns \cup {NoConn}]
    /\ used \in [Workers -> Conns \cup {NoConn}]
    /\ todo \in [Workers -> SUBSET Tiers]
    /\ upd \in [pc : UpdatePcs, target : Conns, undo : BOOLEAN]

\* While a call to the local subprocess is in progress nothing but the shutdown stops
\* it: neither the TTL watcher nor a release, although neither knows of the service
\* lock.  Close takes it from the calls it finds, and from none that come later.
ProcessOutlivesTheCall ==
    \A w \in Workers \ cut : pc[w] = "calling" /\ used[w] = Local => api

\* A subprocess that exists is one the adapter knows of, so that its watcher, a release
\* or the shutdown will stop it - unless something came between an ensure_started and
\* the lease, or the call under it (gap): then a call starts one nobody will stop.
ProcessIsOwned == api => started \/ gap

\* The leases decide over the life of the subprocess, on both sides.
LeasesGuardTheProcess == ProcessOutlivesTheCall /\ ProcessIsOwned

\* The connection never moves under a call, whatever settings updates arrive and
\* wherever in its start the call is - as long as no update overtook the construction
\* of the adapter.
CallsKeepTheConnection ==
    ~raced => \A w \in Workers : pc[w] \in {"waiting", "calling"} => used[w] = conn

\* A tier the catalog shows as ready was executed by the connection in force, and
\* not by the one before it, whatever was in flight when the settings changed.
ReadyTiersWereServed ==
    \A t \in Tiers : observed[t] = conn => served[t] = conn

\* A settings update takes effect between calls, and what was seen before it no
\* longer counts.
UpdatesComeBetweenCalls == CallsKeepTheConnection /\ ReadyTiersWereServed

-----------------------------------------------------------------------------
(* What makes the properties inductive (the proofs are in                    *)
(* MineruProofs).                                                     *)

\* A user of the adapter has found it built, and of the client, constructed.
WorkersAreEquipped ==
    \A w \in Workers :
        /\ pc[w] \notin {"away", "asking"} => built
        /\ pc[w] \in {"ready", "waiting", "calling"} => client
        /\ pc[w] = "configuring" => used[w] \in Conns

\* Only a blind update moves the connection after a tier's observation was noted, and
\* there is no second one: by then the adapter is built.
NotesAreDistinct ==
    \A w \in Workers : snap[w] # NoConn =>
        /\ w \in Preloaders /\ pc[w] \in {"ready", "waiting", "calling"}
        /\ pc[w] = "ready" /\ snap[w] # conn => upd.pc # "blind"
        /\ pc[w] \in {"waiting", "calling"} /\ snap[w] # used[w] =>
               used[w] = conn /\ upd.pc # "blind"

\* Without a gap, who relies on ensure_started finds the local subprocess owned, and
\* calls the connection in force.
ReliedIsOwned ==
    /\ started => client
    /\ ~gap => \A w \in Workers :
          /\ pc[w] \in {"started"} \cup Leased /\ conn = Local => started
          /\ pc[w] \in {"waiting", "calling"} => used[w] = conn

IInv ==
    /\ TypeOK /\ WorkersAreEquipped /\ NotesAreDistinct /\ ReliedIsOwned
    /\ ProcessOutlivesTheCall /\ ProcessIsOwned /\ CallsKeepTheConnection /\ ReadyTiersWereServed

=============================================================================
