--------------------------- MODULE SettingsUpdate ---------------------------
(***************************************************************************)
(* How a settings snapshot travels: SupervisorModule.update_settings hands *)
(* it to the child executors in turn, then to the file, then publishes it; *)
(* if the file cannot be replaced it hands the previous snapshot out       *)
(* again.  A child passes the snapshot on to its adapter if that has been  *)
(* built; the first job or preload that needs the adapter builds it.       *)
(***************************************************************************)
EXTENDS Naturals, Sequences

CONSTANTS
    Snapshots,
    Children,    \* the executors of the CompositeExecutor, in its order
    Refusers,    \* those whose adapter may refuse a snapshot
    Recorders,   \* those whose adapter records a snapshot before it may fail
    Validators,  \* those that check a snapshot themselves while there is no adapter
    NotBuilt, Unset

Child == {Children[i] : i \in DOMAIN Children}

ASSUME SettingsAssumption ==
    /\ Children \in Seq(Child)
    /\ Recorders \subseteq Refusers /\ Refusers \cup Validators \subseteq Child
    /\ NotBuilt # Unset /\ {NotBuilt, Unset} \cap Snapshots = {}

VARIABLES
    settings, \* the module's _settings, what settings() answers
    disk,     \* the snapshot in the settings file
    held,     \* each executor's _settings
    adapter,  \* each executor's adapter: not built, built without settings, configured
    build,    \* the thread that builds the adapter: [pc, got]
    upd,      \* the running update: [pc, target, undo, next]
    mishaps   \* history: what happened in this process that an update does not expect

vars == <<settings, disk, held, adapter, build, upd, mishaps>>

NoBuild == [pc |-> "none", got |-> Unset]
NoUpdate == [pc |-> "none", target |-> settings, undo |-> FALSE, next |-> 1]

Building == \E c \in Child : build[c].pc # "none"
Updating == upd.pc # "none"

\* "overlap": an adapter was built during an update.  "refusal": an executor raised.
Mishap(kinds) == mishaps' = mishaps \cup kinds

-----------------------------------------------------------------------------
(* update_settings, under the module lock.                                   *)

UpdateBegin(s) ==
    /\ ~Updating
    /\ Mishap(IF Building THEN {"overlap"} ELSE {})
    /\ upd' = [pc |-> "configure", target |-> s, undo |-> FALSE, next |-> 1]
    /\ UNCHANGED <<settings, disk, held, adapter, build>>

Turn(c) == upd.next <= Len(Children) /\ c = Children[upd.next]

\* AdapterExecutor.configure_settings of the child whose turn it is.
ConfigureExecutor(c) ==
    /\ upd.pc = "configure" /\ Turn(c)
    /\ held' = [held EXCEPT ![c] = upd.target]
    /\ upd' = IF adapter[c] = NotBuilt THEN [upd EXCEPT !.next = @ + 1]
                                       ELSE [upd EXCEPT !.pc = "adapter"]
    /\ UNCHANGED <<settings, disk, adapter, build, mishaps>>

AdapterAccepts(c) ==
    /\ upd.pc = "adapter" /\ Turn(c)
    /\ adapter' = [adapter EXCEPT ![c] = upd.target]
    /\ upd' = [upd EXCEPT !.pc = "configure", !.next = @ + 1]
    /\ UNCHANGED <<settings, disk, held, build, mishaps>>

\* MinerUExecutor applies the connection itself while it has no adapter; an invalid
\* one raises before the executor records the snapshot.
ConnectionInvalid(c) ==
    /\ upd.pc = "configure" /\ Turn(c)
    /\ adapter[c] = NotBuilt /\ c \in Validators
    /\ upd' = NoUpdate
    /\ Mishap({"refusal"})
    /\ UNCHANGED <<settings, disk, held, adapter, build>>

\* The exception leaves update_settings as it is, and ends a rollback silently.
AdapterRefuses(c) ==
    /\ upd.pc = "adapter" /\ Turn(c) /\ c \in Refusers
    /\ \E a \in {adapter[c]} \cup (IF c \in Recorders THEN {upd.target} ELSE {}) :
         adapter' = [adapter EXCEPT ![c] = a]
    /\ upd' = NoUpdate
    /\ Mishap({"refusal"})
    /\ UNCHANGED <<settings, disk, held, build>>

Configured == upd.pc = "configure" /\ upd.next > Len(Children)

RollbackEnds ==
    /\ Configured /\ upd.undo
    /\ upd' = NoUpdate
    /\ UNCHANGED <<settings, disk, held, adapter, build, mishaps>>

Store ==
    /\ Configured /\ ~upd.undo
    /\ disk' = upd.target
    /\ upd' = [upd EXCEPT !.pc = "publish"]
    /\ UNCHANGED <<settings, held, adapter, build, mishaps>>

\* The temporary file never replaces the old one.
Rollback_Skipped == NoUpdate
Rollback == [pc |-> "configure", target |-> settings, undo |-> TRUE, next |-> 1]

StoreFails ==
    /\ Configured /\ ~upd.undo
    /\ upd' = Rollback
    /\ UNCHANGED <<settings, disk, held, adapter, build, mishaps>>

Publish ==
    /\ upd.pc = "publish"
    /\ settings' = upd.target
    /\ upd' = [pc |-> "none", target |-> upd.target, undo |-> FALSE, next |-> 1]
    /\ UNCHANGED <<disk, held, adapter, build, mishaps>>

-----------------------------------------------------------------------------
(* AdapterExecutor.adapter: publish the adapter, read the settings, apply.   *)

Build(c) ==
    /\ adapter[c] = NotBuilt
    /\ Mishap(IF Updating THEN {"overlap"} ELSE {})
    /\ adapter' = [adapter EXCEPT ![c] = Unset]
    /\ build' = [build EXCEPT ![c].pc = "read"]
    /\ UNCHANGED <<settings, disk, held, upd>>

BuildReads(c) ==
    /\ build[c].pc = "read"
    /\ build' = [build EXCEPT ![c] = [pc |-> "apply", got |-> held[c]]]
    /\ UNCHANGED <<settings, disk, held, adapter, upd, mishaps>>

BuildApplies(c) ==
    /\ build[c].pc = "apply"
    /\ adapter' = [adapter EXCEPT ![c] = build[c].got]
    /\ build' = [build EXCEPT ![c] = NoBuild]
    /\ UNCHANGED <<settings, disk, held, upd, mishaps>>

\* The adapter stays published without settings: an update has meanwhile changed the
\* connection, and a thread that found the adapter is using it.
BuildRefused(c) ==
    /\ build[c].pc = "apply" /\ c \in Refusers /\ "overlap" \in mishaps
    /\ build' = [build EXCEPT ![c] = NoBuild]
    /\ Mishap({"refusal"})
    /\ UNCHANGED <<settings, disk, held, adapter, upd>>

\* The supervisor dies and comes back with the settings it finds on disk.
Loaded_Default == CHOOSE s \in Snapshots : s # disk
Loaded == disk

Crash ==
    /\ settings' = Loaded
    /\ held' = [c \in Child |-> Loaded]
    /\ adapter' = [c \in Child |-> NotBuilt]
    /\ build' = [c \in Child |-> NoBuild]
    /\ upd' = [pc |-> "none", target |-> Loaded, undo |-> FALSE, next |-> 1]
    /\ mishaps' = {}
    /\ UNCHANGED disk

-----------------------------------------------------------------------------
Init ==
    /\ settings \in Snapshots /\ disk = settings
    /\ held = [c \in Child |-> settings]
    /\ adapter = [c \in Child |-> NotBuilt]
    /\ build = [c \in Child |-> NoBuild]
    /\ upd = NoUpdate /\ mishaps = {}

Next ==
    \/ \E s \in Snapshots : UpdateBegin(s)
    \/ \E c \in Child :
         \/ ConfigureExecutor(c) \/ ConnectionInvalid(c)
         \/ AdapterAccepts(c) \/ AdapterRefuses(c)
         \/ Build(c) \/ BuildReads(c) \/ BuildApplies(c) \/ BuildRefused(c)
    \/ RollbackEnds \/ Store \/ StoreFails \/ Publish
    \/ Crash

Spec == Init /\ [][Next]_vars

-----------------------------------------------------------------------------
(* Properties                                                                *)

TypeOK ==
    /\ settings \in Snapshots /\ disk \in Snapshots
    /\ held \in [Child -> Snapshots]
    /\ adapter \in [Child -> Snapshots \cup {NotBuilt, Unset}]
    /\ build \in [Child -> [pc : {"none", "read", "apply"}, got : Snapshots \cup {Unset}]]
    /\ upd \in [pc : {"none", "configure", "adapter", "publish"}, target : Snapshots,
                undo : BOOLEAN, next : 1 .. Len(Children) + 1]
    /\ mishaps \subseteq {"overlap", "refusal"}

\* What settings() answers survives a crash at any point: the file never holds
\* anything but the acknowledged snapshot and, between the replacement of the file
\* and the answer, the one about to be acknowledged.  A refusal or a failed store
\* leaves no trace in the file.
AcknowledgedIsDurable ==
    disk = IF upd.pc = "publish" THEN upd.target ELSE settings

\* Between updates the executors and the adapters run on the snapshot settings()
\* answers: whichever step of an update failed, a store or a rollback cut short by a
\* crash included, no part of the service stays on the new settings.
InEffect ==
    ~Updating /\ ~Building =>
        \A c \in Child : held[c] = settings /\ adapter[c] \in {NotBuilt, settings}
SettingsInEffect == mishaps = {} => InEffect

-----------------------------------------------------------------------------
(* What makes SettingsInEffect inductive (the proofs are in                  *)
(* SettingsUpdateProofs).                                                    *)

\* The update has passed the first n executors: they run on its target.
Passed(n) ==
    \A i \in 1 .. Len(Children) : i <= n =>
        /\ held[Children[i]] = upd.target
        /\ adapter[Children[i]] \in {NotBuilt, upd.target}

UpdateOnItsWay ==
    /\ \A c \in Child : build[c].pc = "none"
    /\ Passed(upd.next - 1)
    /\ upd.undo => upd.target = settings
    /\ upd.pc = "adapter" =>
           upd.next <= Len(Children) /\ held[Children[upd.next]] = upd.target
    /\ upd.pc = "publish" => upd.next > Len(Children)

AtRest ==
    \A c \in Child :
        /\ held[c] = settings
        /\ build[c].pc = "none" => adapter[c] \in {NotBuilt, settings}
        /\ build[c].pc = "apply" => build[c].got = settings

NothingUnexpected == mishaps = {} => IF Updating THEN UpdateOnItsWay ELSE AtRest

IInv == TypeOK /\ AcknowledgedIsDurable /\ NothingUnexpected

=============================================================================
