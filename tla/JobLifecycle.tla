---------------------------- MODULE JobLifecycle ----------------------------
(***************************************************************************)
(* The supervisor's recognition jobs: JobRegistry and its JobRecords, the  *)
(* SupervisorModule operations on them (submit, cancel, retry, delete,     *)
(* drain, runtime maintenance, preload) and the worker thread that runs    *)
(* AdapterExecutor.execute for each dispatched job.                        *)
(*                                                                         *)
(* The threads interleave at the reads and writes the code does not        *)
(* protect by a common lock: the executor reads record.state and           *)
(* record.cancel_requested_at with no lock, a canceller holds the registry *)
(* lock but not the module lock, delete holds neither across its steps.    *)
(* submit and retry hold the module lock throughout.                       *)
(***************************************************************************)
EXTENDS JobTable

CONSTANTS
    Cancellers,  \* threads serving POST .../cancel
    Drainer,     \* the thread that runs begin_drain
    MaxPreloads  \* bound on concurrent preload calls

ASSUME ThreadsAssumption ==
    Drainer \notin Cancellers /\ NoJob \notin Cancellers \cup {Drainer} /\ MaxPreloads \in Nat

VARIABLES
    \* JobRecord
    state,       \* record.state, "absent" while the id is unused
    item,        \* the state of each item, "none" for an item not in the job
    outcomes,    \* how many ItemOutcomes were appended for each item
    progress,    \* record.progress_current
    cancelAt,    \* record.cancel_requested_at is set
    source,      \* record.source_job_id
    purged,      \* record.purged
    staged,      \* the items whose input file InputStager still has
    \* AdapterExecutor.execute, one thread per dispatched job
    epc,         \* where the thread is
    todo,        \* items of the compute batches not yet begun
    cur,         \* what is left of the compute batch in progress
    got,         \* items of the adapter call in progress, or of its answer
    holder,      \* the job that has the device lease
    \* JobRegistry.request_cancel, one call per thread
    cpc, cjob, cmode,
    rlock,       \* the thread inside request_cancel's registry lock
    \* SupervisorModule
    rpc, rsrc, rjob,      \* the retry that holds the module lock
    dpc, djob,            \* the delete in progress
    draining, drainTodo,  \* begin_drain: the flag, and the records not visited
    maintenance, preloads

recordVars == <<state, item, outcomes, progress, cancelAt, source, purged, staged>>
execVars == <<epc, todo, cur, got, holder>>
cancelVars == <<cpc, cjob, cmode, rlock>>
retryVars == <<rpc, rsrc, rjob>>
deleteVars == <<dpc, djob>>
moduleVars == <<draining, drainTodo, maintenance, preloads>>
vars == <<recordVars, execVars, cancelVars, retryVars, deleteVars, moduleVars>>

Threads == Cancellers \cup {Drainer}
NoThread == NoJob

ExecPcs == {"none", "start", "entered", "toRunning", "checkCancel", "cancelAtStart",
            "plan", "loop", "waiting", "infer", "calling", "commit", "committing",
            "final", "toCancelReq", "toCancelled", "finish", "raised",
            "done"}

Min2(a, b) == IF a <= b THEN a ELSE b

Terminal(j) == state[j] \in TerminalJobStates
Open(j) == state[j] \in OpenJobStates
ItemsOf(j) == {i \in Items : item[j][i] # "none"}
ItemsIn(j, S) == {i \in Items : item[j][i] \in S}
Retryable(j) == ItemsIn(j, {"failed", "cancelled"})

\* assert_job_transition, and a version that validates nothing.
CanTransition_Unchecked(from, to) == TRUE
CanTransition(from, to) == <<from, to>> \in JobTransitions

\* registry.get: no thread is inside the registry lock, and the job is there.
ModuleLockFree == rpc = "idle"
Known(j) == rlock = NoThread /\ state[j] # "absent" /\ ~purged[j]

-----------------------------------------------------------------------------
(* Item outcomes: an item reaches a terminal state, one outcome is appended  *)
(* and progress_current grows, all under the record lock.                    *)

CommitAll(j, S, target) ==
    /\ item' = [item EXCEPT ![j] = [i \in Items |-> IF i \in S THEN target ELSE item[j][i]]]
    /\ outcomes' = [outcomes EXCEPT ![j] =
                       [i \in Items |-> outcomes[j][i] + (IF i \in S THEN 1 ELSE 0)]]
    /\ progress' = [progress EXCEPT ![j] =
                       Min2(progress[j] + Cardinality(S), Cardinality(ItemsOf(j)))]

-----------------------------------------------------------------------------
(* SupervisorModule.submit                                                   *)

\* An item born failed counts at admission (commit_item_failure with no outcome yet).
AdmissionProgress(B) == Cardinality(B)

MayAdmit == ModuleLockFree /\ ~draining /\ ~maintenance

\* S are the uploads, B those over the per-file limit: they are born failed
\* and get their outcome here.  The id is not known to any other thread yet, so
\* create, the transition to queued and the dispatch are one step.
Submit(j, S, B) ==
    /\ MayAdmit /\ rlock = NoThread
    /\ state[j] = "absent"
    /\ S # {} /\ B \subseteq S
    /\ state' = [state EXCEPT ![j] = "queued"]
    /\ item' = [item EXCEPT ![j] = [i \in Items |-> IF i \in B THEN "failed"
                                                    ELSE IF i \in S THEN "queued" ELSE "none"]]
    /\ outcomes' = [outcomes EXCEPT ![j] = [i \in Items |-> IF i \in B THEN 1 ELSE 0]]
    /\ progress' = [progress EXCEPT ![j] = AdmissionProgress(B)]
    /\ staged' = [staged EXCEPT ![j] = S \ B]
    /\ epc' = [epc EXCEPT ![j] = "start"]
    /\ todo' = [todo EXCEPT ![j] = S \ B]
    /\ UNCHANGED <<cancelAt, source, purged, cur, got, holder,
                   cancelVars, retryVars, deleteVars, moduleVars>>

-----------------------------------------------------------------------------
(* AdapterExecutor.execute on the worker thread of job j.  An exception ends *)
(* the call and reaches the handler of _dispatch's _run ("raised").          *)

Goto(j, pc) == epc' = [epc EXCEPT ![j] = pc]

\* record.transition(target): refused transitions raise.
Move(j, target, next) ==
    /\ IF CanTransition(state[j], target)
       THEN state' = [state EXCEPT ![j] = target] /\ Goto(j, next)
       ELSE UNCHANGED state /\ Goto(j, "raised")
    /\ UNCHANGED <<item, outcomes, progress, cancelAt, source, purged, staged,
                   todo, cur, got, holder>>

\* A step of the thread that only reads the record.
Look(j, next) == Goto(j, next) /\ UNCHANGED <<recordVars, todo, cur, got, holder>>

\* The three reads of record.state that open execute are separate: the record
\* may change between them.
ExecEnter(j) ==
    /\ epc[j] = "start"
    /\ Look(j, IF Terminal(j) THEN "done" ELSE "entered")

ExecReadQueued(j) ==
    /\ epc[j] = "entered"
    /\ Look(j, IF state[j] = "queued" THEN "toRunning" ELSE "checkCancel")

ExecRun(j) == epc[j] = "toRunning" /\ Move(j, "running", "checkCancel")

ExecReadCancel(j) ==
    /\ epc[j] = "checkCancel"
    /\ Look(j, IF state[j] = "cancel_requested" THEN "cancelAtStart" ELSE "plan")

ExecCancelAtStart(j) == epc[j] = "cancelAtStart" /\ Move(j, "cancelled", "done")

\* Building the adapter or reading a staged file may raise.
ExecPlan(j) ==
    /\ epc[j] = "plan"
    /\ Look(j, "loop") \/ Look(j, "raised")

ExecLoop(j) ==
    /\ epc[j] = "loop"
    /\ Look(j, IF todo[j] = {} \/ cancelAt[j] THEN "final" ELSE "waiting")

\* scheduler.acquire: the lease of a compute batch C, or nothing after a cancel.
ExecAcquire(j, C) ==
    /\ epc[j] = "waiting" /\ ~cancelAt[j] /\ holder = NoJob
    /\ C # {} /\ C \subseteq todo[j]
    /\ holder' = j
    /\ cur' = [cur EXCEPT ![j] = C]
    /\ todo' = [todo EXCEPT ![j] = @ \ C]
    /\ Goto(j, "infer")
    /\ UNCHANGED <<recordVars, got>>

ExecAcquireCancelled(j) ==
    /\ epc[j] = "waiting" /\ cancelAt[j]
    /\ Look(j, "final")

\* One run of adapter.recognize_many on a part S of the batch: recovery splits,
\* shrinks and retries batches (module BatchRecovery), and returns with nothing
\* done once a cancel was requested.
ExecCall(j, S) ==
    /\ epc[j] = "infer" /\ ~cancelAt[j]
    /\ S # {} /\ S \subseteq cur[j]
    /\ got' = [got EXCEPT ![j] = S]
    /\ cur' = [cur EXCEPT ![j] = @ \ S]
    /\ Goto(j, "calling")
    /\ UNCHANGED <<recordVars, todo, holder>>

\* A cancel seen on re-entry after a failed attempt: the items are left alone.
ExecAbandon(j) ==
    /\ epc[j] = "calling" /\ cancelAt[j]
    /\ got' = [got EXCEPT ![j] = {}]
    /\ Goto(j, "infer")
    /\ UNCHANGED <<recordVars, todo, cur, holder>>

\* _fail_items: the engine refused, recovery gave up, or the answer has the
\* wrong length.  Items that already have an outcome are skipped.
ExecFailItems(j) ==
    /\ epc[j] = "calling"
    /\ CommitAll(j, {i \in got[j] : item[j][i] \in OpenItemStates}, "failed")
    /\ got' = [got EXCEPT ![j] = {}]
    /\ Goto(j, "infer")
    /\ UNCHANGED <<state, cancelAt, source, purged, staged, todo, cur, holder>>

\* The call answered: the loop over the payloads looks at the cancel before each.
ExecNextPayload(j) ==
    /\ epc[j] \in {"calling", "commit"}
    /\ IF got[j] = {} \/ cancelAt[j]
       THEN got' = [got EXCEPT ![j] = {}] /\ Goto(j, "infer")
       ELSE UNCHANGED got /\ Goto(j, "committing")
    /\ UNCHANGED <<recordVars, todo, cur, holder>>

\* commit_item_success, or commit_item_failure for an empty payload.
ExecCommit(j, i, target) ==
    /\ epc[j] = "committing"
    /\ i \in got[j] /\ target \in {"succeeded", "failed"}
    /\ CommitAll(j, {i}, target)
    /\ got' = [got EXCEPT ![j] = @ \ {i}]
    /\ Goto(j, "commit")
    /\ UNCHANGED <<state, cancelAt, source, purged, staged, todo, cur, holder>>

\* The batch is over; the lease goes back in the finally clause.
ReleaseLease_Kept(j) == holder' = holder
ReleaseLease(j) == holder' = IF holder = j THEN NoJob ELSE holder

ExecRelease(j) ==
    /\ epc[j] = "infer"
    /\ cur[j] = {} \/ cancelAt[j]
    /\ cur' = [cur EXCEPT ![j] = {}]
    /\ ReleaseLease(j)
    /\ Goto(j, "loop")
    /\ UNCHANGED <<recordVars, todo, got>>

HonourCancel_Dropped(j) == FALSE
HonourCancel(j) == cancelAt[j] /\ ~Terminal(j)

\* A cancel requested during the run: what is not terminal is cancelled.
CancelOpenItems_Unfiltered(j) == CommitAll(j, ItemsOf(j), "cancelled")
CancelOpenItems(j) == CommitAll(j, ItemsIn(j, OpenItemStates), "cancelled")

ExecFinalCancel(j) ==
    /\ epc[j] = "final" /\ HonourCancel(j)
    /\ CancelOpenItems(j)
    /\ Goto(j, IF state[j] = "cancel_requested" THEN "toCancelled" ELSE "toCancelReq")
    /\ UNCHANGED <<state, cancelAt, source, purged, staged, todo, cur, got, holder>>

ExecFinal(j) ==
    /\ epc[j] = "final" /\ ~HonourCancel(j)
    /\ Look(j, IF Terminal(j) THEN "done" ELSE "finish")

ExecCancelRequested(j) == epc[j] = "toCancelReq" /\ Move(j, "cancel_requested", "toCancelled")

ExecCancelled(j) == epc[j] = "toCancelled" /\ Move(j, "cancelled", "done")

\* The verdict on a job that was not cancelled.
Verdict(j) ==
    IF ItemsIn(j, {"failed"}) = {} THEN "completed"
    ELSE IF ItemsIn(j, {"succeeded"}) = {} THEN "failed"
    ELSE "completed_with_errors"

ExecFinish(j) == epc[j] = "finish" /\ Move(j, Verdict(j), "done")

\* _run's handler fails a job that is not terminal; a second exception is swallowed.
ExecRaised(j) ==
    /\ epc[j] = "raised"
    /\ state' = IF CanTransition(state[j], "failed")
                THEN [state EXCEPT ![j] = "failed"] ELSE state
    /\ Goto(j, "done")
    /\ UNCHANGED <<item, outcomes, progress, cancelAt, source, purged, staged,
                   todo, cur, got, holder>>

ExecStep(j) ==
    /\ \/ ExecEnter(j) \/ ExecReadQueued(j) \/ ExecRun(j) \/ ExecReadCancel(j)
       \/ ExecCancelAtStart(j) \/ ExecPlan(j) \/ ExecLoop(j)
       \/ \E C \in SUBSET Items : ExecAcquire(j, C)
       \/ ExecAcquireCancelled(j)
       \/ \E S \in SUBSET Items : ExecCall(j, S)
       \/ ExecAbandon(j) \/ ExecFailItems(j) \/ ExecNextPayload(j)
       \/ \E i \in Items, target \in {"succeeded", "failed"} : ExecCommit(j, i, target)
       \/ ExecRelease(j) \/ ExecFinalCancel(j) \/ ExecFinal(j)
       \/ ExecCancelRequested(j) \/ ExecCancelled(j) \/ ExecFinish(j)
       \/ ExecRaised(j)
    /\ UNCHANGED <<cancelVars, retryVars, deleteVars, moduleVars>>

-----------------------------------------------------------------------------
(* request_cancel.  A canceller reads the mode with no lock held and then    *)
(* enters the registry lock with it; begin_drain does the same with a record *)
(* it read as queued.  A client knows only the ids submit and retry returned.  *)

CancelModeFor(j) == IF state[j] = "queued" THEN "queued_only" ELSE "cooperative"

CancelBegin(c, j) ==
    /\ cpc[c] = "idle" /\ Known(j) /\ ~Terminal(j)
    /\ epc[j] # "none"
    /\ cpc' = [cpc EXCEPT ![c] = "request"]
    /\ cjob' = [cjob EXCEPT ![c] = j]
    /\ cmode' = [cmode EXCEPT ![c] = CancelModeFor(j)]
    /\ UNCHANGED <<recordVars, rlock, drainTodo>>

CancelReturn(c) ==
    /\ cpc' = [cpc EXCEPT ![c] = "idle"]
    /\ cjob' = [cjob EXCEPT ![c] = NoJob]
    /\ cmode' = [cmode EXCEPT ![c] = "cooperative"]

\* Inside the lock: a purged or terminal job ends the call, otherwise the
\* request is recorded.
CancelMark(c) ==
    LET j == cjob[c] IN
    /\ cpc[c] = "request" /\ rlock = NoThread
    /\ IF purged[j] \/ Terminal(j)
       THEN CancelReturn(c) /\ UNCHANGED <<cancelAt, rlock>>
       ELSE /\ cancelAt' = [cancelAt EXCEPT ![j] = TRUE]
            /\ rlock' = c
            /\ cpc' = [cpc EXCEPT ![c] = "marked"]
            /\ UNCHANGED <<cjob, cmode>>
    /\ UNCHANGED <<state, item, outcomes, progress, source, purged, staged, drainTodo>>

\* The second look at the record decides whether there is anything to move.
CancelLook(c) ==
    /\ cpc[c] = "marked"
    /\ IF cmode[c] = "queued_only" \/ state[cjob[c]] \in {"running", "queued", "accepted"}
       THEN cpc' = [cpc EXCEPT ![c] = "moving"] /\ UNCHANGED <<cjob, cmode, rlock>>
       ELSE CancelReturn(c) /\ rlock' = NoThread
    /\ UNCHANGED <<recordVars, drainTodo>>

\* queued_only goes straight to cancelled, the others to cancel_requested; a
\* refused transition raises to the caller.
CancelMove(c) ==
    LET j == cjob[c]
        target == IF cmode[c] = "queued_only" THEN "cancelled" ELSE "cancel_requested"
    IN
    /\ cpc[c] = "moving"
    /\ state' = IF CanTransition(state[j], target)
                THEN [state EXCEPT ![j] = target] ELSE state
    /\ CancelReturn(c) /\ rlock' = NoThread
    /\ UNCHANGED <<item, outcomes, progress, cancelAt, source, purged, staged, drainTodo>>

\* begin_drain looks at the records one after the other.
DrainVisit(j) ==
    /\ j \in drainTodo /\ cpc[Drainer] = "idle" /\ rlock = NoThread
    /\ drainTodo' = drainTodo \ {j}
    /\ IF state[j] = "queued"
       THEN /\ cpc' = [cpc EXCEPT ![Drainer] = "request"]
            /\ cjob' = [cjob EXCEPT ![Drainer] = j]
            /\ cmode' = [cmode EXCEPT ![Drainer] = "queued_only"]
       ELSE UNCHANGED <<cpc, cjob, cmode>>
    /\ UNCHANGED <<recordVars, rlock>>

CancelStep ==
    /\ \/ \E c \in Cancellers, j \in Jobs : CancelBegin(c, j)
       \/ \E c \in Threads : CancelMark(c) \/ CancelLook(c) \/ CancelMove(c)
       \/ \E j \in Jobs : DrainVisit(j)
    /\ UNCHANGED <<execVars, retryVars, deleteVars, draining, maintenance, preloads>>

-----------------------------------------------------------------------------
(* SupervisorModule: retry and delete, drain, maintenance and preload.       *)

RetrySource_AnyState(s) == Retryable(s) # {} /\ Retryable(s) \subseteq staged[s]
RetrySource(s) == Terminal(s) /\ Retryable(s) # {} /\ Retryable(s) \subseteq staged[s]

\* retry, under the module lock from here to its end: the source is terminal
\* and every item to retry still has its input.
RetryBegin(s) ==
    /\ MayAdmit /\ Known(s) /\ RetrySource(s)
    /\ rpc' = "checked" /\ rsrc' = s /\ rjob' = NoJob
    /\ UNCHANGED <<recordVars, execVars, cancelVars, deleteVars, moduleVars>>

\* create_retry inserts an accepted record; a source purged meanwhile raises.
RetryCreate(n) ==
    /\ rpc = "checked" /\ rlock = NoThread /\ ~purged[rsrc]
    /\ state[n] = "absent"
    /\ state' = [state EXCEPT ![n] = "accepted"]
    /\ item' = [item EXCEPT ![n] = [i \in Items |-> IF i \in Retryable(rsrc) THEN "queued"
                                                    ELSE "none"]]
    /\ source' = [source EXCEPT ![n] = rsrc]
    /\ rpc' = "created" /\ rjob' = n
    /\ UNCHANGED <<outcomes, progress, cancelAt, purged, staged, rsrc,
                   execVars, cancelVars, deleteVars, moduleVars>>

\* clone_for_retry copies the inputs, then the job is queued and dispatched.
RetryClone ==
    /\ rpc = "created" /\ ItemsOf(rjob) \subseteq staged[rsrc]
    /\ staged' = [staged EXCEPT ![rjob] = ItemsOf(rjob)]
    /\ state' = IF CanTransition(state[rjob], "queued")
                THEN [state EXCEPT ![rjob] = "queued"] ELSE state
    /\ epc' = [epc EXCEPT ![rjob] = "start"]
    /\ todo' = [todo EXCEPT ![rjob] = ItemsOf(rjob)]
    /\ rpc' = "idle" /\ rsrc' = NoJob /\ rjob' = NoJob
    /\ UNCHANGED <<item, outcomes, progress, cancelAt, source, purged, cur, got, holder,
                   cancelVars, deleteVars, moduleVars>>

\* The source was purged, its inputs are gone, or a copy failed: the caller gets
\* the error, and a record already created stays accepted.
RetryFail ==
    /\ \/ rpc = "checked" /\ purged[rsrc]
       \/ rpc = "created"
    /\ rpc' = "idle" /\ rsrc' = NoJob /\ rjob' = NoJob
    /\ UNCHANGED <<recordVars, execVars, cancelVars, deleteVars, moduleVars>>

\* delete: the inputs go first, the record is purged in a later step.
DeleteRelease(j) ==
    /\ dpc = "idle" /\ Known(j) /\ Terminal(j)
    /\ staged' = [staged EXCEPT ![j] = {}]
    /\ dpc' = "released" /\ djob' = j
    /\ UNCHANGED <<state, item, outcomes, progress, cancelAt, source, purged,
                   execVars, cancelVars, retryVars, moduleVars>>

DeletePurge ==
    /\ dpc = "released" /\ rlock = NoThread
    /\ purged' = [purged EXCEPT ![djob] = Terminal(djob) \/ @]
    /\ dpc' = "idle" /\ djob' = NoJob
    /\ UNCHANGED <<state, item, outcomes, progress, cancelAt, source, staged,
                   execVars, cancelVars, retryVars, moduleVars>>

\* begin_drain: the flag under the module lock, then the list of records.
DrainMayBegin == ModuleLockFree /\ ~draining

DrainBegin ==
    /\ DrainMayBegin
    /\ draining' = TRUE
    /\ drainTodo' = {j \in Jobs : state[j] # "absent"}
    /\ UNCHANGED <<maintenance, preloads,
                   recordVars, execVars, cancelVars, retryVars, deleteVars>>

\* runtime_maintenance_blockers = ().
NoBlockers_RunningOnly == ~maintenance /\ preloads = 0 /\ \A j \in Jobs : state[j] # "running"
NoBlockers == ~maintenance /\ preloads = 0 /\ \A j \in Jobs : ~Open(j)

MaintenanceBegin ==
    /\ ModuleLockFree /\ rlock = NoThread /\ NoBlockers
    /\ maintenance' = TRUE
    /\ UNCHANGED <<draining, drainTodo, preloads,
                   recordVars, execVars, cancelVars, retryVars, deleteVars>>

MaintenanceEnd ==
    /\ ModuleLockFree /\ maintenance
    /\ maintenance' = FALSE
    /\ UNCHANGED <<draining, drainTodo, preloads,
                   recordVars, execVars, cancelVars, retryVars, deleteVars>>

PreloadBegin ==
    /\ ModuleLockFree /\ ~maintenance
    /\ preloads < MaxPreloads
    /\ preloads' = preloads + 1
    /\ UNCHANGED <<draining, drainTodo, maintenance,
                   recordVars, execVars, cancelVars, retryVars, deleteVars>>

\* The finally clause gives back one count per count taken.
PreloadHeld == preloads > 0

PreloadEnd ==
    /\ ModuleLockFree /\ PreloadHeld
    /\ preloads' = preloads - 1
    /\ UNCHANGED <<draining, drainTodo, maintenance,
                   recordVars, execVars, cancelVars, retryVars, deleteVars>>

ModuleStep ==
    \/ \E j \in Jobs, S \in SUBSET Items, B \in SUBSET Items : Submit(j, S, B)
    \/ \E s \in Jobs : RetryBegin(s)
    \/ \E n \in Jobs : RetryCreate(n)
    \/ RetryClone \/ RetryFail
    \/ \E j \in Jobs : DeleteRelease(j)
    \/ DeletePurge \/ DrainBegin
    \/ MaintenanceBegin \/ MaintenanceEnd \/ PreloadBegin \/ PreloadEnd

-----------------------------------------------------------------------------
Init ==
    /\ state = [j \in Jobs |-> "absent"]
    /\ item = [j \in Jobs |-> [i \in Items |-> "none"]]
    /\ outcomes = [j \in Jobs |-> [i \in Items |-> 0]]
    /\ progress = [j \in Jobs |-> 0]
    /\ cancelAt = [j \in Jobs |-> FALSE]
    /\ source = [j \in Jobs |-> NoJob]
    /\ purged = [j \in Jobs |-> FALSE]
    /\ staged = [j \in Jobs |-> {}]
    /\ epc = [j \in Jobs |-> "none"]
    /\ todo = [j \in Jobs |-> {}]
    /\ cur = [j \in Jobs |-> {}]
    /\ got = [j \in Jobs |-> {}]
    /\ holder = NoJob
    /\ cpc = [c \in Threads |-> "idle"]
    /\ cjob = [c \in Threads |-> NoJob]
    /\ cmode = [c \in Threads |-> "cooperative"]
    /\ rlock = NoThread
    /\ rpc = "idle" /\ rsrc = NoJob /\ rjob = NoJob
    /\ dpc = "idle" /\ djob = NoJob
    /\ draining = FALSE /\ drainTodo = {}
    /\ maintenance = FALSE /\ preloads = 0

Next == (\E j \in Jobs : ExecStep(j)) \/ CancelStep \/ ModuleStep

Spec == Init /\ [][Next]_vars

\* Worker threads are scheduled, adapter calls return (they carry deadlines), and
\* a waiter is not passed over for ever: DeviceScheduler's NoStarvation.
FairSpec ==
    /\ Spec
    /\ \A j \in Jobs : SF_vars(ExecStep(j))

-----------------------------------------------------------------------------
(* Properties                                                                *)

TypeOK ==
    /\ state \in [Jobs -> JobStates \cup {"absent"}]
    /\ item \in [Jobs -> [Items -> ItemStates \cup {"none"}]]
    /\ outcomes \in [Jobs -> [Items -> Nat]]
    /\ progress \in [Jobs -> Nat]
    /\ cancelAt \in [Jobs -> BOOLEAN]
    /\ source \in [Jobs -> Jobs \cup {NoJob}]
    /\ purged \in [Jobs -> BOOLEAN]
    /\ staged \in [Jobs -> SUBSET Items]
    /\ epc \in [Jobs -> ExecPcs]
    /\ todo \in [Jobs -> SUBSET Items]
    /\ cur \in [Jobs -> SUBSET Items]
    /\ got \in [Jobs -> SUBSET Items]
    /\ holder \in Jobs \cup {NoJob}
    /\ cpc \in [Threads -> {"idle", "request", "marked", "moving"}]
    /\ cjob \in [Threads -> Jobs \cup {NoJob}]
    /\ cmode \in [Threads -> {"queued_only", "cooperative"}]
    /\ rlock \in Threads \cup {NoThread}
    /\ rpc \in {"idle", "checked", "created"}
    /\ rsrc \in Jobs \cup {NoJob} /\ rjob \in Jobs \cup {NoJob}
    /\ dpc \in {"idle", "released"} /\ djob \in Jobs \cup {NoJob}
    /\ draining \in BOOLEAN /\ drainTodo \subseteq Jobs
    /\ maintenance \in BOOLEAN /\ preloads \in Nat

\* Whatever cancels, drains and executors race, a terminal job keeps its state and
\* a terminal item keeps its own (registry: "terminal jobs never return to
\* non-terminal states").
TerminalIsFinal ==
    [][\A j \in Jobs :
         /\ Terminal(j) => state'[j] = state[j]
         /\ \A i \in Items : item[j][i] \in TerminalItemStates => item'[j][i] = item[j][i]]_vars

\* The verdict a client reads is the truth about the items, at the moment it is
\* reported and for ever after: a completed job has succeeded in every item, one
\* completed with errors has settled every item and both kinds occur.
VerdictMatchesItems ==
    \A j \in Jobs :
      /\ state[j] = "completed" => ItemsIn(j, {"succeeded"}) = ItemsOf(j)
      /\ state[j] = "completed_with_errors" =>
           /\ ItemsIn(j, {"succeeded", "failed"}) = ItemsOf(j)
           /\ ItemsIn(j, {"succeeded"}) # {} /\ ItemsIn(j, {"failed"}) # {}

\* An item has one outcome when it is terminal and none before, whichever of
\* admission, recovery, the answer loop and the cancel wrote it.
OneOutcomePerItem ==
    \A j \in Jobs, i \in Items :
      outcomes[j][i] = IF item[j][i] \in TerminalItemStates THEN 1 ELSE 0

\* What a client is told of a job is the truth: the verdict agrees with the items,
\* and each item with its one outcome.
OutcomesAreTrue == VerdictMatchesItems /\ OneOutcomePerItem

\* run_runtime_maintenance replaces the runtime only while no job and no preload
\* is active, although submit, retry and preload run on other threads.
MaintenanceExcludesWork ==
    maintenance => preloads = 0 /\ \A j \in Jobs : ~Open(j)

\* A retry works only on what failed or was cancelled in a finished job, and the
\* source never changes its mind about those items.
RetryOfUnsuccessfulItems ==
    \A n \in Jobs : source[n] # NoJob =>
      /\ Terminal(source[n])
      /\ ItemsOf(n) \subseteq ItemsIn(source[n], {"failed", "cancelled"})

\* Every dispatched job reaches a terminal state.
DispatchedJobEnds ==
    \A j \in Jobs : (epc[j] = "start") ~> Terminal(j)

-----------------------------------------------------------------------------
(* What makes the properties inductive (the proofs are in                    *)
(* JobLifecycleProofs).                                                      *)

\* An unused id has left no trace.
UnbornJobs ==
    \A j \in Jobs : state[j] = "absent" =>
      /\ epc[j] = "none" /\ source[j] = NoJob
      /\ \A i \in Items : item[j][i] = "none"

\* Until the thread settles the rest, what it still has to do is queued, and no
\* item is in two of its work lists.
WorkIsQueued ==
    \A j \in Jobs :
      /\ epc[j] \in ExecPcs \ {"toCancelReq", "toCancelled", "finish", "raised", "done"} =>
           \A i \in todo[j] \cup cur[j] \cup got[j] : item[j][i] = "queued"
      /\ epc[j] = "none" => todo[j] = {} /\ cur[j] = {} /\ got[j] = {}
      /\ todo[j] \cap cur[j] = {} /\ todo[j] \cap got[j] = {} /\ cur[j] \cap got[j] = {}

\* The retry in progress keeps the module lock, so its checks stay true.
RetryChecksHold ==
    /\ rpc # "idle" => ~maintenance /\ rsrc \in Jobs /\ Terminal(rsrc)
    /\ rpc = "created" => rjob \in Jobs /\ epc[rjob] = "none" /\ state[rjob] # "absent"
                            /\ \A i \in ItemsOf(rjob) : item[rjob][i] = "queued"

\* A thread whose job is not cancelled loses no item on its way to the verdict: what
\* is not settled is in one of its work lists, and these run empty in turn.
Beginning == {"start", "entered", "toRunning", "checkCancel", "cancelAtStart", "plan",
              "loop", "waiting"}

SettledOrListed(j) ==
    \A i \in Items : \/ item[j][i] \in {"none", "succeeded", "failed"}
                    \/ i \in todo[j] \cup cur[j] \cup got[j]

NothingIsLeft ==
    \A j \in Jobs :
      /\ ~cancelAt[j] /\ epc[j] \in Beginning =>
           SettledOrListed(j) /\ cur[j] = {} /\ got[j] = {}
      /\ ~cancelAt[j] /\ epc[j] = "infer" => SettledOrListed(j) /\ got[j] = {}
      /\ ~cancelAt[j] /\ epc[j] \in {"calling", "commit", "committing"} => SettledOrListed(j)
      /\ (~cancelAt[j] /\ epc[j] = "final") \/ epc[j] = "finish" =>
           \A i \in Items : item[j][i] \in {"none", "succeeded", "failed"}

IInv ==
    /\ TypeOK /\ UnbornJobs /\ WorkIsQueued /\ RetryChecksHold
    /\ OneOutcomePerItem /\ MaintenanceExcludesWork /\ RetryOfUnsuccessfulItems
=============================================================================
