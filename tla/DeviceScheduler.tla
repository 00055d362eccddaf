--------------------------- MODULE DeviceScheduler ---------------------------
(***************************************************************************)
(* DeviceScheduler: one exclusive lease per device, a priority queue with  *)
(* aging in front of it, and the worker threads that call acquire and      *)
(* release around each compute batch.  Every method holds the scheduler's  *)
(* lock, so a method is a step, except acquire: it enqueues in one         *)
(* critical section and then polls in another, waiting in between.         *)
(***************************************************************************)
EXTENDS Naturals

CONSTANTS
    Jobs, Devices, NoJob,
    Interactive,    \* the jobs submitted with JobPriority.INTERACTIVE
    AgeSteps,       \* aging intervals that take a background job to priority 0.0
    Droppers        \* whether somebody calls cancel(job) and drain() from outside

ASSUME SchedulerAssumption ==
    /\ NoJob \notin Jobs
    /\ Interactive \subseteq Jobs
    /\ AgeSteps \in Nat \ {0}
    /\ Droppers \in BOOLEAN

VARIABLES
    heap,      \* the jobs with an entry in _queue
    enqueued,  \* the keys of _enqueued_at
    ahead,     \* for each entry, the entries with a smaller sequence number
    age,       \* full aging intervals since _enqueued_at, at most AgeSteps
    cancelled, \* _cancelled
    lease,     \* _leases
    dev,       \* the device a thread asks for
    pc,        \* the thread of the job, around and inside acquire
    stop       \* what the cancelled() callback of the job answers

queueVars == <<heap, enqueued, ahead, age, cancelled>>
schedulerVars == <<queueVars, lease, dev, pc, stop>>

\* "left": the job's batch loop is over.
Pcs == {"idle", "asking", "polling", "running", "left"}

Goto(j, next) == pc' = [pc EXCEPT ![j] = next]

\* _remove_from_heap for the jobs of S.
RemoveFromHeap(S) ==
    /\ heap' = heap \ S
    /\ ahead' = [j \in Jobs |-> IF j \in S THEN {} ELSE ahead[j] \ S]

-----------------------------------------------------------------------------
(* Priority.  effective_priority in units of a tenth: an interactive job is  *)
(* 0, a background job loses one unit per aging interval and stops at 0.     *)

EffectivePriority_Frozen(j) == IF j \in Interactive THEN 0 ELSE AgeSteps
EffectivePriority(j) == IF j \in Interactive THEN 0 ELSE AgeSteps - age[j]

\* The order of _current_key, recomputed at each look.
KeyBefore(j, k) ==
    \/ EffectivePriority(j) < EffectivePriority(k)
    \/ EffectivePriority(j) = EffectivePriority(k) /\ j \in ahead[k]

Candidates(d) == {j \in heap \ cancelled : dev[j] = d}

\* next_job_for(d) = j
NextJobFor(d, j) ==
    j \in Candidates(d) /\ \A k \in Candidates(d) \ {j} : KeyBefore(j, k)

-----------------------------------------------------------------------------
(* The executor's loop over compute batches: it leaves when it has no batch  *)
(* left or its job was cancelled, and asks for a lease otherwise.            *)

Ask(j, d) ==
    /\ pc[j] = "idle" /\ ~stop[j]
    /\ dev' = [dev EXCEPT ![j] = d]
    /\ Goto(j, "asking")
    /\ UNCHANGED <<queueVars, lease, stop>>

Leave(j) ==
    /\ pc[j] = "idle"
    /\ Goto(j, "left")
    /\ UNCHANGED <<queueVars, lease, dev, stop>>

\* enqueue, from acquire; the id has no entry yet, each job asks in one thread.
Enqueue(j) ==
    /\ pc[j] = "asking" /\ j \notin enqueued
    /\ enqueued' = enqueued \cup {j}
    /\ cancelled' = cancelled \ {j}
    /\ heap' = heap \cup {j}
    /\ ahead' = [ahead EXCEPT ![j] = heap]
    /\ age' = [age EXCEPT ![j] = 0]
    /\ Goto(j, "polling")
    /\ UNCHANGED <<lease, dev, stop>>

\* cancel(j): only what is enqueued is dropped and remembered as cancelled.
DropJobs(S) ==
    /\ enqueued' = enqueued \ S
    /\ cancelled' = cancelled \cup (S \cap enqueued)
    /\ RemoveFromHeap(S \cap enqueued)
    /\ UNCHANGED age

\* One turn of the loop in acquire, under the lock: the callback first.
PollStop(j) ==
    /\ pc[j] = "polling" /\ stop[j]
    /\ DropJobs({j})
    /\ Goto(j, "left")
    /\ UNCHANGED <<lease, dev, stop>>

\* try_acquire of a dropped job forgets the drop, and the loop goes on.
PollDropped(j) ==
    /\ pc[j] = "polling" /\ ~stop[j] /\ j \in cancelled
    /\ cancelled' = cancelled \ {j}
    /\ RemoveFromHeap({j})
    /\ UNCHANGED <<enqueued, age, lease, dev, pc, stop>>

DeviceFree(d) == lease[d] = NoJob

\* try_acquire of the queue head while the device is free.
Grant(j) ==
    /\ pc[j] = "polling" /\ ~stop[j] /\ j \notin cancelled
    /\ DeviceFree(dev[j])
    /\ j \in enqueued /\ NextJobFor(dev[j], j)
    /\ lease' = [lease EXCEPT ![dev[j]] = j]
    /\ enqueued' = enqueued \ {j}
    /\ RemoveFromHeap({j})
    /\ Goto(j, "running")
    /\ UNCHANGED <<cancelled, age, dev, stop>>

\* release, in the finally clause of the batch: only the owner frees the device.
FreeDevice(j) == IF lease[dev[j]] = j THEN [lease EXCEPT ![dev[j]] = NoJob] ELSE lease

Release(j) ==
    /\ pc[j] = "running"
    /\ lease' = FreeDevice(j)
    /\ Goto(j, "idle")
    /\ UNCHANGED <<queueVars, dev, stop>>

-----------------------------------------------------------------------------
(* Around the threads: a cancel of the job, the scheduler's own cancel and   *)
(* drain, and time.                                                          *)

RequestStop(j) ==
    /\ ~stop[j] /\ pc[j] # "left"
    /\ stop' = [stop EXCEPT ![j] = TRUE]
    /\ UNCHANGED <<queueVars, lease, dev, pc>>

Cancel_FreesDevice(j) ==
    /\ Droppers
    /\ DropJobs({j})
    /\ lease' = FreeDevice(j)
    /\ UNCHANGED <<dev, pc, stop>>
Cancel(j) ==
    /\ Droppers /\ j \in enqueued
    /\ DropJobs({j})
    /\ UNCHANGED <<lease, dev, pc, stop>>

Drain ==
    /\ Droppers /\ enqueued # {}
    /\ DropJobs(enqueued)
    /\ UNCHANGED <<lease, dev, pc, stop>>

\* An aging interval passes for everything that waits; the bonus stops at 0.0.
Aged(j) == IF age[j] < AgeSteps THEN age[j] + 1 ELSE age[j]

Tick ==
    /\ \E j \in enqueued : age[j] < AgeSteps
    /\ age' = [j \in Jobs |-> IF j \in enqueued THEN Aged(j) ELSE age[j]]
    /\ UNCHANGED <<heap, enqueued, ahead, cancelled, lease, dev, pc, stop>>

-----------------------------------------------------------------------------
SchedulerInit ==
    /\ heap = {} /\ enqueued = {} /\ cancelled = {}
    /\ ahead = [j \in Jobs |-> {}]
    /\ age = [j \in Jobs |-> 0]
    /\ lease = [d \in Devices |-> NoJob]
    /\ dev \in [Jobs -> Devices]
    /\ pc = [j \in Jobs |-> "idle"]
    /\ stop = [j \in Jobs |-> FALSE]

Poll(j) == PollStop(j) \/ PollDropped(j) \/ Grant(j)

SchedulerNext ==
    \/ \E j \in Jobs :
         \/ \E d \in Devices : Ask(j, d)
         \/ Leave(j) \/ Enqueue(j) \/ Poll(j) \/ Release(j)
         \/ RequestStop(j) \/ Cancel(j)
    \/ Drain \/ Tick

SchedulerSpec == SchedulerInit /\ [][SchedulerNext]_schedulerVars

\* acquire polls at least every 50 ms, an adapter call returns (it carries a
\* deadline), and time passes.  Nothing makes a job ask, stop or be dropped.
FairScheduler ==
    /\ SchedulerSpec
    /\ \A j \in Jobs : /\ WF_schedulerVars(Poll(j)) /\ WF_schedulerVars(Enqueue(j))
                       /\ WF_schedulerVars(Release(j))
    /\ WF_schedulerVars(Tick)

-----------------------------------------------------------------------------
(* Properties                                                                *)

SchedulerTypeOK ==
    /\ heap \subseteq Jobs /\ enqueued \subseteq Jobs /\ cancelled \subseteq Jobs
    /\ ahead \in [Jobs -> SUBSET Jobs]
    /\ age \in [Jobs -> 0 .. AgeSteps]
    /\ lease \in [Devices -> Jobs \cup {NoJob}]
    /\ dev \in [Jobs -> Devices]
    /\ pc \in [Jobs -> Pcs]
    /\ stop \in [Jobs -> BOOLEAN]

\* The heap, the enqueue times and the cancelled set stay one queue over any
\* order of enqueue, drop, poll and grant: an entry that outlived its enqueue time,
\* or is still marked as cancelled, would be the head nobody can take.
QueueIsConsistent ==
    /\ heap = enqueued
    /\ enqueued \cap cancelled = {}
    /\ \A j \in enqueued : pc[j] = "polling"

\* Two heavy batches never run on one device, and the lease table names exactly
\* the threads inside a batch ("each GPU runs at most one heavy inference lease"),
\* whoever is cancelled, dropped or drained while it asks, waits or runs.
OneBatchPerDevice ==
    \A j \in Jobs, d \in Devices : lease[d] = j <=> (pc[j] = "running" /\ dev[j] = d)

\* Who may overtake whom: within a class the lease goes to the one that waited
\* longest; a background job passes an interactive one only if it was there first
\* and is fully aged, an interactive job passes an older background job only until
\* that one is fully aged.
GrantsInOrder ==
    [][\A j, k \in Jobs :
         LET granted == pc[j] = "polling" /\ pc'[j] = "running"
             rival == k # j /\ k \in enqueued /\ dev[k] = dev[j]
         IN granted /\ rival =>
              /\ (j \in Interactive <=> k \in Interactive) => j \in ahead[k]
              /\ j \notin Interactive /\ k \in Interactive =>
                     j \in ahead[k] /\ age[j] = AgeSteps
              /\ j \in Interactive /\ k \notin Interactive =>
                     j \in ahead[k] \/ age[k] < AgeSteps]_schedulerVars

\* Aging works: a job does not stay queued for ever, however many interactive jobs
\* keep coming back for the device; it is served, told to stop, or dropped.
NoStarvation == \A j \in Jobs : (j \in enqueued) ~> (j \notin enqueued)

\* The threads keep the promise of DeviceLease.  The mapping says who is inside a
\* batch by where the threads are and does not look at the lease table: that a grant
\* finds the device empty is what OneBatchPerDevice is needed for.
InsideBatch == [d \in Devices |-> {j \in Jobs : pc[j] = "running" /\ dev[j] = d}]
Lease == INSTANCE DeviceLease WITH inside <- InsideBatch
ImplementsDeviceLease == Lease!Spec

-----------------------------------------------------------------------------
(* What makes the properties inductive (the proofs are in                    *)
(* InferenceProofs).                                                         *)

\* Entries are totally ordered, and who came first has waited at least as long.
QueueOrder ==
    /\ \A k \in Jobs : ahead[k] \subseteq heap
    /\ \A j, k \in heap :
         /\ j # k => j \in ahead[k] \/ k \in ahead[j]
         /\ j \in ahead[k] => age[k] <= age[j]

SchedulerIInv == SchedulerTypeOK /\ QueueIsConsistent /\ OneBatchPerDevice /\ QueueOrder
=============================================================================
