---------------------------- MODULE PaddleProcess ----------------------------
(***************************************************************************)
(* The Paddle worker process and the threads that call it: the event loop  *)
(* of the service, on which a handler runs to its end, the pool threads    *)
(* that preload pipelines, the threads of the jobs, and at the end the     *)
(* main thread that shuts down, which is the loop's own.                   *)
(*                                                                         *)
(* PaddleProcessAdapter lets one thread at a time exchange a request for a *)
(* reply with the worker, starts the worker when there is none, and stops  *)
(* it when it breaks off or does not answer in time.  A worker has a queue *)
(* of its own for its replies, so that a late one reaches nobody.          *)
(***************************************************************************)
EXTENDS Integers, Sequences, FiniteSets

CONSTANTS
    Jobs, Pools, Loop,      \* the threads
    PreloadSize,              \* the number of pipelines a preload names
    Snapshots, Refused,     \* settings; those the worker's cache manager raises on
    Initial, Default,       \* the settings at the start; those of a worker told none
    MaxJobCalls, MaxLoopCalls, MaxPreloads,  \* bounds: calls a thread makes
    MaxFaults,              \* bound: crashes, hangs and late answers together
    MaxWorkers,             \* bound: processes started
    Free                    \* no thread

Threads == Jobs \cup Pools \cup {Loop}
Workers == 1 .. MaxWorkers

ASSUME PaddleAssumption ==
    /\ Loop \notin Jobs \cup Pools /\ Jobs \cap Pools = {} /\ Free \notin Threads
    /\ Initial \in Snapshots \ Refused /\ Refused \subseteq Snapshots
    /\ Default \notin Snapshots
    /\ PreloadSize \in Nat \ {0}
    /\ {MaxJobCalls, MaxLoopCalls, MaxPreloads, MaxFaults, MaxWorkers} \subseteq Nat

VARIABLES
    stage,     \* of the service: serving, draining, closed, exited
    mlock,     \* the thread that keeps SupervisorModule._lock over several steps
    preloads,  \* SupervisorModule._preload_count
    lock,      \* the thread that holds PaddleProcessAdapter._lock
    process,   \* the adapter's worker, 0 for None
    responses, \* the queue it reads, named by the worker it was made for
    settings,  \* PaddleProcessAdapter._settings
    worker,    \* of every worker ever started: what it does
    queue,     \* the lines put into each queue
    pc, call,  \* of each thread
    left,      \* calls each thread may still make
    faults,    \* so far
    ran        \* history: how often the recognition a job asks for was begun

adapter == <<lock, process, responses, settings>>
service == <<stage, mlock, preloads>>
vars == <<service, adapter, worker, queue, pc, call, left, faults, ran>>

NoRequest == [by |-> Free, of |-> "none", op |-> "none", n |-> 0, arg |-> Default]
NotStarted == [alive |-> FALSE, hung |-> FALSE, inbox |-> <<>>, busy |-> NoRequest,
               holds |-> Default, sink |-> 0]

\* `of` is what the caller asked the module for, `op` the request this takes now,
\* `restore` that a new worker is told the settings first, `n` which call or pipeline.
NoCall == [of |-> "none", op |-> "none", arg |-> Initial, restore |-> FALSE, n |-> 0]

Init ==
    /\ stage = "serving" /\ mlock = Free /\ preloads = 0
    /\ lock = Free /\ process = 0 /\ responses = 0 /\ settings = Initial
    /\ worker = [p \in Workers |-> NotStarted]
    /\ queue = [p \in Workers |-> <<>>]
    /\ pc = [t \in Threads |-> "idle"] /\ call = [t \in Threads |-> NoCall]
    /\ left = [t \in Threads |-> IF t \in Jobs THEN MaxJobCalls
                                 ELSE IF t = Loop THEN MaxLoopCalls ELSE MaxPreloads]
    /\ faults = 0
    /\ ran = [t \in Jobs |-> 0]

Goto(t, place) == pc' = [pc EXCEPT ![t] = place]
Idle(t) == Goto(t, "idle") /\ call' = [call EXCEPT ![t] = NoCall]
Alive(p) == p # 0 /\ worker[p].alive
Started == {p \in Workers : worker[p].sink # 0}

\* The reader thread puts None into the queue when the worker's output ends.
Exited == [eof |-> TRUE, to |-> NoRequest, ok |-> FALSE]
Reply(request, ok) == [eof |-> FALSE, to |-> request, ok |-> ok]
EndOf(p) == [queue EXCEPT ![worker[p].sink] = Append(@, Exited)]

\* What a thread writes to the worker.
Request(t) ==
    [by |-> t, of |-> call[t].of, n |-> call[t].n,
     op |-> IF call[t].restore THEN "settings" ELSE call[t].op,
     arg |-> IF call[t].restore \/ call[t].op = "settings" THEN settings ELSE Default]

Kinds == {"none", "recognize", "preload", "status", "release", "settings", "close"}
InExchange == {"start", "write", "blocked", "wait", "stop"}

-----------------------------------------------------------------------------
(* Calls of the service.  A handler runs on the loop until it returns, so a  *)
(* new call comes in only when the loop is idle.                             *)

Serving == stage = "serving" /\ pc[Loop] = "idle"

Begin(t, op, arg, place) ==
    /\ pc[t] = "idle" /\ left[t] > 0
    /\ left' = [left EXCEPT ![t] = @ - 1]
    /\ call' = [call EXCEPT ![t] = [of |-> op, op |-> op, arg |-> arg,
                                    restore |-> FALSE, n |-> left[t]]]
    /\ Goto(t, place)
    /\ UNCHANGED <<stage, adapter, worker, queue, faults>>

\* A job's thread reaches recognize_many; the thread itself was started by a submit.
Recognize(t) ==
    /\ stage # "exited"
    /\ Begin(t, "recognize", Initial, "lock")
    /\ ran' = [ran EXCEPT ![t] = 0]
    /\ UNCHANGED <<mlock, preloads>>

\* asyncio.to_thread(module.preload, ...): counted under the module lock.
Preload(t) ==
    /\ Serving /\ mlock = Free
    /\ Begin(t, "preload", Initial, "lock")
    /\ preloads' = preloads + 1
    /\ UNCHANGED <<mlock, ran>>

\* GET residency: the module's own snapshot while a preload runs, else the adapter's.
Residency ==
    /\ Serving /\ mlock = Free
    /\ Begin(Loop, "status", Initial, IF preloads > 0 THEN "idle" ELSE "lock")
    /\ UNCHANGED <<mlock, preloads, ran>>

ReleaseIdle ==
    /\ Serving
    /\ Begin(Loop, "release", Initial, "lock")
    /\ UNCHANGED <<mlock, preloads, ran>>

\* PUT settings: the module lock is held until the executors are configured.
PutSettings(s) ==
    /\ Serving /\ mlock = Free
    /\ Begin(Loop, "settings", s, "lock")
    /\ mlock' = Loop
    /\ UNCHANGED <<preloads, ran>>

-----------------------------------------------------------------------------
(* PaddleProcessAdapter, by the thread t.                                    *)

\* Status waits 0.05 s for the lock and release not at all.
Impatient(t) == call[t].op \in {"status", "release"}
NeedsWorker(t) == call[t].op \in {"recognize", "preload"}

\* The lock is released however the call ends.
Leave_KeepsOnError(t, outcome) ==
    /\ lock' = IF outcome = "raised" THEN t ELSE Free
    /\ Goto(t, outcome)
Leave(t, outcome) == lock' = Free /\ Goto(t, outcome)

\* Without a process the cached status is the answer.
Acquire(t) ==
    /\ pc[t] = "lock" /\ lock = Free
    /\ IF process = 0 /\ ~NeedsWorker(t)
       THEN Leave(t, "returned")
       ELSE /\ lock' = t
            /\ Goto(t, IF NeedsWorker(t) THEN "start"
                       ELSE IF call[t].op = "close" THEN "stop" ELSE "write")
    /\ settings' = IF call[t].op = "settings" THEN call[t].arg ELSE settings
    /\ UNCHANGED <<service, process, responses, worker, queue, call, left, faults, ran>>

GiveUp(t) ==
    /\ pc[t] = "lock" /\ lock \notin {Free, t} /\ Impatient(t)
    /\ Goto(t, "returned")
    /\ UNCHANGED <<service, adapter, worker, queue, call, left, faults, ran>>

\* _stop: the process is terminated and forgotten; a line it wrote before stays queued.
Dead(p) == [NotStarted EXCEPT !.sink = worker[p].sink]

Stop_Forgets == process' = 0 /\ UNCHANGED <<worker, queue>>
Stop ==
    /\ process' = 0
    /\ IF Alive(process)
       THEN worker' = [worker EXCEPT ![process] = Dead(process)] /\ queue' = EndOf(process)
       ELSE UNCHANGED <<worker, queue>>

\* _start returns at once if the worker lives.
StartIsDone(t) ==
    /\ pc[t] = "start" /\ Alive(process)
    /\ Goto(t, "write")
    /\ UNCHANGED <<service, adapter, worker, queue, call, left, faults, ran>>

\* Otherwise a new worker is started with a queue of its own, the old one is dropped,
\* and it is told the settings.
NewQueue_Kept(p) == IF responses = 0 THEN p ELSE responses
NewQueue(p) == p
Restoring_No == FALSE
Restoring == TRUE

StartWorker(t) ==
    /\ pc[t] = "start" /\ ~Alive(process)
    /\ \E p \in Workers \ Started :
         /\ Workers \ Started \subseteq p .. MaxWorkers
         /\ process' = p
         /\ responses' = NewQueue(p)
         /\ queue' = [q \in Workers |-> IF q = NewQueue(p) THEN queue[q] ELSE <<>>]
         /\ worker' = [worker EXCEPT ![p] = [NotStarted EXCEPT !.alive = TRUE,
                                                               !.sink = NewQueue(p)]]
    /\ call' = [call EXCEPT ![t].restore = Restoring]
    /\ Goto(t, "write")
    /\ UNCHANGED <<service, lock, settings, left, faults, ran>>

\* Popen raises.
StartFails(t) ==
    /\ pc[t] = "start" /\ ~Alive(process)
    /\ process' = 0
    /\ Leave(t, "raised")
    /\ UNCHANGED <<service, responses, settings, worker, queue, call, left, faults, ran>>

Write(t) ==
    /\ pc[t] = "write" /\ Alive(process)
    /\ worker' = [worker EXCEPT ![process].inbox = Append(@, Request(t))]
    /\ Goto(t, "wait")
    /\ UNCHANGED <<service, adapter, queue, call, left, faults, ran>>

\* The inputs of a recognition may be more than the pipe takes in, and a worker that
\* hangs does not read on: the write has no deadline, and the lock is kept.
Large(t) == call[t].op = "recognize" /\ ~call[t].restore

WriteBlocks(t) ==
    /\ pc[t] = "write" /\ Alive(process)
    /\ Large(t) /\ worker[process].hung
    /\ Goto(t, "blocked")
    /\ UNCHANGED <<service, adapter, worker, queue, call, left, faults, ran>>

\* The pipe of a worker that has died is broken.
WriteFails(t) ==
    /\ pc[t] \in {"write", "blocked"} /\ ~Alive(process)
    /\ Stop
    /\ Leave(t, "raised")
    /\ UNCHANGED <<service, responses, settings, call, left, faults, ran>>

Line == Head(queue[responses])
Waiting(t) == pc[t] = "wait" /\ queue[responses] # <<>>
Consume == queue' = [queue EXCEPT ![responses] = Tail(@)]

\* The worker has taken the settings: the request itself is next.
Restored(t) ==
    /\ Waiting(t) /\ Line.ok /\ call[t].restore
    /\ Consume
    /\ call' = [call EXCEPT ![t].restore = FALSE]
    /\ Goto(t, "write")
    /\ UNCHANGED <<service, adapter, worker, left, faults, ran>>

\* A result is returned and an "error" raised; the worker goes on in both cases.
Receive(t) ==
    /\ Waiting(t) /\ ~Line.eof /\ ~(Line.ok /\ call[t].restore)
    /\ Consume
    /\ call' = [call EXCEPT ![t].restore = FALSE]
    /\ Leave(t, IF Line.ok THEN "returned" ELSE "raised")
    /\ UNCHANGED <<service, process, responses, settings, worker, left, faults, ran>>

\* None: the worker has exited before it replied.
AfterExit(t) == Leave(t, "raised")

ReceiveExit(t) ==
    /\ Waiting(t) /\ Line.eof
    /\ Consume
    /\ process' = 0
    /\ call' = [call EXCEPT ![t].restore = FALSE]
    /\ AfterExit(t)
    /\ UNCHANGED <<service, responses, settings, worker, left, faults, ran>>

\* No line within the deadline, 1 s for a status and 3600 s for the rest: the worker
\* hangs, or (SlowReply) it may still answer until it is terminated.
Overdue(t) ==
    /\ pc[t] = "wait" /\ queue[responses] = <<>>
    /\ Goto(t, "stop")
    /\ UNCHANGED <<service, adapter, worker, queue, call, left, ran>>

Expire(t) == pc[t] = "wait" /\ worker[process].hung /\ Overdue(t) /\ UNCHANGED faults
SlowReply(t) == faults < MaxFaults /\ Overdue(t) /\ faults' = faults + 1

StopWorker(t) ==
    /\ pc[t] = "stop"
    /\ Stop
    /\ call' = [call EXCEPT ![t].restore = FALSE]
    /\ Leave(t, "raised")
    /\ UNCHANGED <<service, responses, settings, left, faults, ran>>

-----------------------------------------------------------------------------
(* What the module does with the outcome.  CompositeExecutor swallows what a *)
(* status or a release raises.                                               *)

Back(t, kind) == pc[t] \in {"returned", "raised"} /\ call[t].of = kind

\* Every runtime operation ends with a poll of the status.
Poll(t) == call' = [call EXCEPT ![t].op = "status"] /\ Goto(t, "lock")

RecognizeEnds(t) ==
    /\ Back(t, "recognize")
    /\ Idle(t)
    /\ UNCHANGED <<service, adapter, worker, queue, left, faults, ran>>

\* Also _remember_residency, under the module lock, after a release.
StatusEnds ==
    /\ Back(Loop, "status") \/ (Back(Loop, "release") /\ call[Loop].op = "status")
    /\ mlock = Free
    /\ Idle(Loop)
    /\ UNCHANGED <<service, adapter, worker, queue, left, faults, ran>>

ReleaseEnds ==
    /\ Back(Loop, "release") /\ call[Loop].op = "release"
    /\ Poll(Loop)
    /\ UNCHANGED <<service, adapter, worker, queue, left, faults, ran>>

PreloadNext(t) ==
    /\ Back(t, "preload")
    /\ \/ /\ call[t].op = "preload" /\ pc[t] = "returned"
          /\ Poll(t)
       \/ /\ call[t].op = "status" /\ call[t].n < left[t] + PreloadSize
          /\ mlock = Free   \* _remember_residency
          /\ call' = [call EXCEPT ![t].op = "preload", ![t].n = @ + 1]
          /\ Goto(t, "lock")
    /\ UNCHANGED <<service, adapter, worker, queue, left, faults, ran>>

\* The count goes down whatever happened.
PreloadEnds(t) ==
    /\ Back(t, "preload") /\ mlock = Free
    /\ \/ call[t].op = "preload" /\ pc[t] = "raised"
       \/ call[t].op = "status" /\ call[t].n = left[t] + PreloadSize
    /\ preloads' = preloads - 1
    /\ Idle(t)
    /\ UNCHANGED <<stage, mlock, adapter, worker, queue, left, faults, ran>>

\* A refusal leaves update_settings; what the adapter has recorded stays.
SettingsEnd ==
    /\ Back(Loop, "settings")
    /\ IF call[Loop].op = "settings" /\ pc[Loop] = "returned"
       THEN Poll(Loop) /\ UNCHANGED mlock
       ELSE Idle(Loop) /\ mlock' = Free
    /\ UNCHANGED <<stage, preloads, adapter, worker, queue, left, faults, ran>>

-----------------------------------------------------------------------------
(* paddle_worker.main: one request after the other.                          *)

Take(p) ==
    /\ Alive(p) /\ ~worker[p].hung /\ worker[p].busy = NoRequest
    /\ worker[p].inbox # <<>>
    /\ LET r == Head(worker[p].inbox) IN
         /\ worker' = [worker EXCEPT ![p].inbox = Tail(@), ![p].busy = r]
         /\ ran' = IF r.op = "recognize" THEN [ran EXCEPT ![r.by] = @ + 1] ELSE ran
    /\ UNCHANGED <<service, adapter, queue, pc, call, left, faults>>

\* The cache manager raises on settings that name a pipeline it does not know; a
\* recognition or a preload may raise.
Serve(p) ==
    /\ Alive(p) /\ ~worker[p].hung /\ worker[p].busy # NoRequest
    /\ LET r == worker[p].busy IN
       \E ok \in BOOLEAN :
         /\ r.op = "settings" => ok = (r.arg \notin Refused)
         /\ r.op \in {"status", "release"} => ok
         /\ queue' = [queue EXCEPT ![worker[p].sink] = Append(@, Reply(r, ok))]
         /\ worker' = [worker EXCEPT ![p].busy = NoRequest,
                         ![p].holds = IF r.op = "settings" /\ ok THEN r.arg ELSE @]
    /\ UNCHANGED <<service, adapter, pc, call, left, faults, ran>>

Crash(p) ==
    /\ Alive(p) /\ faults < MaxFaults
    /\ faults' = faults + 1
    /\ worker' = [worker EXCEPT ![p] = Dead(p)]
    /\ queue' = EndOf(p)
    /\ UNCHANGED <<service, adapter, pc, call, left, ran>>

Hang(p) ==
    /\ Alive(p) /\ ~worker[p].hung /\ faults < MaxFaults
    /\ faults' = faults + 1
    /\ worker' = [worker EXCEPT ![p].hung = TRUE]
    /\ UNCHANGED <<service, adapter, queue, pc, call, left, ran>>

-----------------------------------------------------------------------------
(* shutdown_now, on the main thread after the loop has ended.                *)

Drain ==
    /\ Serving /\ mlock = Free
    /\ stage' = "draining"
    /\ UNCHANGED <<mlock, preloads, adapter, worker, queue, pc, call, left, faults, ran>>

\* All jobs are terminal or the grace period is over, which may be at any moment.
CloseExecutor ==
    /\ stage = "draining" /\ pc[Loop] = "idle"
    /\ call' = [call EXCEPT ![Loop] = [NoCall EXCEPT !.of = "close", !.op = "close"]]
    /\ Goto(Loop, "lock")
    /\ UNCHANGED <<service, adapter, worker, queue, left, faults, ran>>

Closed ==
    /\ Back(Loop, "close") /\ stage = "draining"
    /\ stage' = "closed"
    /\ UNCHANGED <<mlock, preloads, adapter, worker, queue, pc, call, left, faults, ran>>

\* The interpreter joins the pool threads, not those of the jobs; a worker that is
\* left loses its standard input and its job object.
Exit ==
    /\ stage = "closed" /\ \A t \in Pools : pc[t] = "idle"
    /\ stage' = "exited"
    /\ pc' = [t \in Threads |-> "gone"]
    /\ worker' = [p \in Workers |-> Dead(p)]
    /\ UNCHANGED <<mlock, preloads, adapter, queue, call, left, faults, ran>>

-----------------------------------------------------------------------------
Asking(t) ==
    \/ Acquire(t) \/ GiveUp(t)
    \/ StartIsDone(t) \/ StartWorker(t) \/ StartFails(t)
    \/ Write(t) \/ WriteBlocks(t) \/ WriteFails(t) \/ Restored(t) \/ Receive(t) \/ ReceiveExit(t)
    \/ Expire(t) \/ StopWorker(t)

Ending(t) ==
    \/ t \in Jobs /\ RecognizeEnds(t)
    \/ t \in Pools /\ (PreloadNext(t) \/ PreloadEnds(t))
    \/ t = Loop /\ (StatusEnds \/ ReleaseEnds \/ SettingsEnd)

Calling ==
    \/ \E t \in Jobs : Recognize(t)
    \/ \E t \in Pools : Preload(t)
    \/ Residency \/ ReleaseIdle
    \/ \E s \in Snapshots : PutSettings(s)

Next ==
    \/ Calling
    \/ \E t \in Threads : Asking(t) \/ SlowReply(t) \/ Ending(t)
    \/ \E p \in Workers : Take(p) \/ Serve(p) \/ Crash(p) \/ Hang(p)
    \/ Drain \/ CloseExecutor \/ Closed \/ Exit

Fairness ==
    /\ \A t \in Threads : WF_vars(Asking(t)) /\ WF_vars(Ending(t))
    /\ \A p \in Workers : WF_vars(Take(p)) /\ WF_vars(Serve(p))
    /\ WF_vars(CloseExecutor) /\ WF_vars(Closed) /\ WF_vars(Exit)

Spec == Init /\ [][Next]_vars /\ Fairness

-----------------------------------------------------------------------------
\* A thread never takes a line that answers another request than its own.
RepliesMatchRequests ==
    \A t \in Threads : Waiting(t) /\ ~Line.eof => Line.to = Request(t)

\* No recognition is begun twice for one call, whatever happens to the worker.
NothingRunsTwice == \A t \in Jobs : ran[t] <= 1

\* A worker recognises and preloads under the settings the adapter holds, also one
\* that was started after a crash, unless the adapter holds settings that a worker
\* refuses: it goes on under those it had then, and a new one under its defaults.
RunsUnderTheSettings ==
    \A p \in Workers : worker[p].busy.op \in {"recognize", "preload"}
                         => worker[p].holds = settings \/ settings \in Refused

\* Never do two workers live, each with models of its own.
OneWorkerLives == Cardinality({p \in Workers : worker[p].alive}) <= 1

\* The pairing of requests and replies survives every change of the worker.
OneWorkerAnswers == RepliesMatchRequests /\ OneWorkerLives

\* Whatever the worker does, a call ends, the close of the shutdown included: no thread
\* waits for ever for a reply, for the adapter's lock or for the module's.  The one
\* exception is the write that a hung worker does not read: only its death ends that,
\* and until then nobody else's call or shutdown is sure to end either.
EveryCallReturns ==
    \/ <>[](\E t \in Threads : pc[t] = "blocked")
    \/ \A t \in Threads : pc[t] # "idle" ~> pc[t] \in {"idle", "gone"}

-----------------------------------------------------------------------------
(* What makes the safety properties inductive (the proofs are in             *)
(* WorkerProofs).                                                     *)

Requests == [by : Threads \cup {Free}, of : Kinds, op : Kinds, n : Nat,
             arg : Snapshots \cup {Default}]
Lines == [eof : BOOLEAN, to : Requests, ok : BOOLEAN]

TypeOK ==
    /\ stage \in {"serving", "draining", "closed", "exited"}
    /\ mlock \in {Free, Loop} /\ preloads \in Int
    /\ lock \in Threads \cup {Free}
    /\ process \in {0} \cup Workers /\ responses \in {0} \cup Workers
    /\ settings \in Snapshots
    /\ worker \in [Workers -> [alive : BOOLEAN, hung : BOOLEAN, inbox : Seq(Requests),
                               busy : Requests, holds : Snapshots \cup {Default},
                               sink : {0} \cup Workers]]
    /\ queue \in [Workers -> Seq(Lines)]
    /\ pc \in [Threads -> InExchange \cup {"idle", "lock", "returned", "raised", "gone"}]
    /\ call \in [Threads -> [of : Kinds, op : Kinds, arg : Snapshots, restore : BOOLEAN,
                             n : Nat]]
    /\ left \in [Threads -> Nat] /\ faults \in Nat
    /\ ran \in [Jobs -> Nat]

\* The thread between _start and the end of its exchange is the one with the lock.
LockIsHeld ==
    /\ \A t \in Threads : pc[t] \in InExchange => lock = t
    /\ lock # Free => pc[lock] \in InExchange \cup {"gone"}

\* Only the adapter's process lives, and its replies go into the queue that is read.
OneProcess ==
    /\ \A p \in Workers :
         /\ worker[p].alive => p = process
         /\ ~worker[p].alive => worker[p].inbox = <<>> /\ worker[p].busy = NoRequest
         /\ worker[p].sink = 0 => queue[p] = <<>> /\ ~worker[p].alive
    /\ process # 0 => worker[process].sink = process /\ responses = process
    /\ \A t \in Threads : pc[t] \in {"write", "blocked", "wait"} => process # 0
    /\ stage = "exited" => \A p \in Workers : ~worker[p].alive
    /\ \A t \in Threads : pc[t] = "gone" <=> stage = "exited"

\* Between exchanges nothing is in the pipe, except that the worker has exited.
Quiet ==
    /\ worker[process].inbox = <<>> /\ worker[process].busy = NoRequest
    /\ queue[process] = IF worker[process].alive THEN <<>> ELSE <<Exited>>

\* In an exchange the request is on its way, being served, or answered.
Exchanging(r) ==
    \/ worker[process].alive /\ worker[process].inbox = <<r>> /\ worker[process].busy = NoRequest
       /\ queue[process] = <<>>
    \/ worker[process].alive /\ worker[process].inbox = <<>> /\ worker[process].busy = r
       /\ queue[process] = <<>>
    \/ worker[process].alive /\ worker[process].inbox = <<>> /\ worker[process].busy = NoRequest
       /\ \E ok \in BOOLEAN : queue[process] = <<Reply(r, ok)>>
    \/ ~worker[process].alive
       /\ \/ queue[process] = <<Exited>>
          \/ \E ok \in BOOLEAN : queue[process] = <<Reply(r, ok), Exited>>

PipeIsPaired ==
    process # 0 /\ stage # "exited" =>
      IF lock = Free THEN Quiet
      ELSE /\ pc[lock] \in {"start", "write", "blocked"} => Quiet
           /\ pc[lock] = "wait" => Exchanging(Request(lock))
           /\ pc[lock] = "stop" => Quiet \/ Exchanging(Request(lock))

\* The worker's settings lag behind only while they are being sent, or are refused.
SettingsAreSent ==
    process # 0 /\ worker[process].alive /\ worker[process].holds # settings
    /\ settings \notin Refused =>
      /\ lock # Free /\ Request(lock).op = "settings"
      /\ pc[lock] \in {"write", "wait", "stop"}
      /\ pc[lock] = "wait" => queue[process] = <<>>

\* A job's recognition has not been begun before its request is written.
NotYetRun ==
    \A t \in Jobs :
      /\ ran[t] <= 1
      /\ pc[t] \in {"lock", "start", "write", "blocked"} => ran[t] = 0
      /\ pc[t] = "wait" /\ call[t].restore => ran[t] = 0
      /\ pc[t] \in {"wait", "stop"} /\ process # 0 /\ worker[process].inbox # <<>> => ran[t] = 0

IInv == TypeOK /\ LockIsHeld /\ OneProcess /\ PipeIsPaired /\ NotYetRun

=============================================================================
