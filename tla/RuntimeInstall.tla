--------------------------- MODULE RuntimeInstall ---------------------------
(***************************************************************************)
(* Installing and repairing the portable runtime (runtime_installer.py) on   *)
(* behalf of durable operations (runtime_maintenance.py, runtime_control.py, *)
(* runtime_install_plan.py): previews, confirmations of a preview, retries,  *)
(* cancels, the store lock, the staged build with its download cache, the    *)
(* activation by renames and its undo, and processes that die anywhere.      *)
(*                                                                         *)
(* Directories are a Runtime or Nothing.  An operation's journal is taken as *)
(* OperationLog promises it (RuntimeJournal implements that).                *)
(***************************************************************************)
EXTENDS Naturals

CONSTANTS Procs,     \* processes that execute requests
          Ops,       \* operation ids the clients submit
          Retry,     \* the operation id a retry command creates
          Earlier,   \* the operation that may have installed before
          Scopes,    \* closures of components that can be installed
          MaxMishaps \* bound on crashes, damages and lost reports together

AllOps == Ops \cup {Retry, Earlier}
None == "none"

ASSUME InstallAssumption ==
  /\ Retry \notin Ops /\ Earlier \notin Ops \cup {Retry}
  /\ None \notin Procs \cup AllOps \cup Scopes /\ Scopes # {}
  /\ MaxMishaps \in Nat

VARIABLES active,   \* the directory runtime
          rollback, \* runtime.rollback
          partial,  \* runtime.installing
          log,      \* per operation: what its journal tells
          intent,   \* per operation: what it was asked to do
          plan,     \* the previewed install plan, as stored
          command,  \* the retry command, as stored; lost (history) tells that the
                    \* answer to its success could not be built
          inputs,   \* what pip installs from: the unpacked runtime pack, or
                    \* the downloaded wheels
          holder,   \* process that holds runtime-store.lock, or None
          w,        \* per process: what it executes
          mishaps   \* how much has gone wrong from outside

vars == <<active, rollback, partial, log, intent, plan, command, inputs,
          holder, w, mishaps>>
disk == <<active, rollback, partial>>
asked == <<intent, plan, command>>

Nothing == [by |-> None, scope |-> None, state |-> "absent"]
NoPlan == [scope |-> None, base |-> Nothing, op |-> None]
NoIntent == [kind |-> None, scope |-> None, planned |-> FALSE]
Idle == [pc |-> "idle", op |-> None, ask |-> NoIntent]
NoLog == [state |-> "absent", cancel |-> FALSE, closed |-> FALSE]
NoCommand == [state |-> None, of |-> None, ask |-> NoIntent, lost |-> FALSE]

Ended(o) == log[o].state \in {"succeeded", "failed", "cancelled"}
Intents == [kind : {"ensure"}, scope : Scopes, planned : BOOLEAN]
           \cup [kind : {"repair"}, scope : {CHOOSE s \in Scopes : TRUE},
                 planned : {FALSE}]

Init ==
  /\ rollback = Nothing /\ partial = Nothing
  /\ \/ /\ active = Nothing
        /\ log = [o \in AllOps |-> NoLog]
        /\ intent = [o \in AllOps |-> NoIntent]
     \/ \E s \in Scopes :
          /\ active = [by |-> Earlier, scope |-> s, state |-> "sound"]
          /\ log = [o \in AllOps |->
                      IF o = Earlier THEN [NoLog EXCEPT !.state = "succeeded"] ELSE NoLog]
          /\ intent = [o \in AllOps |->
                         IF o = Earlier
                         THEN [kind |-> "ensure", scope |-> s, planned |-> FALSE]
                         ELSE NoIntent]
  /\ plan = NoPlan /\ command = NoCommand
  /\ inputs = "absent"
  /\ holder = None /\ w = [p \in Procs |-> Idle] /\ mishaps = 0

End(o, state) == [log EXCEPT ![o] = [NoLog EXCEPT !.state = state]]
Step(p, from, to) == w[p].pc = from /\ w' = [w EXCEPT ![p].pc = to]

Mishap == mishaps < MaxMishaps /\ mishaps' = mishaps + 1

\* A look at the runtime: complete, of this product, and not drifted.
Ready(scope) == active.state = "sound" /\ active.scope = scope
Trusted == active.state \in {"sound", "drifted"}

-----------------------------------------------------------------------------
\* What a plan remembers of the installation: its marker, probes, versions.
Baseline == active

\* preview_install_plan: the baseline of the preview is the runtime it sees.
Preview(p) ==
  /\ w[p].pc = "idle" /\ holder = None /\ plan = NoPlan
  /\ \E s \in Scopes : plan' = [scope |-> s, base |-> Baseline, op |-> None]
  /\ UNCHANGED <<disk, log, intent, command, inputs, holder, w, mishaps>>

\* RuntimeStoreLock, taken for the whole of an ensure or a repair.
Locked(p, o, ask) ==
  /\ holder = None /\ holder' = p
  /\ w' = [w EXCEPT ![p] = [pc |-> IF ask.planned THEN "plan" ELSE "decide",
                            op |-> o, ask |-> ask]]

\* A start request, under a fresh id or under one used before; one that does
\* not get the lock in time is refused and leaves no trace, and a replayed
\* confirmation of a plan is answered without an installer (replay_plan).
Start(p, o) ==
  /\ w[p].pc = "idle"
  /\ \E i \in Intents :
       /\ i.planned => plan.scope = i.scope /\ log[o] = NoLog
       /\ Locked(p, o, i)
  /\ UNCHANGED <<disk, log, asked, inputs, mishaps>>

\* The retry command: as the operation was asked for (NoIntent), with a selection
\* of its own or with a previewed plan.  It is reserved under its lock, or found
\* reserved by an execution that died; an outcome once recorded is only repeated.
CommandFree == \A q \in Procs : w[q].op # Retry
RetryCommand(p, o) ==
  /\ w[p].pc = "idle" /\ CommandFree
  /\ \/ /\ command.state = None
        /\ \E ask \in {NoIntent} \cup {i \in Intents : i.kind = "ensure"} :
             /\ ask.planned => plan.scope = ask.scope
             /\ command' = [NoCommand EXCEPT !.state = "reserved", !.of = o, !.ask = ask]
     \/ /\ command.state = "reserved" /\ command.of = o
        /\ UNCHANGED command
  /\ w' = [w EXCEPT ![p] = [Idle EXCEPT !.pc = "apply", !.op = Retry]]
  /\ UNCHANGED <<disk, log, intent, plan, inputs, holder, mishaps>>

\* What an execution ends with: an error, or a receipt that tells the state the
\* operation is in.  What a start request is answered is not kept anywhere.
Answers == {"error", "running", "succeeded", "failed", "cancelled"}
Answer(p, s) ==
  w' = [w EXCEPT ![p] = IF w[p].op = Retry THEN [w[p] EXCEPT !.pc = s] ELSE Idle]

\* The outcome of the command is written.  (A write that fails leaves what a death
\* leaves.)
Record(p) ==
  /\ w[p].pc \in Answers
  /\ command' = [command EXCEPT !.state = w[p].pc]
  /\ w' = [w EXCEPT ![p] = Idle]
  /\ UNCHANGED <<disk, log, intent, plan, inputs, holder, mishaps>>

\* Retried is ended work that failed; with a selection or a plan only an ensure, and
\* a planned one only with a new plan.
Retryable ==
  /\ log[command.of].state \in {"failed", "cancelled"}
  /\ command.ask # NoIntent => intent[command.of].kind = "ensure"
  /\ intent[command.of].planned => command.ask.planned
RetryAsk == IF command.ask = NoIntent THEN intent[command.of] ELSE command.ask

ApplyRetry_TrustsExisting(p) ==
  /\ w[p].pc = "apply"
  /\ IF ~Retryable THEN Answer(p, "error") /\ UNCHANGED holder
     ELSE IF log[Retry].state # "absent" THEN Answer(p, "succeeded") /\ UNCHANGED holder
     ELSE \/ Locked(p, Retry, RetryAsk)
          \/ Answer(p, "error") /\ UNCHANGED holder
  /\ UNCHANGED <<disk, log, asked, inputs, mishaps>>

\* The closure that a retry applies: an operation that exists already is reported
\* and never executed again; of a plan in whatever state it is (replay_plan), else
\* only when it succeeded.  Without the lock, or while the service has jobs
\* (run_runtime_maintenance), it ends in an error.
ApplyRetry(p) ==
  /\ w[p].pc = "apply"
  /\ IF ~Retryable THEN Answer(p, "error") /\ UNCHANGED holder
     ELSE IF log[Retry].state # "absent"
     THEN /\ Answer(p, IF command.ask.planned \/ log[Retry].state = "succeeded"
                       THEN log[Retry].state ELSE "error")
          /\ UNCHANGED holder
     ELSE \/ Locked(p, Retry, RetryAsk)
          \/ Answer(p, "error") /\ UNCHANGED holder
  /\ UNCHANGED <<disk, log, asked, inputs, mishaps>>

\* Every answer takes a look at the runtime, which may fail: it is an error then,
\* also of work that is done.
AnswerFails(p) ==
  /\ w[p].pc \in {"apply", "receipt"} /\ Answer(p, "error") /\ Mishap
  /\ command' = [command EXCEPT !.lost = @ \/ (w[p].op = Retry /\ log[Retry].state = "succeeded")]
  /\ UNCHANGED <<disk, log, intent, plan, inputs, holder>>

Cancel(o) ==
  /\ log[o].state = "running" /\ ~log[o].cancel /\ ~log[o].closed
  /\ log' = [log EXCEPT ![o].cancel = TRUE]
  /\ UNCHANGED <<disk, asked, inputs, holder, w, mishaps>>

-----------------------------------------------------------------------------
Leave(p) == Answer(p, "error") /\ holder' = None

\* ensure under the lock: the plan as stored now must be unbound or bound to
\* this operation, not executed yet, and on the baseline it was previewed on.
\* It is also refused when it expired or the disk filled up meanwhile.
PlanRefused(p) ==
  /\ w[p].pc = "plan"
  /\ Leave(p)
  /\ UNCHANGED <<disk, log, asked, inputs, mishaps>>

PlanHolds == plan.base = Baseline

BindPlan(p) ==
  LET o == w[p].op IN
  /\ Step(p, "plan", "decide")
  /\ plan.op \in {None, o} /\ log[o] = NoLog /\ PlanHolds
  /\ plan' = [plan EXCEPT !.op = o]
  /\ UNCHANGED <<disk, log, intent, command, inputs, holder, mishaps>>

\* Whether the operation has anything to do; a repair of components that did
\* not drift has not.
Satisfied(ask) ==
  IF ask.kind = "ensure" THEN {Ready(ask.scope)}
  ELSE IF active.state = "sound" THEN {TRUE} ELSE {TRUE, FALSE}

\* reporter.start: only the first start of an id executes it.  A start whose
\* metadata cannot be written is told as a failure at once.
Begin(p) ==
  LET o == w[p].op
      ask == w[p].ask IN
  /\ w[p].pc = "decide" /\ log[o] = NoLog
  /\ log' = [log EXCEPT ![o].state = "running"]
  /\ intent' = [intent EXCEPT ![o] = ask]
  /\ \E done \in Satisfied(ask) :
       \E next \in {"fail"} \cup IF ask.kind = "repair" /\ active.state = "untrusted"
                               THEN {}
                               ELSE {IF ~done THEN "wait"
                                     ELSE IF ask.kind = "ensure"
                                     THEN "satisfied" ELSE "tell"} :
         w' = [w EXCEPT ![p].pc = next]
  /\ UNCHANGED <<disk, plan, command, inputs, holder, mishaps>>

\* The id has been started before, or its first event cannot be written.
BeginNot(p) ==
  /\ w[p].pc = "decide"
  /\ Leave(p)
  /\ UNCHANGED <<disk, log, asked, inputs, mishaps>>

\* advance: an accepted cancel ends the operation, or the next phase is told.
\* Once the staging directory is this operation's, it is removed at the end.
Staged(p) == w[p].pc \notin {"wait", "satisfied"}

Advance(p, from, to, closed) ==
  LET o == w[p].op IN
  /\ w[p].pc = from
  /\ IF log[o].cancel
     THEN /\ log' = End(o, "cancelled")
          /\ w' = [w EXCEPT ![p].pc = IF Staged(p) THEN "clean" ELSE "leave"]
     ELSE /\ log' = [log EXCEPT ![o].closed = closed]
          /\ w' = [w EXCEPT ![p].pc = to]

Prepare_Archives(p) ==
  /\ Advance(p, "wait", "clear", FALSE)
  /\ rollback' = IF log[w[p].op].cancel THEN rollback ELSE Nothing
  /\ UNCHANGED <<active, partial, asked, inputs, holder, mishaps>>

\* The phases are told, then the slot of an interrupted activation is emptied:
\* archived beside an active runtime, put back where none is active.
Prepare(p) ==
  /\ Advance(p, "wait", "clear", FALSE)
  /\ IF log[w[p].op].cancel \/ rollback = Nothing THEN UNCHANGED <<active, rollback>>
     ELSE /\ rollback' = Nothing
          /\ active' = IF active = Nothing THEN rollback ELSE active
  /\ UNCHANGED <<partial, asked, inputs, holder, mishaps>>

\* The scope to build: what is asked for, or what a repair finds installed.
Target(ask) == IF ask.kind = "repair" /\ Trusted THEN active.scope
               ELSE ask.scope

Clear(p) ==
  LET o == w[p].op IN
  /\ Step(p, "clear", "extract")
  /\ partial' = [by |-> o, scope |-> Target(w[p].ask), state |-> "building"]
  /\ UNCHANGED <<active, rollback, log, asked, inputs, holder, mishaps>>

\* The inputs are taken as they are when they are whole: a pack by its marker,
\* written last, and each wheel by the hash of the lock.
Whole == inputs = "whole"

\* Python is unpacked.  Inputs that are not whole are brought in anew, and
\* breaking off leaves a part of them.
Extract(p) ==
  /\ Advance(p, "extract", IF Whole THEN "pip" ELSE "fetch", FALSE)
  /\ inputs' = IF w'[p].pc = "fetch" THEN "part" ELSE inputs
  /\ UNCHANGED <<disk, asked, holder, mishaps>>

Fetched(p) ==
  /\ Advance(p, "fetch", "pip", FALSE)
  /\ inputs' = IF w'[p].pc = "pip" THEN "whole" ELSE inputs
  /\ UNCHANGED <<disk, asked, holder, mishaps>>

\* pip, the product's wheels and the import checks; then perhaps the second
\* interpreter, built the same way inside the first; then the candidate is
\* probed where it was built and gets its marker.  Whether it also works in
\* its final place shows only there.
Install(p) ==
  /\ \E to \in {"extract", "commit"} : Advance(p, "pip", to, FALSE)
  /\ IF w'[p].pc = "commit"
     THEN \E s \in {"sound", "drifted"} : partial' = [partial EXCEPT !.state = s]
     ELSE UNCHANGED partial
  /\ UNCHANGED <<active, rollback, asked, inputs, holder, mishaps>>

\* Any of this may fail.
BuildSteps == {"extract", "fetch", "pip", "commit", "swapOut"}
BuildFails(p) ==
  /\ \/ \E from \in BuildSteps : Step(p, from, "clean")
     \/ \E from \in {"wait", "clear", "satisfied", "tell"} :
          Step(p, from, "fail")
  /\ UNCHANGED <<disk, log, asked, inputs, holder, mishaps>>

\* From this phase on the operation cannot be cancelled.
Commit(p) ==
  /\ Advance(p, "commit", "swapOut", TRUE)
  /\ UNCHANGED <<disk, asked, inputs, holder, mishaps>>

SwapOut(p) ==
  /\ Step(p, "swapOut", "swapIn")
  /\ rollback' = IF active = Nothing THEN rollback ELSE active
  /\ active' = Nothing
  /\ UNCHANGED <<partial, log, asked, inputs, holder, mishaps>>

SwapIn(p) ==
  /\ Step(p, "swapIn", "launch")
  /\ active' = partial /\ partial' = Nothing
  /\ UNCHANGED <<rollback, log, asked, inputs, holder, mishaps>>

Launch_Trusting(p) ==
  /\ Step(p, "launch", "succeed")
  /\ UNCHANGED <<disk, log, asked, inputs, holder, mishaps>>

\* _launch verifies the runtime in place.
Launch(p) ==
  /\ Step(p, "launch", IF active.state = "sound" THEN "succeed" ELSE "undo")
  /\ UNCHANGED <<disk, log, asked, inputs, holder, mishaps>>

Succeed(p) ==
  /\ Step(p, "succeed", "unlock")
  /\ log' = End(w[p].op, "succeeded")
  /\ UNCHANGED <<disk, asked, inputs, holder, mishaps>>

\* Nothing to build.
AlreadySatisfied(p) ==
  /\ Advance(p, "satisfied", "tell", FALSE)
  /\ UNCHANGED <<disk, asked, inputs, holder, mishaps>>

TellSatisfied(p) ==
  LET o == w[p].op IN
  /\ w[p].pc = "tell"
  /\ IF log[o].cancel
     THEN Step(p, "tell", "leave") /\ log' = End(o, "cancelled")
     ELSE Step(p, "tell", "unlock") /\ log' = End(o, "succeeded")
  /\ UNCHANGED <<disk, asked, inputs, holder, mishaps>>

\* The lock is given back, and only then the receipt of what was done is built.
Unlock(p) ==
  /\ Step(p, "unlock", "receipt") /\ holder' = None
  /\ UNCHANGED <<disk, log, asked, inputs, mishaps>>

Receipt(p) ==
  /\ w[p].pc = "receipt" /\ Answer(p, "succeeded")
  /\ UNCHANGED <<disk, log, asked, inputs, holder, mishaps>>

\* A rename or the publication of the success fails: the activation is undone.
\* (The renames of the undo are taken to succeed.)
ActivationFails(p) ==
  /\ \E from \in {"swapIn", "launch", "succeed"} : Step(p, from, "undo")
  /\ UNCHANGED <<disk, log, asked, inputs, holder, mishaps>>

UndoOut_Skipped(p) ==
  /\ Step(p, "undo", "undoIn")
  /\ UNCHANGED <<disk, log, asked, inputs, holder, mishaps>>

UndoOut(p) ==
  /\ Step(p, "undo", "undoIn")
  /\ IF active = Nothing THEN UNCHANGED <<active, partial>>
     ELSE active' = Nothing /\ partial' = active
  /\ UNCHANGED <<rollback, log, asked, inputs, holder, mishaps>>

UndoIn(p) ==
  /\ Step(p, "undoIn", "clean")
  /\ IF rollback = Nothing THEN UNCHANGED <<active, rollback>>
     ELSE active' = rollback /\ rollback' = Nothing
  /\ UNCHANGED <<partial, log, asked, inputs, holder, mishaps>>

Clean(p) ==
  /\ Step(p, "clean", IF Ended(w[p].op) THEN "leave" ELSE "fail")
  /\ partial' = Nothing
  /\ UNCHANGED <<active, rollback, log, asked, inputs, holder, mishaps>>

\* reporter.fail; when even that cannot be written the operation stays open.
Fail(p) ==
  /\ Step(p, "fail", "leave")
  /\ \/ log' = End(w[p].op, "failed")
        /\ UNCHANGED mishaps
     \/ UNCHANGED log /\ Mishap
  /\ UNCHANGED <<disk, asked, inputs, holder>>

LeaveWithError(p) ==
  /\ w[p].pc = "leave" /\ Leave(p)
  /\ UNCHANGED <<disk, log, asked, inputs, mishaps>>

-----------------------------------------------------------------------------
\* The process dies.  Its locks are gone, a half-written file stays behind.
Die(p) ==
  /\ w[p].pc # "idle" /\ Mishap
  /\ w' = [w EXCEPT ![p] = Idle]
  /\ holder' = IF holder = p THEN None ELSE holder
  /\ UNCHANGED <<disk, log, asked, inputs>>

\* Something else touches the runtime while no installer is at work.
Damage ==
  /\ holder = None /\ active # Nothing /\ Mishap
  /\ \E s \in {"drifted", "untrusted"} : active' = [active EXCEPT !.state = s]
  /\ UNCHANGED <<rollback, partial, log, asked, inputs, holder, w>>

Work(p) ==
  \/ ApplyRetry(p) \/ AnswerFails(p) \/ Record(p) \/ PlanRefused(p) \/ BindPlan(p)
  \/ Begin(p) \/ BeginNot(p) \/ Prepare(p) \/ Clear(p) \/ Extract(p)
  \/ Fetched(p) \/ Install(p) \/ BuildFails(p) \/ Commit(p)
  \/ SwapOut(p) \/ SwapIn(p) \/ Launch(p) \/ Succeed(p) \/ AlreadySatisfied(p)
  \/ TellSatisfied(p) \/ ActivationFails(p) \/ UndoOut(p) \/ UndoIn(p) \/ Clean(p)
  \/ Unlock(p) \/ Receipt(p) \/ Fail(p) \/ LeaveWithError(p)

Next == \/ \E p \in Procs : Preview(p) \/ Work(p) \/ Die(p)
        \/ \E p \in Procs, o \in Ops : Start(p, o) \/ RetryCommand(p, o)
        \/ \E o \in AllOps : Cancel(o)
        \/ Damage

Spec == Init /\ [][Next]_vars

-----------------------------------------------------------------------------
\* A runtime that was once installed is never lost: between the renames of an
\* activation, in a crash there, in an undo.  And an installer that builds has
\* put it back into its place first.
Building(p) == w[p].pc \in BuildSteps
RuntimeNeverLost ==
  (\E o \in AllOps : log[o].state = "succeeded" /\ intent[o].kind = "ensure")
    => \/ active # Nothing
       \/ rollback # Nothing /\ \A p \in Procs : ~Building(p)

\* A cancel that was accepted never lets the candidate take the runtime's place:
\* until then every phase looks for it, from there on none is accepted.
CancelIsHonoured ==
  \A p \in Procs : w[p].pc \in {"swapOut", "swapIn", "launch", "succeed"}
                   => ~log[w[p].op].cancel

\* What a failed or cancelled operation built is neither in use nor what the
\* next crash would bring back, and no cancelled one goes that far.
RejectedIsNotActive ==
  /\ CancelIsHonoured
  /\ \A o \in AllOps : log[o].state \in {"failed", "cancelled"}
                        => active.by # o /\ rollback.by # o

\* An ensure that is told as succeeded found or put a working runtime of the
\* scope it was asked for in its place, however it got there.
SuccessIsInPlace ==
  [][\A o \in AllOps :
       /\ log[o].state # "succeeded" /\ log'[o].state = "succeeded"
       /\ intent[o].kind = "ensure"
       => active'.state = "sound" /\ active'.scope = intent[o].scope]_vars

\* What a retry command answers, also after the process that executed it died between
\* the end of the work, its lock and the outcome, and another one took it up, is what
\* became of the operation it created, and stays so: an interrupted plan is told as
\* running.  An error is told of work that is done only when its answer failed.
CommandTellsTheOperation ==
  /\ command.state \in Answers \ {"error"} => log[Retry].state = command.state
  /\ command.state = "error" /\ ~command.lost => log[Retry].state # "succeeded"

-----------------------------------------------------------------------------
(* What makes the properties inductive (the proofs are in RuntimeProofs).    *)

RuntimeType == [by : AllOps \cup {None}, scope : Scopes \cup {None},
                state : {"absent", "building", "sound", "drifted", "untrusted"}]
LogType == [state : {"absent", "running", "succeeded", "failed", "cancelled"},
            cancel : BOOLEAN, closed : BOOLEAN]
Pcs == {"idle", "apply", "plan", "decide", "wait", "clear", "extract", "fetch", "pip",
        "commit", "swapOut", "swapIn", "launch", "succeed", "satisfied", "tell",
        "undo", "undoIn", "clean", "fail", "leave", "unlock", "receipt"} \cup Answers
WorkerType == [pc : Pcs, op : AllOps \cup {None}, ask : Intents \cup {NoIntent}]

TypeOK ==
  /\ active \in RuntimeType /\ rollback \in RuntimeType /\ partial \in RuntimeType
  /\ log \in [AllOps -> LogType] /\ intent \in [AllOps -> Intents \cup {NoIntent}]
  /\ plan \in [scope : Scopes \cup {None}, base : RuntimeType, op : AllOps \cup {None}]
  /\ command \in [state : {None, "reserved"} \cup Answers, of : Ops \cup {None},
                  ask : Intents \cup {NoIntent}, lost : BOOLEAN]
  /\ inputs \in {"absent", "part", "whole"} /\ holder \in Procs \cup {None}
  /\ w \in [Procs -> WorkerType] /\ mishaps \in Nat

\* The lock has the one process that works with a runtime.
Unlocked == {"idle", "apply", "receipt"} \cup Answers
OneInstaller ==
  \A p \in Procs : /\ holder = p <=> w[p].pc \notin Unlocked
                   /\ w[p].pc = "idle" => w[p].op = None
                   /\ w[p].pc # "idle" => w[p].op \in AllOps

\* An operation that is executed is open, and as it was asked for.
Executing(p) == w[p].pc \notin Unlocked \cup {"plan", "decide", "unlock"}
Open(p) ==
  LET o == w[p].op IN
  /\ intent[o] = w[p].ask
  /\ \/ log[o].state = "running"
     \/ w[p].pc \in {"clean", "leave"} /\ log[o].state \in {"failed", "cancelled"}
  /\ w[p].pc \in {"swapOut", "swapIn", "launch", "succeed"} => ~log[o].cancel /\ log[o].closed
UnderWay == \A p \in Procs : Executing(p) => Open(p)

\* Whose runtimes lie where, at each step of an execution.
OnlyAccepted ==
  \A o \in AllOps : active.by = o \/ rollback.by = o => log[o].state \in {"running", "succeeded"}
BuiltBy(p, r) == /\ r.by = w[p].op
                 /\ w[p].ask.kind = "ensure" => r.scope = w[p].ask.scope
Lies(p) ==
  LET pc == w[p].pc IN
  /\ rollback.by # w[p].op
  /\ active.by = w[p].op => pc \in {"launch", "succeed", "undo"}
  /\ pc \in {"extract", "fetch", "pip", "commit", "swapOut", "swapIn"} => BuiltBy(p, partial)
  /\ pc \in {"launch", "succeed"} => BuiltBy(p, active)
  /\ pc = "succeed" => active.state = "sound"
  /\ pc \in {"swapIn", "undoIn"} => active = Nothing
  /\ pc \in {"satisfied", "tell"} /\ w[p].ask.kind = "ensure" => Ready(w[p].ask.scope)
  /\ pc \in {"clear"} \cup BuildSteps => rollback = Nothing
Places == \A p \in Procs : Executing(p) => Lies(p)

\* What was installed is in its place, or in the slot an interrupted activation left.
Installed == \E o \in AllOps : log[o].state = "succeeded" /\ intent[o].kind = "ensure"
InstalledStays ==
  Installed => /\ active # Nothing \/ rollback # Nothing
               /\ \A p \in Procs : w[p].pc \in {"swapIn", "launch", "succeed", "undo", "undoIn"}
                                     => rollback # Nothing

\* One process executes the retry; its operation was begun on failed work only, and
\* what it is about to answer is so.
Tells(s) == IF s = "error" THEN log[Retry].state = "succeeded" => command.lost
            ELSE log[Retry].state = s
Begun == \/ log[Retry].state # "absent"
         \/ \E p \in Procs : w[p].op = Retry /\ w[p].pc \notin {"apply"} \cup Answers
RetryIsTold ==
  /\ command.state \in Answers => Tells(command.state)
  /\ \A p, q \in Procs : w[p].op = Retry /\ w[q].op = Retry => p = q
  /\ \A p \in Procs : /\ w[p].pc \in {"apply"} \cup Answers => w[p].op = Retry
                      /\ w[p].op = Retry =>
                           /\ command.state = "reserved"
                           /\ w[p].pc \in {"plan", "decide"} => log[Retry].state = "absent"
                           /\ w[p].pc \in {"unlock", "receipt"} => Tells("succeeded")
                           /\ w[p].pc \in Answers => Tells(w[p].pc)
  /\ command.state = None => log[Retry].state = "absent"
  /\ command.state # None => command.of \in Ops
  /\ Begun => Retryable

IInv == TypeOK /\ OneInstaller /\ UnderWay /\ OnlyAccepted /\ Places /\ InstalledStays /\ RetryIsTold

=============================================================================
