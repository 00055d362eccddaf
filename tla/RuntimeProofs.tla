---------------------------- MODULE RuntimeProofs ----------------------------
(***************************************************************************)
(* Installing and repairing the runtime, for any processes, operations,     *)
(* scopes and mishaps: an installed runtime is never lost, the runtime of a *)
(* rejected operation is not in use, what succeeded is in its place, a      *)
(* retry command tells what became of its operation, and what the service   *)
(* tells of its runtime meanwhile, and admits jobs by, is true.  The journal *)
(* of an operation stays readable and implements OperationLog, for any      *)
(* number of events.                                                        *)
(***************************************************************************)
EXTENDS RuntimeStatus, RuntimeJournal, TLAPS

USE DEF Unlocked, Answers

\* What process p does changes no other process.
OthersStay(p) == \A q \in Procs \ {p} : w'[q] = w[q]

LEMMA Names ==
  /\ None \notin Procs /\ None \notin AllOps /\ None \notin Scopes
  /\ Retry \in AllOps /\ Earlier \in AllOps /\ Ops \subseteq AllOps
  /\ Retry \notin Ops /\ Earlier \notin Ops /\ Earlier # Retry
  /\ (CHOOSE s \in Scopes : TRUE) \in Scopes
BY InstallAssumption DEF AllOps

LEMMA Records ==
  /\ Nothing \in RuntimeType /\ NoLog \in LogType /\ Idle \in WorkerType
  /\ NoIntent \notin Intents
  /\ NoPlan \in [scope : Scopes \cup {None}, base : RuntimeType, op : AllOps \cup {None}]
  /\ \A i \in Intents : /\ i.kind \in {"ensure", "repair"} /\ i.scope \in Scopes
                        /\ i.planned \in BOOLEAN
<1>1. Nothing \in RuntimeType
  BY DEF Nothing, RuntimeType
<1>2. NoLog \in LogType
  BY DEF NoLog, LogType
<1>3. Idle \in WorkerType
  BY DEF Idle, WorkerType, Pcs
<1>4. \A i \in Intents : /\ i.kind \in {"ensure", "repair"} /\ i.scope \in Scopes
                         /\ i.planned \in BOOLEAN
  BY Names DEF Intents
<1>5. NoIntent \notin Intents
  BY <1>4 DEF NoIntent, None
<1> QED BY <1>1, <1>2, <1>3, <1>4, <1>5 DEF NoPlan

LEMMA Moved ==
  ASSUME w \in [Procs -> WorkerType], NEW p \in Procs, NEW to \in Pcs,
         w' = [w EXCEPT ![p].pc = to]
  PROVE  /\ w' \in [Procs -> WorkerType] /\ OthersStay(p)
         /\ w'[p].pc = to /\ w'[p].op = w[p].op /\ w'[p].ask = w[p].ask
<1>1. PICK x : x = [w[p] EXCEPT !.pc = to]
  OBVIOUS
<1>2. x \in WorkerType /\ x.pc = to /\ x.op = w[p].op /\ x.ask = w[p].ask
  BY <1>1 DEF WorkerType
<1>3. w' = [w EXCEPT ![p] = x]
  BY <1>1
<1> QED BY <1>2, <1>3 DEF OthersStay

LEMMA Replaced ==
  ASSUME w \in [Procs -> WorkerType], NEW p \in Procs, NEW x \in WorkerType,
         w' = [w EXCEPT ![p] = x]
  PROVE  w' \in [Procs -> WorkerType] /\ OthersStay(p) /\ w'[p] = x
BY DEF OthersStay

LEMMA Stepped ==
  ASSUME w \in [Procs -> WorkerType], NEW p \in Procs, NEW from, NEW to \in Pcs,
         Step(p, from, to)
  PROVE  /\ w' \in [Procs -> WorkerType] /\ OthersStay(p) /\ w[p].pc = from
         /\ w'[p].pc = to /\ w'[p].op = w[p].op /\ w'[p].ask = w[p].ask
<1>1. w[p].pc = from /\ w' = [w EXCEPT ![p].pc = to]
  BY DEF Step
<1> QED BY <1>1, Moved

\* How the log changes: one entry, or not at all.
OneEntry(o, r) == log'[o] = r /\ \A x \in AllOps \ {o} : log'[x] = log[x]

LEMMA Written ==
  ASSUME log \in [AllOps -> LogType], NEW o \in AllOps, NEW r \in LogType,
         log' = [log EXCEPT ![o] = r]
  PROVE  log' \in [AllOps -> LogType] /\ OneEntry(o, r)
BY DEF OneEntry

LEMMA EndTyped ==
  ASSUME log \in [AllOps -> LogType], NEW o \in AllOps,
         NEW s \in {"succeeded", "failed", "cancelled"}, log' = End(o, s)
  PROVE  /\ log' \in [AllOps -> LogType] /\ log'[o].state = s
         /\ OneEntry(o, [NoLog EXCEPT !.state = s])
<1>1. PICK r : r = [NoLog EXCEPT !.state = s]
  OBVIOUS
<1>2. r \in LogType /\ r.state = s
  BY <1>1 DEF NoLog, LogType
<1>3. log' = [log EXCEPT ![o] = r]
  BY <1>1 DEF End
<1> QED BY <1>1, <1>2, <1>3, Written DEF OneEntry

\* One phase of an execution: where the worker is, and what it told.
Phase(p, from, to, closed) ==
  /\ w' \in [Procs -> WorkerType] /\ OthersStay(p) /\ w[p].pc = from
  /\ w'[p].op = w[p].op /\ w'[p].ask = w[p].ask
  /\ log' \in [AllOps -> LogType]
  /\ \A x \in AllOps \ {w[p].op} : log'[x] = log[x]
  /\ log[w[p].op].cancel => /\ w'[p].pc = IF Staged(p) THEN "clean" ELSE "leave"
                            /\ log'[w[p].op].state = "cancelled"
  /\ ~log[w[p].op].cancel => /\ w'[p].pc = to
                             /\ log'[w[p].op] = [log[w[p].op] EXCEPT !.closed = closed]

LEMMA Advanced ==
  ASSUME w \in [Procs -> WorkerType], log \in [AllOps -> LogType],
         NEW p \in Procs, w[p].op \in AllOps, NEW from, NEW to \in Pcs,
         NEW closed \in BOOLEAN, Advance(p, from, to, closed)
  PROVE  Phase(p, from, to, closed)
<1> DEFINE o == w[p].op
<1>1. w[p].pc = from /\ (log[o].cancel \/ ~log[o].cancel)
  BY DEF Advance
<1>2. CASE log[o].cancel
  <2>1. /\ log' = End(o, "cancelled")
        /\ w' = [w EXCEPT ![p].pc = IF Staged(p) THEN "clean" ELSE "leave"]
    BY <1>2 DEF Advance
  <2>2. (IF Staged(p) THEN "clean" ELSE "leave") \in Pcs
    BY DEF Pcs
  <2>3. /\ log' \in [AllOps -> LogType] /\ log'[o].state = "cancelled"
        /\ \A x \in AllOps \ {o} : log'[x] = log[x]
    BY <2>1, EndTyped DEF OneEntry
  <2> HIDE DEF o
  <2>4. /\ w' \in [Procs -> WorkerType] /\ OthersStay(p)
        /\ w'[p].pc = (IF Staged(p) THEN "clean" ELSE "leave")
        /\ w'[p].op = w[p].op /\ w'[p].ask = w[p].ask
    BY <2>1, <2>2, Moved
  <2> QED BY <1>1, <1>2, <2>3, <2>4 DEF o, Phase
<1>3. CASE ~log[o].cancel
  <2>1. /\ log' = [log EXCEPT ![o].closed = closed]
        /\ w' = [w EXCEPT ![p].pc = to]
    BY <1>3 DEF Advance
  <2>2. PICK r : r = [log[o] EXCEPT !.closed = closed]
    OBVIOUS
  <2>3. r \in LogType
    BY <2>2 DEF LogType
  <2>4. log' = [log EXCEPT ![o] = r]
    BY <2>1, <2>2
  <2>5. /\ log' \in [AllOps -> LogType] /\ log'[o] = r
        /\ \A x \in AllOps \ {o} : log'[x] = log[x]
    BY <2>3, <2>4, Written DEF OneEntry
  <2>6. /\ w' \in [Procs -> WorkerType] /\ OthersStay(p) /\ w'[p].pc = to
        /\ w'[p].op = w[p].op /\ w'[p].ask = w[p].ask
    BY <2>1, Moved
  <2> QED BY <1>1, <1>3, <2>2, <2>5, <2>6 DEF Phase
<1> QED BY <1>1, <1>2, <1>3

-----------------------------------------------------------------------------
(* Types.                                                                    *)

LEMMA Changed ==
  ASSUME NEW r \in RuntimeType, NEW s \in {"sound", "drifted", "untrusted"}
  PROVE  /\ [r EXCEPT !.state = s] \in RuntimeType
         /\ [r EXCEPT !.state = s].by = r.by /\ [r EXCEPT !.state = s].scope = r.scope
         /\ [r EXCEPT !.state = s].state = s
BY DEF RuntimeType

LEMMA InitTyped == Init => TypeOK
<1> SUFFICES ASSUME Init PROVE TypeOK
  OBVIOUS
<1>1. active \in RuntimeType
  BY Names, Records DEF Init, RuntimeType
<1>2. log \in [AllOps -> LogType]
  <2>1. [NoLog EXCEPT !.state = "succeeded"] \in LogType
    BY DEF NoLog, LogType
  <2> QED BY <2>1, Records DEF Init
<1>3. intent \in [AllOps -> Intents \cup {NoIntent}]
  <2>1. \A s \in Scopes : [kind |-> "ensure", scope |-> s, planned |-> FALSE] \in Intents
    BY DEF Intents
  <2> QED BY <2>1 DEF Init
<1>4. w \in [Procs -> WorkerType]
  BY Records DEF Init
<1> QED BY <1>1, <1>2, <1>3, <1>4, Records DEF Init, TypeOK, NoCommand

\* The parts of TypeOK that are not about the workers and the log.
RestTyped ==
  /\ active \in RuntimeType /\ rollback \in RuntimeType /\ partial \in RuntimeType
  /\ intent \in [AllOps -> Intents \cup {NoIntent}]
  /\ plan \in [scope : Scopes \cup {None}, base : RuntimeType, op : AllOps \cup {None}]
  /\ command \in [state : {None, "reserved"} \cup Answers, of : Ops \cup {None},
                  ask : Intents \cup {NoIntent}, lost : BOOLEAN]
  /\ inputs \in {"absent", "part", "whole"} /\ holder \in Procs \cup {None}
  /\ mishaps \in Nat

\* A retry keeps its answer until it is recorded, a start request is through.
Answered(p, s) ==
  IF w[p].op = Retry THEN w'[p].pc = s /\ w'[p].op = Retry /\ w'[p].ask = w[p].ask
  ELSE w'[p] = Idle

LEMMA AnswerTyped ==
  ASSUME TypeOK, NEW p \in Procs, NEW s \in Answers, Answer(p, s)
  PROVE  w' \in [Procs -> WorkerType] /\ OthersStay(p) /\ Answered(p, s)
<1>1. CASE w[p].op = Retry
  <2>1. w' = [w EXCEPT ![p] = [w[p] EXCEPT !.pc = s]]
    BY <1>1 DEF Answer
  <2>2. w' = [w EXCEPT ![p].pc = s] /\ s \in Pcs
    BY <2>1 DEF Pcs
  <2>3. /\ w' \in [Procs -> WorkerType] /\ OthersStay(p)
        /\ w'[p].pc = s /\ w'[p].op = w[p].op /\ w'[p].ask = w[p].ask
    BY <2>2, Moved DEF TypeOK
  <2> QED BY <1>1, <2>3 DEF Answered
<1>2. CASE w[p].op # Retry
  <2>1. w' = [w EXCEPT ![p] = Idle]
    BY <1>2 DEF Answer
  <2>2. w' \in [Procs -> WorkerType] /\ OthersStay(p) /\ w'[p] = Idle
    BY <2>1, Records, Replaced DEF TypeOK
  <2> QED BY <1>2, <2>2 DEF Answered
<1> QED BY <1>1, <1>2

LEMMA LockedTyped ==
  ASSUME TypeOK, NEW p \in Procs, NEW o \in AllOps, NEW ask \in Intents \cup {NoIntent},
         Locked(p, o, ask)
  PROVE  /\ w' \in [Procs -> WorkerType] /\ OthersStay(p) /\ holder = None /\ holder' = p
         /\ w'[p].pc \in {"plan", "decide"} /\ w'[p].op = o /\ w'[p].ask = ask
<1>1. PICK x : x = [pc |-> IF ask.planned THEN "plan" ELSE "decide", op |-> o, ask |-> ask]
  OBVIOUS
<1>2. x \in WorkerType /\ x.pc \in {"plan", "decide"} /\ x.op = o /\ x.ask = ask
  BY <1>1 DEF WorkerType, Pcs
<1>3. w' = [w EXCEPT ![p] = x] /\ holder = None /\ holder' = p
  BY <1>1 DEF Locked
<1> QED BY <1>2, <1>3, Replaced DEF TypeOK

-----------------------------------------------------------------------------
(* The step of an installer: what it can touch at all.                       *)

Entries(o) == \A x \in AllOps \ {o} : log'[x] = log[x] /\ intent'[x] = intent[x]

\* It goes on under the lock, or gives it back: with work that is done, or with an error.
GoesOn(p) == /\ w'[p].op = w[p].op /\ w'[p].ask = w[p].ask
             /\ w'[p].pc \notin Unlocked \cup {"plan"} /\ holder' = holder
             /\ command' = command
Quits(p) ==
  /\ holder' = None /\ UNCHANGED <<disk, log, intent, command>>
  /\ \/ /\ w[p].pc = "unlock" /\ w'[p].pc = "receipt"
        /\ w'[p].op = w[p].op /\ w'[p].ask = w[p].ask
     \/ w[p].pc \in {"plan", "decide", "leave"} /\ Answered(p, "error")

Frame(p) == /\ w' \in [Procs -> WorkerType] /\ log' \in [AllOps -> LogType] /\ RestTyped'
            /\ OthersStay(p) /\ Entries(w[p].op)
            /\ Executing(p) => intent' = intent

LEMMA AtWork ==
  ASSUME OneInstaller, NEW p \in Procs, w[p].pc \notin Unlocked
  PROVE  /\ holder = p /\ w[p].op \in AllOps
         /\ \A q \in Procs \ {p} : w[q].pc \in Unlocked
BY DEF OneInstaller

LEMMA Stepping ==
  ASSUME TypeOK, OneInstaller, NEW p \in Procs, Work(p),
         BindPlan(p) \/ Clear(p) \/ BuildFails(p) \/ SwapOut(p) \/ SwapIn(p)
         \/ Launch(p) \/ ActivationFails(p) \/ UndoOut(p) \/ UndoIn(p) \/ Clean(p)
  PROVE  Frame(p) /\ GoesOn(p)
<1> USE DEF Pcs
<1>0. w \in [Procs -> WorkerType] /\ log \in [AllOps -> LogType] /\ RestTyped
  BY DEF TypeOK, RestTyped
<1>1. log' = log /\ intent' = intent /\ command' = command /\ holder' = holder
  BY DEF BindPlan, Clear, BuildFails, SwapOut, SwapIn, Launch, ActivationFails, UndoOut,
         UndoIn, Clean, asked
<1>2. \E from \in Pcs, to \in Pcs \ (Unlocked \cup {"plan"}) : Step(p, from, to)
  <2>1. CASE BindPlan(p)
    BY <2>1 DEF BindPlan
  <2>2. CASE Clear(p)
    BY <2>2 DEF Clear
  <2>3. CASE BuildFails(p)
    <3>1. PICK from \in BuildSteps \cup {"wait", "clear", "satisfied", "tell"} :
            Step(p, from, "clean") \/ Step(p, from, "fail")
      BY <2>3 DEF BuildFails
    <3> QED BY <3>1 DEF BuildSteps
  <2>4. CASE SwapOut(p) \/ SwapIn(p)
    BY <2>4 DEF SwapOut, SwapIn
  <2>5. CASE Launch(p)
    BY <2>5 DEF Launch
  <2>6. CASE ActivationFails(p)
    BY <2>6 DEF ActivationFails
  <2>7. CASE UndoOut(p) \/ UndoIn(p)
    BY <2>7 DEF UndoOut, UndoIn
  <2>8. CASE Clean(p)
    BY <2>8 DEF Clean
  <2> QED BY <2>1, <2>2, <2>3, <2>4, <2>5, <2>6, <2>7, <2>8
<1>3. /\ w' \in [Procs -> WorkerType] /\ OthersStay(p)
      /\ w'[p].pc \notin Unlocked \cup {"plan"} /\ w'[p].op = w[p].op /\ w'[p].ask = w[p].ask
  BY <1>0, <1>2, Stepped
<1>4. RestTyped'
  <2>1. CASE BindPlan(p)
    <3>1. plan' \in [scope : Scopes \cup {None}, base : RuntimeType, op : AllOps \cup {None}]
      BY <2>1, <1>0 DEF BindPlan, RestTyped, TypeOK, WorkerType
    <3> QED BY <2>1, <3>1, <1>0 DEF BindPlan, RestTyped, disk
  <2>2. CASE Clear(p)
    <3>1. w[p].op \in AllOps \cup {None} /\ w[p].ask \in Intents \cup {NoIntent}
      BY <1>0 DEF WorkerType
    <3>2. Target(w[p].ask) \in Scopes \cup {None}
      BY <1>0, <3>1, Records DEF Target, RestTyped, RuntimeType, NoIntent
    <3>3. partial' \in RuntimeType
      BY <2>2, <3>1, <3>2 DEF Clear, RuntimeType
    <3> QED BY <2>2, <3>3, <1>0 DEF Clear, RestTyped, asked
  <2>3. CASE BuildFails(p) \/ Launch(p) \/ ActivationFails(p)
    BY <2>3, <1>0 DEF BuildFails, Launch, ActivationFails, RestTyped, disk, asked
  <2>4. CASE SwapOut(p) \/ SwapIn(p) \/ UndoOut(p) \/ UndoIn(p) \/ Clean(p)
    BY <2>4, <1>0, Records DEF SwapOut, SwapIn, UndoOut, UndoIn, Clean, RestTyped, asked
  <2> QED BY <2>1, <2>2, <2>3, <2>4
<1> QED BY <1>0, <1>1, <1>3, <1>4 DEF Frame, GoesOn, Entries

LEMMA Telling ==
  ASSUME TypeOK, OneInstaller, NEW p \in Procs, Work(p),
         Prepare(p) \/ Extract(p) \/ Fetched(p) \/ Install(p) \/ Commit(p)
         \/ AlreadySatisfied(p)
  PROVE  Frame(p) /\ GoesOn(p)
<1> USE DEF Pcs
<1>0. w \in [Procs -> WorkerType] /\ log \in [AllOps -> LogType] /\ RestTyped
  BY DEF TypeOK, RestTyped
<1>1. intent' = intent /\ command' = command /\ holder' = holder
  BY DEF Prepare, Extract, Fetched, Install, Commit, AlreadySatisfied, asked
<1>2. PICK from \in Pcs \ Unlocked, to \in Pcs \ (Unlocked \cup {"plan"}),
           closed \in BOOLEAN : Advance(p, from, to, closed)
  <2>1. CASE Prepare(p)
    BY <2>1 DEF Prepare
  <2>2. CASE Extract(p)
    BY <2>2 DEF Extract
  <2>3. CASE Fetched(p)
    BY <2>3 DEF Fetched
  <2>4. CASE Install(p)
    BY <2>4 DEF Install
  <2>5. CASE Commit(p) \/ AlreadySatisfied(p)
    BY <2>5 DEF Commit, AlreadySatisfied
  <2> QED BY <2>1, <2>2, <2>3, <2>4, <2>5
<1>3. w[p].op \in AllOps
  <2>1. w[p].pc = from
    BY <1>2 DEF Advance
  <2> QED BY <1>2, <2>1, AtWork
<1>4. /\ w' \in [Procs -> WorkerType] /\ log' \in [AllOps -> LogType] /\ OthersStay(p)
      /\ w'[p].pc \notin Unlocked \cup {"plan"} /\ w'[p].op = w[p].op /\ w'[p].ask = w[p].ask
      /\ \A x \in AllOps \ {w[p].op} : log'[x] = log[x]
  <2>1. /\ w' \in [Procs -> WorkerType] /\ log' \in [AllOps -> LogType] /\ OthersStay(p)
        /\ w'[p].op = w[p].op /\ w'[p].ask = w[p].ask
        /\ \A x \in AllOps \ {w[p].op} : log'[x] = log[x]
        /\ log[w[p].op].cancel => w'[p].pc = IF Staged(p) THEN "clean" ELSE "leave"
        /\ ~log[w[p].op].cancel => w'[p].pc = to
    <3>1. to \in Pcs /\ Advance(p, from, to, closed)
      BY <1>2
    <3> HIDE DEF Pcs, Unlocked
    <3>2. Phase(p, from, to, closed)
      BY <1>0, <1>3, <3>1, Advanced
    <3> QED BY <3>2 DEF Phase
  <2>2. w'[p].pc \notin Unlocked \cup {"plan"}
    BY <2>1, <1>2
  <2> QED BY <2>1, <2>2
<1>5. RestTyped'
  <2>1. CASE Prepare(p)
    BY <2>1, <1>0, Records DEF Prepare, RestTyped, asked
  <2>2. CASE Extract(p) \/ Fetched(p)
    BY <2>2, <1>0 DEF Extract, Fetched, RestTyped, disk, asked
  <2>3. CASE Install(p)
    <3>1. partial' \in RuntimeType
      <4>1. \/ partial' = partial
            \/ \E s \in {"sound", "drifted"} : partial' = [partial EXCEPT !.state = s]
        BY <2>3 DEF Install
      <4>2. partial \in RuntimeType
        BY <1>0 DEF RestTyped
      <4>3. ASSUME NEW s \in {"sound", "drifted"}, partial' = [partial EXCEPT !.state = s]
            PROVE  partial' \in RuntimeType
        BY <4>2, <4>3, Changed
      <4> QED BY <4>1, <4>2, <4>3
    <3> QED BY <2>3, <3>1, <1>0 DEF Install, RestTyped, asked
  <2>4. CASE Commit(p) \/ AlreadySatisfied(p)
    BY <2>4, <1>0 DEF Commit, AlreadySatisfied, RestTyped, disk, asked
  <2> QED BY <2>1, <2>2, <2>3, <2>4
<1> QED BY <1>0, <1>1, <1>4, <1>5 DEF Frame, GoesOn, Entries

LEMMA Quitting ==
  ASSUME TypeOK, OneInstaller, NEW p \in Procs,
         PlanRefused(p) \/ BeginNot(p) \/ LeaveWithError(p) \/ Unlock(p)
  PROVE  Frame(p) /\ Quits(p) /\ w[p].pc \in {"plan", "decide", "leave", "unlock"}
<1>0. RestTyped /\ log \in [AllOps -> LogType]
  BY DEF TypeOK, RestTyped
<1>1. UNCHANGED <<disk, log, asked, inputs, mishaps>> /\ holder' = None
  BY DEF PlanRefused, BeginNot, LeaveWithError, Unlock, Leave
<1>2. CASE Unlock(p)
  <2>1. /\ w' \in [Procs -> WorkerType] /\ OthersStay(p) /\ w[p].pc = "unlock"
        /\ w'[p].pc = "receipt" /\ w'[p].op = w[p].op /\ w'[p].ask = w[p].ask
    BY <1>2, Stepped DEF Unlock, TypeOK, Pcs
  <2> QED BY <1>0, <1>1, <2>1 DEF Frame, Quits, Entries, RestTyped, disk, asked
<1>3. CASE PlanRefused(p) \/ BeginNot(p) \/ LeaveWithError(p)
  <2>1. Answer(p, "error") /\ w[p].pc \in {"plan", "decide", "leave"}
    BY <1>3 DEF PlanRefused, BeginNot, LeaveWithError, Leave
  <2>2. w' \in [Procs -> WorkerType] /\ OthersStay(p) /\ Answered(p, "error")
    BY <2>1, AnswerTyped
  <2> QED BY <1>0, <1>1, <2>1, <2>2 DEF Frame, Quits, Entries, RestTyped, disk, asked
<1> QED BY <1>2, <1>3

\* The end of the work is told.
LEMMA Ending ==
  ASSUME TypeOK, OneInstaller, NEW p \in Procs, Succeed(p) \/ TellSatisfied(p)
  PROVE  /\ Frame(p) /\ GoesOn(p) /\ w[p].pc \in {"succeed", "tell"} /\ UNCHANGED disk
         /\ \/ w'[p].pc = "unlock" /\ log'[w[p].op].state = "succeeded"
            \/ /\ w[p].pc = "tell" /\ w'[p].pc = "leave"
               /\ log'[w[p].op].state = "cancelled"
<1> DEFINE o == w[p].op
<1>0. w \in [Procs -> WorkerType] /\ log \in [AllOps -> LogType] /\ RestTyped
  BY DEF TypeOK, RestTyped
<1>1. UNCHANGED <<disk, asked, inputs, holder, mishaps>>
  BY DEF Succeed, TellSatisfied
<1>2. PICK from \in {"succeed", "tell"}, to \in {"unlock", "leave"},
           end \in {"succeeded", "cancelled"} :
        /\ Step(p, from, to) /\ log' = End(o, end)
        /\ to = "unlock" => end = "succeeded"
        /\ to = "leave" => end = "cancelled" /\ from = "tell"
  BY DEF Succeed, TellSatisfied
<1>3. /\ w' \in [Procs -> WorkerType] /\ OthersStay(p) /\ w[p].pc = from
      /\ w'[p].pc = to /\ w'[p].op = o /\ w'[p].ask = w[p].ask
  BY <1>0, <1>2, Stepped DEF Pcs
<1>4. o \in AllOps
  BY <1>3, AtWork
<1>5. /\ log' \in [AllOps -> LogType] /\ log'[o].state = end
      /\ \A x \in AllOps \ {o} : log'[x] = log[x]
  BY <1>0, <1>2, <1>4, EndTyped DEF OneEntry
<1>6. RestTyped'
  BY <1>0, <1>1 DEF RestTyped, disk, asked
<1> QED BY <1>1, <1>2, <1>3, <1>5, <1>6 DEF Frame, GoesOn, Entries, asked

LEMMA Beginning ==
  ASSUME TypeOK, OneInstaller, NEW p \in Procs, Begin(p)
  PROVE  /\ Frame(p) /\ GoesOn(p) /\ log[w[p].op] = NoLog
         /\ log'[w[p].op] = [NoLog EXCEPT !.state = "running"]
         /\ intent'[w[p].op] = w[p].ask
         /\ w[p].pc = "decide" /\ w'[p].pc \in {"fail", "wait", "satisfied", "tell"}
         /\ w'[p].pc \in {"satisfied", "tell"} /\ w[p].ask.kind = "ensure" => Ready(w[p].ask.scope)
         /\ UNCHANGED <<disk, command, holder>>
<1> DEFINE o == w[p].op
<1>0. /\ w \in [Procs -> WorkerType] /\ log \in [AllOps -> LogType] /\ RestTyped
      /\ w[p].pc = "decide" /\ o \in AllOps /\ w[p].ask \in Intents \cup {NoIntent}
  BY AtWork DEF TypeOK, RestTyped, Begin, WorkerType
<1>1. PICK done \in Satisfied(w[p].ask), to \in {"fail", "wait", "satisfied", "tell"} :
        /\ w' = [w EXCEPT ![p].pc = to]
        /\ to \in {"satisfied", "tell"} /\ w[p].ask.kind = "ensure" => done
  BY DEF Begin
<1>2. /\ w' \in [Procs -> WorkerType] /\ OthersStay(p) /\ w'[p].pc = to
      /\ w'[p].op = o /\ w'[p].ask = w[p].ask
  BY <1>0, <1>1, Moved DEF Pcs
<1>3. w'[p].pc \in {"satisfied", "tell"} /\ w[p].ask.kind = "ensure" => Ready(w[p].ask.scope)
  BY <1>1, <1>2 DEF Satisfied
<1>4. /\ log[o] = NoLog /\ log' = [log EXCEPT ![o].state = "running"]
      /\ intent' = [intent EXCEPT ![o] = w[p].ask]
      /\ UNCHANGED <<disk, plan, command, inputs, holder, mishaps>>
  BY DEF Begin
<1>5. /\ log' \in [AllOps -> LogType] /\ log'[o] = [NoLog EXCEPT !.state = "running"]
      /\ \A x \in AllOps \ {o} : log'[x] = log[x]
  <2>1. PICK r : r = [NoLog EXCEPT !.state = "running"]
    OBVIOUS
  <2>2. r \in LogType
    BY <2>1 DEF NoLog, LogType
  <2>3. log' = [log EXCEPT ![o] = r]
    BY <1>4, <2>1
  <2> QED BY <1>0, <2>1, <2>2, <2>3, Written DEF OneEntry
<1>6. /\ intent' \in [AllOps -> Intents \cup {NoIntent}] /\ intent'[o] = w[p].ask
      /\ \A x \in AllOps \ {o} : intent'[x] = intent[x]
  BY <1>0, <1>4 DEF RestTyped
<1>7. RestTyped'
  BY <1>0, <1>4, <1>6 DEF RestTyped, disk
<1>8. Frame(p)
  BY <1>0, <1>2, <1>5, <1>6, <1>7 DEF Frame, Entries, Executing
<1>9. GoesOn(p)
  BY <1>1, <1>2, <1>4 DEF GoesOn
<1> QED BY <1>0, <1>1, <1>2, <1>3, <1>4, <1>5, <1>6, <1>8, <1>9

LEMMA Failing ==
  ASSUME TypeOK, OneInstaller, NEW p \in Procs, Fail(p)
  PROVE  /\ Frame(p) /\ GoesOn(p) /\ w[p].pc = "fail" /\ w'[p].pc = "leave"
         /\ log' = log \/ log'[w[p].op].state = "failed"
         /\ UNCHANGED disk
<1> DEFINE o == w[p].op
<1>0. /\ w \in [Procs -> WorkerType] /\ log \in [AllOps -> LogType] /\ RestTyped
  BY DEF TypeOK, RestTyped
<1>1. /\ w' \in [Procs -> WorkerType] /\ OthersStay(p) /\ w[p].pc = "fail"
      /\ w'[p].pc = "leave" /\ w'[p].op = o /\ w'[p].ask = w[p].ask
  BY <1>0, Stepped DEF Fail, Pcs
<1>2. o \in AllOps
  BY <1>1, AtWork
<1>3. UNCHANGED <<disk, asked, inputs, holder>> /\ mishaps' \in Nat
  BY <1>0 DEF Fail, Mishap, RestTyped
<1>4. /\ log' \in [AllOps -> LogType] /\ \A x \in AllOps \ {o} : log'[x] = log[x]
      /\ log' = log \/ log'[o].state = "failed"
  <2>1. CASE log' = log
    BY <2>1, <1>0
  <2>2. CASE log' = End(o, "failed")
    BY <2>2, <1>0, <1>2, EndTyped DEF OneEntry
  <2> QED BY <2>1, <2>2 DEF Fail
<1>5. RestTyped'
  BY <1>0, <1>3 DEF RestTyped, disk, asked
<1> QED BY <1>1, <1>3, <1>4, <1>5 DEF Frame, GoesOn, Entries, asked

\* Every step under the lock.
LEMMA Framing ==
  ASSUME TypeOK, OneInstaller, NEW p \in Procs, Work(p), w[p].pc \notin Unlocked
  PROVE  /\ Frame(p) /\ (GoesOn(p) \/ Quits(p))
         /\ w[p].op \in AllOps /\ holder = p
         /\ \A q \in Procs \ {p} : w[q].pc \in Unlocked
<1>1. CASE PlanRefused(p) \/ BeginNot(p) \/ LeaveWithError(p) \/ Unlock(p)
  BY <1>1, Quitting, AtWork
<1>2. CASE BindPlan(p) \/ Clear(p) \/ BuildFails(p) \/ SwapOut(p) \/ SwapIn(p)
           \/ Launch(p) \/ ActivationFails(p) \/ UndoOut(p) \/ UndoIn(p) \/ Clean(p)
  BY <1>2, Stepping, AtWork
<1>3. CASE Prepare(p) \/ Extract(p) \/ Fetched(p) \/ Install(p) \/ Commit(p)
           \/ AlreadySatisfied(p)
  BY <1>3, Telling, AtWork
<1>4. CASE Begin(p)
  BY <1>4, Beginning, AtWork
<1>5. CASE Fail(p)
  BY <1>5, Failing, AtWork
<1>6. CASE Succeed(p) \/ TellSatisfied(p)
  BY <1>6, Ending, AtWork
<1>7. ~(ApplyRetry(p) \/ AnswerFails(p) \/ Record(p) \/ Receipt(p))
  BY DEF ApplyRetry, AnswerFails, Record, Receipt
<1> QED BY <1>1, <1>2, <1>3, <1>4, <1>5, <1>6, <1>7 DEF Work

\* The retry gets the lock, for work that can be retried and no operation of its own
\* yet, or is told what became of its operation.
GetsTheLock(p) ==
  /\ holder = None /\ holder' = p
  /\ w'[p].pc \in {"plan", "decide"} /\ w'[p].op = Retry /\ w'[p].ask = RetryAsk
  /\ log[Retry].state = "absent" /\ Retryable
IsTold(p) ==
  /\ w'[p].pc \in Answers /\ Tells(w'[p].pc) /\ w'[p].op = Retry /\ holder' = holder

LEMMA Applying ==
  ASSUME TypeOK, RetryIsTold, NEW p \in Procs, ApplyRetry(p)
  PROVE  /\ w[p].pc = "apply" /\ w[p].op = Retry /\ command.of \in Ops
         /\ UNCHANGED <<disk, log, asked>>
         /\ w' \in [Procs -> WorkerType] /\ OthersStay(p) /\ RestTyped'
         /\ GetsTheLock(p) \/ IsTold(p)
<1> DEFINE o == command.of
<1>0. /\ w[p].pc = "apply" /\ w[p].op = Retry /\ o \in Ops /\ RestTyped
      /\ UNCHANGED <<disk, log, asked, inputs, mishaps>>
  <2>1. w[p].pc = "apply" /\ UNCHANGED <<disk, log, asked, inputs, mishaps>>
    BY DEF ApplyRetry
  <2>2. w[p].op = Retry /\ command.state = "reserved"
    BY <2>1 DEF RetryIsTold
  <2>3. o \in Ops
    BY <2>2 DEF RetryIsTold, None
  <2> QED BY <2>1, <2>2, <2>3 DEF RestTyped, TypeOK
<1>1. \/ \E s \in Answers : Answer(p, s) /\ holder' = holder /\ Tells(s)
      \/ Locked(p, Retry, RetryAsk) /\ log[Retry].state = "absent" /\ Retryable
  <2>0. log[Retry].state \in {"absent"} \cup Answers
    BY Names DEF TypeOK, LogType
  <2>1. CASE ~Retryable
    <3>1. Answer(p, "error") /\ holder' = holder
      BY <2>1 DEF ApplyRetry
    <3>2. log[Retry].state # "succeeded"
      BY <2>1 DEF RetryIsTold, Begun
    <3> QED BY <3>1, <3>2 DEF Tells
  <2>2. CASE Retryable /\ log[Retry].state # "absent"
    <3>1. PICK s \in {log[Retry].state, "error"} :
            /\ Answer(p, s) /\ holder' = holder
            /\ log[Retry].state = "succeeded" => s = "succeeded"
      BY <2>2 DEF ApplyRetry
    <3> QED BY <2>0, <2>2, <3>1 DEF Tells
  <2>3. CASE Retryable /\ log[Retry].state = "absent"
    <3>1. \/ Locked(p, Retry, RetryAsk)
          \/ Answer(p, "error") /\ holder' = holder
      BY <2>3 DEF ApplyRetry
    <3> QED BY <2>3, <3>1 DEF Tells
  <2> QED BY <2>1, <2>2, <2>3
<1>2. ASSUME NEW s \in Answers, Answer(p, s), holder' = holder, Tells(s)
      PROVE  w' \in [Procs -> WorkerType] /\ OthersStay(p) /\ RestTyped' /\ IsTold(p)
  <2>1. w' \in [Procs -> WorkerType] /\ OthersStay(p) /\ Answered(p, s)
    BY <1>2, AnswerTyped
  <2> QED BY <1>0, <1>2, <2>1 DEF IsTold, Answered, RestTyped, disk, asked
<1>3. CASE Locked(p, Retry, RetryAsk) /\ log[Retry].state = "absent" /\ Retryable
  <2>1. RetryAsk \in Intents \cup {NoIntent}
    BY <1>0, Names DEF RestTyped, RetryAsk
  <2>2. /\ w' \in [Procs -> WorkerType] /\ OthersStay(p) /\ holder = None /\ holder' = p
        /\ w'[p].pc \in {"plan", "decide"} /\ w'[p].op = Retry /\ w'[p].ask = RetryAsk
    BY <1>3, <2>1, Names, LockedTyped
  <2> QED BY <1>0, <1>3, <2>2 DEF GetsTheLock, RestTyped, disk, asked
<1> QED BY <1>0, <1>1, <1>2, <1>3

\* The answer to work that is done is built, or cannot be.
LEMMA Receiving ==
  ASSUME TypeOK, OneInstaller, RetryIsTold, NEW p \in Procs, AnswerFails(p) \/ Receipt(p)
  PROVE  /\ w[p].pc \in {"apply", "receipt"} /\ UNCHANGED <<disk, log, intent, holder>>
         /\ w' \in [Procs -> WorkerType] /\ OthersStay(p) /\ RestTyped'
         /\ command'.state = command.state /\ command'.of = command.of
         /\ command'.ask = command.ask /\ (command.lost => command'.lost)
         /\ \/ w[p].op # Retry /\ w'[p] = Idle
            \/ /\ w[p].op = Retry /\ w'[p].op = Retry
               /\ \E s \in Answers : w'[p].pc = s /\ Tells(s)'
<1>0. RestTyped
  BY DEF RestTyped, TypeOK
<1>1. CASE Receipt(p)
  <2>1. /\ w[p].pc = "receipt" /\ Answer(p, "succeeded")
        /\ UNCHANGED <<disk, log, asked, inputs, holder, mishaps>>
    BY <1>1 DEF Receipt
  <2>2. w' \in [Procs -> WorkerType] /\ OthersStay(p) /\ Answered(p, "succeeded")
    BY <2>1, AnswerTyped
  <2>3. w[p].op = Retry => log[Retry].state = "succeeded"
    BY <2>1 DEF RetryIsTold, Tells
  <2>4. RestTyped'
    BY <1>0, <2>1 DEF RestTyped, disk, asked
  <2> QED BY <2>1, <2>2, <2>3, <2>4 DEF Answered, Tells, asked
<1>2. CASE AnswerFails(p)
  <2>1. /\ w[p].pc \in {"apply", "receipt"} /\ Answer(p, "error")
        /\ UNCHANGED <<disk, log, intent, plan, inputs, holder>> /\ mishaps' \in Nat
    BY <1>2 DEF AnswerFails, Mishap, TypeOK
  <2>2. w' \in [Procs -> WorkerType] /\ OthersStay(p) /\ Answered(p, "error")
    BY <2>1, AnswerTyped
  <2>3. PICK b \in BOOLEAN :
          /\ b = (command.lost \/ (w[p].op = Retry /\ log[Retry].state = "succeeded"))
          /\ command' = [command EXCEPT !.lost = b]
    BY <1>2 DEF AnswerFails
  <2>4. /\ command' \in [state : {None, "reserved"} \cup Answers, of : Ops \cup {None},
                         ask : Intents \cup {NoIntent}, lost : BOOLEAN]
        /\ command'.state = command.state /\ command'.of = command.of
        /\ command'.ask = command.ask /\ command'.lost = b
    BY <1>0, <2>3 DEF RestTyped
  <2>5. RestTyped'
    BY <1>0, <2>1, <2>4 DEF RestTyped, disk
  <2> QED BY <2>1, <2>2, <2>3, <2>4, <2>5 DEF Answered, Tells
<1> QED BY <1>1, <1>2

\* The outcome of the command is recorded.
LEMMA Recording ==
  ASSUME TypeOK, NEW p \in Procs, Record(p)
  PROVE  /\ w[p].pc \in Answers /\ UNCHANGED <<disk, log, intent, holder>>
         /\ w' \in [Procs -> WorkerType] /\ OthersStay(p) /\ RestTyped' /\ w'[p] = Idle
         /\ command'.state = w[p].pc /\ command'.of = command.of
         /\ command'.ask = command.ask /\ command'.lost = command.lost
<1>0. RestTyped
  BY DEF RestTyped, TypeOK
<1>1. /\ w[p].pc \in Answers /\ w' = [w EXCEPT ![p] = Idle]
      /\ command' = [command EXCEPT !.state = w[p].pc]
      /\ UNCHANGED <<disk, log, intent, plan, inputs, holder, mishaps>>
  BY DEF Record
<1>2. w' \in [Procs -> WorkerType] /\ OthersStay(p) /\ w'[p] = Idle
  BY <1>1, Records, Replaced DEF TypeOK
<1>3. PICK s \in Answers : s = w[p].pc
  BY <1>1
<1>4. /\ command' \in [state : {None, "reserved"} \cup Answers, of : Ops \cup {None},
                       ask : Intents \cup {NoIntent}, lost : BOOLEAN]
      /\ command'.state = s /\ command'.of = command.of
      /\ command'.ask = command.ask /\ command'.lost = command.lost
  BY <1>0, <1>1, <1>3 DEF RestTyped
<1>5. RestTyped'
  BY <1>0, <1>1, <1>4 DEF RestTyped, disk
<1> QED BY <1>1, <1>2, <1>3, <1>4, <1>5

LEMMA Starting ==
  ASSUME TypeOK, OneInstaller, NEW p \in Procs, NEW o \in Ops, Start(p, o)
  PROVE  /\ w[p].pc = "idle" /\ holder = None /\ holder' = p
         /\ UNCHANGED <<disk, log, asked>>
         /\ w' \in [Procs -> WorkerType] /\ OthersStay(p) /\ RestTyped'
         /\ w'[p].pc \in {"plan", "decide"} /\ w'[p].op = o
<1>1. w[p].pc = "idle" /\ UNCHANGED <<disk, log, asked, inputs, mishaps>>
  BY DEF Start
<1>2. PICK i \in Intents : Locked(p, o, i)
  BY DEF Start
<1>3. /\ w' \in [Procs -> WorkerType] /\ OthersStay(p) /\ holder = None /\ holder' = p
      /\ w'[p].pc \in {"plan", "decide"} /\ w'[p].op = o
  BY <1>2, Names, LockedTyped
<1> QED BY <1>1, <1>3 DEF RestTyped, TypeOK, disk, asked

LEMMA Commanding ==
  ASSUME TypeOK, NEW p \in Procs, NEW o \in Ops, RetryCommand(p, o)
  PROVE  /\ w[p].pc = "idle" /\ CommandFree /\ UNCHANGED <<disk, log, intent, holder>>
         /\ command'.state = "reserved" /\ command'.of = o
         /\ command.state = None \/ (command.state = "reserved" /\ command' = command)
         /\ w' \in [Procs -> WorkerType] /\ OthersStay(p) /\ RestTyped'
         /\ w'[p].pc = "apply" /\ w'[p].op = Retry
<1>1. PICK x : x = [Idle EXCEPT !.pc = "apply", !.op = Retry]
  OBVIOUS
<1>2. x \in WorkerType /\ x.pc = "apply" /\ x.op = Retry
  BY <1>1, Names DEF Idle, WorkerType, Pcs
<1>3. w' = [w EXCEPT ![p] = x]
  BY <1>1 DEF RetryCommand
<1>4. w' \in [Procs -> WorkerType] /\ OthersStay(p) /\ w'[p].pc = "apply" /\ w'[p].op = Retry
  BY <1>2, <1>3, Replaced DEF TypeOK
<1>5. /\ w[p].pc = "idle" /\ CommandFree
      /\ UNCHANGED <<disk, log, intent, plan, inputs, holder, mishaps>>
  BY DEF RetryCommand
<1>6. /\ command'.state = "reserved" /\ command'.of = o
      /\ command.state = None \/ (command.state = "reserved" /\ command' = command)
      /\ command' \in [state : {None, "reserved"} \cup Answers, of : Ops \cup {None},
                       ask : Intents \cup {NoIntent}, lost : BOOLEAN]
  <2>1. CASE command.state = "reserved" /\ command.of = o /\ command' = command
    BY <2>1 DEF TypeOK
  <2>2. CASE /\ command.state = None
             /\ \E ask \in {NoIntent} \cup {i \in Intents : i.kind = "ensure"} :
                  command' = [NoCommand EXCEPT !.state = "reserved", !.of = o, !.ask = ask]
    <3>1. PICK ask \in Intents \cup {NoIntent} :
            command' = [NoCommand EXCEPT !.state = "reserved", !.of = o, !.ask = ask]
      BY <2>2
    <3> QED BY <2>2, <3>1 DEF NoCommand
  <2> QED BY <2>1, <2>2 DEF RetryCommand
<1>7. RestTyped'
  BY <1>5, <1>6 DEF RestTyped, TypeOK, disk
<1> QED BY <1>4, <1>5, <1>6, <1>7

LEMMA Dying ==
  ASSUME TypeOK, NEW p \in Procs, Die(p)
  PROVE  /\ UNCHANGED <<disk, log, asked>> /\ w' \in [Procs -> WorkerType] /\ OthersStay(p)
         /\ w'[p] = Idle /\ holder' = (IF holder = p THEN None ELSE holder) /\ RestTyped'
<1>1. w' = [w EXCEPT ![p] = Idle]
  BY DEF Die
<1>2. w' \in [Procs -> WorkerType] /\ OthersStay(p) /\ w'[p] = Idle
  BY <1>1, Records, Replaced DEF TypeOK
<1>3. /\ UNCHANGED <<disk, log, asked, inputs>> /\ mishaps' \in Nat
      /\ holder' = IF holder = p THEN None ELSE holder
  BY DEF Die, Mishap, TypeOK
<1> QED BY <1>2, <1>3 DEF RestTyped, TypeOK, disk, asked

\* What nobody under the lock does: it changes no worker and no intent.
Aside == (\E p \in Procs : Preview(p)) \/ (\E o \in AllOps : Cancel(o)) \/ Damage

LEMMA AsideFrame ==
  ASSUME TypeOK, Aside
  PROVE  /\ UNCHANGED <<intent, command, holder, w, rollback, partial>> /\ RestTyped'
         /\ log' \in [AllOps -> LogType]
         /\ \A o \in AllOps : /\ log'[o].state = log[o].state /\ log'[o].closed = log[o].closed
                              /\ log[o] = NoLog => log'[o] = NoLog
                              /\ log[o].closed => log'[o] = log[o]
         /\ \/ active' = active
            \/ holder = None /\ active # Nothing /\ log' = log /\ active' # Nothing /\ active'.by = active.by
<1>1. CASE \E p \in Procs : Preview(p)
  <2>1. UNCHANGED <<disk, log, intent, command, inputs, holder, w, mishaps>>
    BY <1>1 DEF Preview
  <2>2. plan' \in [scope : Scopes \cup {None}, base : RuntimeType, op : AllOps \cup {None}]
    BY <1>1 DEF Preview, Baseline, TypeOK
  <2> QED BY <2>1, <2>2 DEF RestTyped, TypeOK, disk
<1>2. CASE \E o \in AllOps : Cancel(o)
  <2>1. PICK o \in AllOps : Cancel(o)
    BY <1>2
  <2>2. PICK r : r = [log[o] EXCEPT !.cancel = TRUE]
    OBVIOUS
  <2>3. r \in LogType /\ r.state = log[o].state /\ r.closed = log[o].closed
    BY <2>2, ZenonT(60) DEF TypeOK, LogType
  <2>4. log' = [log EXCEPT ![o] = r] /\ log[o].state = "running" /\ ~log[o].closed
    BY <2>1, <2>2 DEF Cancel
  <2>5. /\ log' \in [AllOps -> LogType] /\ log'[o] = r
        /\ \A x \in AllOps \ {o} : log'[x] = log[x]
    BY <2>3, <2>4, Written DEF TypeOK, OneEntry
  <2>6. UNCHANGED <<disk, asked, inputs, holder, w, mishaps>>
    BY <2>1 DEF Cancel
  <2>7. \A x \in AllOps : /\ log'[x].state = log[x].state /\ log'[x].closed = log[x].closed
                          /\ log[x] = NoLog => log'[x] = NoLog
                          /\ log[x].closed => log'[x] = log[x]
    <3>1. log'[o].state = log[o].state /\ log'[o].closed = log[o].closed
      BY <2>3, <2>5
    <3>2. log[o] # NoLog
      BY <2>4 DEF NoLog
    <3> QED BY <2>4, <2>5, <3>1, <3>2
  <2>8. UNCHANGED <<intent, command, holder, w, rollback, partial, active, plan, inputs, mishaps>>
    BY <2>6 DEF disk, asked
  <2> QED BY <2>5, <2>7, <2>8 DEF RestTyped, TypeOK
<1>3. CASE Damage
  <2>1. UNCHANGED <<rollback, partial, log, asked, inputs, holder, w>> /\ holder = None
        /\ active # Nothing /\ mishaps' \in Nat
    BY <1>3 DEF Damage, Mishap, TypeOK
  <2>2. PICK s \in {"drifted", "untrusted"} : active' = [active EXCEPT !.state = s]
    BY <1>3 DEF Damage
  <2>3. active' \in RuntimeType /\ active'.by = active.by /\ active'.state = s
    <3>1. active \in RuntimeType
      BY DEF TypeOK
    <3> QED BY <2>2, <3>1, Changed, ZenonT(60)
  <2>4. active' # Nothing
    BY <2>3 DEF Nothing
  <2> QED BY <2>1, <2>3, <2>4 DEF RestTyped, TypeOK, asked
<1> QED BY <1>1, <1>2, <1>3 DEF Aside

-----------------------------------------------------------------------------
(* The kinds of steps, as the proofs go through them.                        *)

\* A request comes or goes: nothing is told and no directory is touched.
Sidestep(p) ==
  /\ UNCHANGED <<disk, log, intent>> /\ w' \in [Procs -> WorkerType] /\ RestTyped'
  /\ OthersStay(p) /\ w'[p].pc \in Unlocked \cup {"plan", "decide"}

Comes(p) == \/ ApplyRetry(p) \/ AnswerFails(p) \/ Record(p) \/ Receipt(p) \/ Die(p)
            \/ \E o \in Ops : Start(p, o) \/ RetryCommand(p, o)

LEMMA Sidesteps ==
  ASSUME TypeOK, OneInstaller, RetryIsTold, NEW p \in Procs, Comes(p)
  PROVE  Sidestep(p)
<1>1. CASE ApplyRetry(p)
  <2>1. /\ UNCHANGED <<disk, log, asked>> /\ w' \in [Procs -> WorkerType] /\ OthersStay(p)
        /\ RestTyped' /\ (GetsTheLock(p) \/ IsTold(p))
    BY <1>1, Applying
  <2>2. w'[p].pc \in Unlocked \cup {"plan", "decide"}
    BY <2>1 DEF GetsTheLock, IsTold
  <2> QED BY <2>1, <2>2 DEF Sidestep, asked
<1>2. ASSUME NEW o \in Ops, Start(p, o) PROVE Sidestep(p)
  <2>1. /\ UNCHANGED <<disk, log, asked>> /\ w' \in [Procs -> WorkerType] /\ OthersStay(p)
        /\ RestTyped' /\ w'[p].pc \in {"plan", "decide"}
    BY <1>2, Starting
  <2> QED BY <2>1 DEF Sidestep, asked
<1>3. ASSUME NEW o \in Ops, RetryCommand(p, o) PROVE Sidestep(p)
  <2>1. /\ UNCHANGED <<disk, log, intent>> /\ w' \in [Procs -> WorkerType] /\ OthersStay(p)
        /\ RestTyped' /\ w'[p].pc = "apply"
    BY <1>3, Commanding
  <2> QED BY <2>1 DEF Sidestep
<1>4. CASE Die(p)
  <2>1. /\ UNCHANGED <<disk, log, asked>> /\ w' \in [Procs -> WorkerType] /\ OthersStay(p)
        /\ RestTyped' /\ w'[p] = Idle
    BY <1>4, Dying
  <2> QED BY <2>1 DEF Sidestep, asked, Idle
<1>5. CASE AnswerFails(p) \/ Receipt(p)
  BY <1>5, Receiving DEF Sidestep, Idle
<1>6. CASE Record(p)
  BY <1>6, Recording DEF Sidestep, Idle
<1> QED BY <1>1, <1>2, <1>3, <1>4, <1>5, <1>6 DEF Comes

LEMMA WorkUnlocked ==
  ASSUME NEW p \in Procs, Work(p), w[p].pc \in Unlocked
  PROVE  ApplyRetry(p) \/ AnswerFails(p) \/ Record(p) \/ Receipt(p)
BY DEF Work, PlanRefused, BeginNot, Succeed, TellSatisfied, LeaveWithError, Unlock,
       BindPlan, Clear, BuildFails, SwapOut, SwapIn, Launch, ActivationFails,
       UndoOut, UndoIn, Clean, Step, BuildSteps,
       Prepare, Extract, Fetched, Install, Commit, AlreadySatisfied, Advance, Begin, Fail

LEMMA WorkFrom ==
  ASSUME NEW p \in Procs, Work(p)
  PROVE  /\ w[p].pc \in {"clean", "leave"} => Clean(p) \/ LeaveWithError(p)
         /\ w[p].pc \in {"plan", "decide", "unlock"} =>
              PlanRefused(p) \/ BindPlan(p) \/ Begin(p) \/ BeginNot(p) \/ Unlock(p)
BY DEF Work, ApplyRetry, AnswerFails, Record, Receipt, PlanRefused, BeginNot, Succeed,
       TellSatisfied, LeaveWithError, Unlock,
       BindPlan, Clear, BuildFails, SwapOut, SwapIn, Launch, ActivationFails,
       UndoOut, UndoIn, Clean, Step, BuildSteps,
       Prepare, Extract, Fetched, Install, Commit, AlreadySatisfied, Advance, Begin, Fail

LEMMA Kinds ==
  ASSUME [Next]_vars
  PROVE  \/ \E p \in Procs : Work(p) /\ w[p].pc \notin Unlocked
         \/ \E p \in Procs : Comes(p)
         \/ Aside
         \/ UNCHANGED vars
BY WorkUnlocked DEF Next, Aside, Comes

LEMMA TypeStep == IInv /\ [Next]_vars => TypeOK'
<1> SUFFICES ASSUME IInv, [Next]_vars PROVE TypeOK'
  OBVIOUS
<1>1. TypeOK /\ OneInstaller /\ UnderWay /\ RetryIsTold
  BY DEF IInv
<1>2. ASSUME NEW p \in Procs, Work(p), w[p].pc \notin Unlocked PROVE TypeOK'
  <2>1. Frame(p)
    BY <1>1, <1>2, Framing
  <2> QED BY <2>1 DEF Frame, RestTyped, TypeOK
<1>3. ASSUME NEW p \in Procs, Comes(p) PROVE TypeOK'
  <2>1. Sidestep(p)
    BY <1>1, <1>3, Sidesteps
  <2>2. log' \in [AllOps -> LogType]
    BY <1>1, <2>1 DEF Sidestep, TypeOK
  <2> QED BY <2>1, <2>2 DEF Sidestep, RestTyped, TypeOK
<1>4. CASE Aside
  <2>1. w' = w /\ RestTyped' /\ log' \in [AllOps -> LogType]
    BY <1>1, <1>4, AsideFrame
  <2> QED BY <1>1, <2>1 DEF RestTyped, TypeOK
<1>5. CASE UNCHANGED vars
  BY <1>1, <1>5 DEF TypeOK, vars
<1> QED BY <1>2, <1>3, <1>4, <1>5, Kinds

\* The lock passes from nobody to one process, and from that one to nobody.
LEMMA OneInstallerStep == IInv /\ [Next]_vars => OneInstaller'
<1> SUFFICES ASSUME IInv, [Next]_vars PROVE OneInstaller'
  OBVIOUS
<1>1. TypeOK /\ OneInstaller /\ UnderWay /\ RetryIsTold
  BY DEF IInv
<1>2. ASSUME NEW p \in Procs, Work(p), w[p].pc \notin Unlocked PROVE OneInstaller'
  <2>1. /\ OthersStay(p) /\ (GoesOn(p) \/ Quits(p)) /\ w[p].op \in AllOps /\ holder = p
        /\ \A q \in Procs \ {p} : w[q].pc \in Unlocked
    BY <1>1, <1>2, Framing DEF Frame
  <2>2. ASSUME NEW q \in Procs \ {p}
        PROVE  /\ holder' = q <=> w'[q].pc \notin Unlocked
               /\ w'[q].pc = "idle" => w'[q].op = None
               /\ w'[q].pc # "idle" => w'[q].op \in AllOps
    BY <2>1, Names, <1>1 DEF OthersStay, OneInstaller, GoesOn, Quits
  <2>3. /\ holder' = p <=> w'[p].pc \notin Unlocked
        /\ w'[p].pc = "idle" => w'[p].op = None
        /\ w'[p].pc # "idle" => w'[p].op \in AllOps
    BY <2>1, Names DEF GoesOn, Quits, Answered, Idle
  <2> QED BY <2>2, <2>3 DEF OneInstaller
<1>3. ASSUME NEW p \in Procs, ApplyRetry(p) PROVE OneInstaller'
  <2>1. CASE GetsTheLock(p)
    BY <1>1, <1>3, <2>1, Applying, Names DEF GetsTheLock, OthersStay, OneInstaller
  <2>2. CASE IsTold(p)
    BY <1>1, <1>3, <2>2, Applying, Names DEF IsTold, OthersStay, OneInstaller
  <2> QED BY <1>1, <1>3, <2>1, <2>2, Applying
<1>4. ASSUME NEW p \in Procs, NEW o \in Ops, Start(p, o) PROVE OneInstaller'
  BY <1>1, <1>4, Starting, Names DEF OthersStay, OneInstaller
<1>5. ASSUME NEW p \in Procs, NEW o \in Ops, RetryCommand(p, o) PROVE OneInstaller'
  BY <1>1, <1>5, Commanding, Names DEF OthersStay, OneInstaller
<1>6. ASSUME NEW p \in Procs, Die(p) PROVE OneInstaller'
  BY <1>1, <1>6, Dying, Names DEF OthersStay, OneInstaller, Idle
<1>7. CASE Aside
  <2>1. w' = w /\ holder' = holder
    BY <1>1, <1>7, AsideFrame
  <2> QED BY <1>1, <2>1 DEF OneInstaller
<1>8. CASE UNCHANGED vars
  BY <1>1, <1>8 DEF OneInstaller, vars
<1>9. ASSUME NEW p \in Procs, AnswerFails(p) \/ Receipt(p) \/ Record(p) PROVE OneInstaller'
  <2>1. /\ w[p].pc \in Unlocked /\ w'[p].pc \in Unlocked /\ holder' = holder /\ OthersStay(p)
        /\ w'[p] = Idle \/ (w'[p].op = Retry /\ w'[p].pc # "idle")
    BY <1>1, <1>9, Receiving, Recording DEF Idle
  <2> QED BY <1>1, <2>1, Names DEF OthersStay, OneInstaller, Idle
<1> QED BY <1>2, <1>3, <1>4, <1>5, <1>6, <1>7, <1>8, <1>9, Kinds DEF Comes

\* From where to where each step leads.
Leads(p, from, to) == w[p].pc = from /\ w'[p].pc = to

LEMMA Walk ==
  ASSUME TypeOK, NEW p \in Procs
  PROVE  /\ BindPlan(p) => Leads(p, "plan", "decide")
         /\ Clear(p) => Leads(p, "clear", "extract")
         /\ BuildFails(p) => \/ w[p].pc \in BuildSteps /\ w'[p].pc = "clean"
                             \/ /\ w[p].pc \in {"wait", "clear", "satisfied", "tell"}
                                /\ w'[p].pc = "fail"
         /\ SwapOut(p) => Leads(p, "swapOut", "swapIn")
         /\ SwapIn(p) => Leads(p, "swapIn", "launch")
         /\ Launch(p) => Leads(p, "launch", IF active.state = "sound" THEN "succeed" ELSE "undo")
         /\ ActivationFails(p) =>
              w[p].pc \in {"swapIn", "launch", "succeed"} /\ w'[p].pc = "undo"
         /\ UndoOut(p) => Leads(p, "undo", "undoIn")
         /\ UndoIn(p) => Leads(p, "undoIn", "clean")
         /\ Clean(p) => Leads(p, "clean", IF Ended(w[p].op) THEN "leave" ELSE "fail")
<1>1. \A from, to \in Pcs : Step(p, from, to) => Leads(p, from, to)
  BY Stepped DEF TypeOK, Leads
<1>2. BuildSteps \subseteq Pcs
  BY DEF BuildSteps, Pcs
<1>3. /\ BindPlan(p) => Leads(p, "plan", "decide")
      /\ Clear(p) => Leads(p, "clear", "extract")
      /\ SwapOut(p) => Leads(p, "swapOut", "swapIn")
      /\ SwapIn(p) => Leads(p, "swapIn", "launch")
      /\ UndoOut(p) => Leads(p, "undo", "undoIn")
      /\ UndoIn(p) => Leads(p, "undoIn", "clean")
  BY <1>1 DEF BindPlan, Clear, SwapOut, SwapIn, UndoOut, UndoIn, Pcs
<1>4. /\ Launch(p) => Leads(p, "launch", IF active.state = "sound" THEN "succeed" ELSE "undo")
      /\ Clean(p) => Leads(p, "clean", IF Ended(w[p].op) THEN "leave" ELSE "fail")
  BY <1>1 DEF Launch, Clean, Pcs
<1>5. BuildFails(p) => \/ w[p].pc \in BuildSteps /\ w'[p].pc = "clean"
                       \/ /\ w[p].pc \in {"wait", "clear", "satisfied", "tell"}
                          /\ w'[p].pc = "fail"
  <2> SUFFICES ASSUME BuildFails(p)
               PROVE  \/ w[p].pc \in BuildSteps /\ w'[p].pc = "clean"
                      \/ /\ w[p].pc \in {"wait", "clear", "satisfied", "tell"}
                         /\ w'[p].pc = "fail"
    OBVIOUS
  <2>1. \/ \E from \in BuildSteps : Step(p, from, "clean")
        \/ \E from \in {"wait", "clear", "satisfied", "tell"} : Step(p, from, "fail")
    BY DEF BuildFails
  <2> QED BY <1>1, <1>2, <2>1 DEF Leads, Pcs
<1>6. ActivationFails(p) =>
        w[p].pc \in {"swapIn", "launch", "succeed"} /\ w'[p].pc = "undo"
  BY <1>1 DEF ActivationFails, Leads, Pcs
<1> QED BY <1>3, <1>4, <1>5, <1>6

LEMMA Talk ==
  ASSUME TypeOK, OneInstaller, NEW p \in Procs
  PROVE  /\ Prepare(p) => Phase(p, "wait", "clear", FALSE)
         /\ Extract(p) => Phase(p, "extract", IF Whole THEN "pip" ELSE "fetch", FALSE)
         /\ Fetched(p) => Phase(p, "fetch", "pip", FALSE)
         /\ Install(p) => Phase(p, "pip", "extract", FALSE) \/ Phase(p, "pip", "commit", FALSE)
         /\ Commit(p) => Phase(p, "commit", "swapOut", TRUE)
         /\ AlreadySatisfied(p) => Phase(p, "satisfied", "tell", FALSE)
<1>1. \A from, to \in Pcs, closed \in BOOLEAN :
        Advance(p, from, to, closed) /\ from \notin Unlocked => Phase(p, from, to, closed)
  <2> SUFFICES ASSUME NEW from \in Pcs, NEW to \in Pcs, NEW closed \in BOOLEAN,
                      Advance(p, from, to, closed), from \notin Unlocked
               PROVE  Phase(p, from, to, closed)
    OBVIOUS
  <2>1. w[p].pc = from
    BY DEF Advance
  <2>2. w[p].op \in AllOps
    BY <2>1, AtWork
  <2> QED BY <2>2, Advanced DEF TypeOK
<1>2. /\ Prepare(p) => Phase(p, "wait", "clear", FALSE)
      /\ Fetched(p) => Phase(p, "fetch", "pip", FALSE)
      /\ Commit(p) => Phase(p, "commit", "swapOut", TRUE)
      /\ AlreadySatisfied(p) => Phase(p, "satisfied", "tell", FALSE)
  BY <1>1 DEF Prepare, Fetched, Commit, AlreadySatisfied, Pcs
<1>3. Extract(p) => Phase(p, "extract", IF Whole THEN "pip" ELSE "fetch", FALSE)
  BY <1>1 DEF Extract, Pcs
<1>4. Install(p) => Phase(p, "pip", "extract", FALSE) \/ Phase(p, "pip", "commit", FALSE)
  <2> SUFFICES ASSUME Install(p)
               PROVE  Phase(p, "pip", "extract", FALSE) \/ Phase(p, "pip", "commit", FALSE)
    OBVIOUS
  <2>1. \E to \in {"extract", "commit"} : Advance(p, "pip", to, FALSE)
    BY DEF Install
  <2> QED BY <1>1, <2>1 DEF Pcs
<1> QED BY <1>2, <1>3, <1>4

-----------------------------------------------------------------------------
(* What is executed is open.                                                 *)

\* Who is not executing any more after a step, and who ends.
LEMMA Through ==
  ASSUME TypeOK, OneInstaller, NEW p \in Procs, Work(p), w[p].pc \notin Unlocked, Executing(p)'
  PROVE  /\ Frame(p) /\ GoesOn(p) /\ w[p].op \in AllOps
         /\ ~PlanRefused(p) /\ ~BeginNot(p) /\ ~LeaveWithError(p) /\ ~Unlock(p) /\ ~BindPlan(p)
         /\ ~ApplyRetry(p) /\ ~AnswerFails(p) /\ ~Record(p) /\ ~Receipt(p)
         /\ Succeed(p) \/ TellSatisfied(p) =>
              /\ w[p].pc = "tell" /\ w'[p].pc = "leave" /\ UNCHANGED disk
              /\ log'[w[p].op].state = "cancelled"
<1>1. Frame(p) /\ (GoesOn(p) \/ Quits(p)) /\ w[p].op \in AllOps
  BY Framing
<1>2. ~Quits(p)
  BY DEF Quits, Answered, Idle, Executing
<1>3. ~PlanRefused(p) /\ ~BeginNot(p) /\ ~LeaveWithError(p) /\ ~Unlock(p)
  BY <1>2, Quitting
<1>4. ~BindPlan(p)
  BY Walk DEF Executing, Leads
<1>5. ~ApplyRetry(p) /\ ~AnswerFails(p) /\ ~Record(p) /\ ~Receipt(p)
  BY DEF ApplyRetry, AnswerFails, Record, Receipt
<1>6. Succeed(p) \/ TellSatisfied(p) =>
        /\ w[p].pc = "tell" /\ w'[p].pc = "leave" /\ UNCHANGED disk
        /\ log'[w[p].op].state = "cancelled"
  BY Ending DEF Executing
<1> QED BY <1>1, <1>2, <1>3, <1>4, <1>5, <1>6

LEMMA OpenStep ==
  ASSUME IInv, NEW p \in Procs, Work(p), w[p].pc \notin Unlocked, Executing(p)'
  PROVE  Open(p)'
<1> DEFINE o == w[p].op
<1>0. TypeOK /\ OneInstaller /\ UnderWay /\ RetryIsTold
  BY DEF IInv
<1>1. /\ Frame(p) /\ GoesOn(p) /\ o \in AllOps /\ w'[p].op = o /\ w'[p].ask = w[p].ask
  BY <1>0, Through DEF GoesOn
<1>2. CASE Begin(p)
  <2>1. /\ intent'[o] = w[p].ask /\ log'[o].state = "running"
        /\ w'[p].pc \in {"fail", "wait", "satisfied", "tell"}
    <3>1. /\ intent'[o] = w[p].ask /\ log'[o] = [NoLog EXCEPT !.state = "running"]
          /\ w'[p].pc \in {"fail", "wait", "satisfied", "tell"}
      BY <1>0, <1>2, Beginning
    <3> QED BY <3>1 DEF NoLog
  <2> QED BY <1>1, <2>1 DEF Open
<1>3. CASE ~Begin(p)
  <2>1. w[p].pc # "decide" /\ w[p].pc # "plan" /\ Executing(p)
    <3>1. w[p].pc \notin Unlocked \cup {"plan", "decide", "unlock"}
      BY ZenonT(60), <1>3, <1>0, Through, Walk, Talk, Failing
         DEF Work, Leads, Phase, BuildSteps
    <3> QED BY <3>1 DEF Executing
  <2>2. Open(p) /\ intent' = intent
    BY <1>0, <1>1, <2>1 DEF UnderWay, Open, Frame
  <2>3. CASE Clear(p) \/ BuildFails(p) \/ SwapOut(p) \/ SwapIn(p) \/ Launch(p)
             \/ ActivationFails(p) \/ UndoOut(p) \/ UndoIn(p) \/ Clean(p)
    <3>1. log' = log
      BY <2>3 DEF Clear, BuildFails, SwapOut, SwapIn, Launch, ActivationFails, UndoOut,
                  UndoIn, Clean
    <3>2. \/ w[p].pc \notin {"clean", "leave"} /\ w'[p].pc \notin {"swapOut", "swapIn", "launch", "succeed"}
          \/ /\ w[p].pc \in {"swapOut", "swapIn", "launch"}
             /\ w'[p].pc \notin {"clean", "leave"}
          \/ w[p].pc = "clean" /\ w'[p].pc = (IF Ended(o) THEN "leave" ELSE "fail")
      BY <1>0, <2>3, Walk DEF Leads, BuildSteps
    <3> QED BY <1>1, <2>2, <3>1, <3>2 DEF Open, Ended
  <2>4. CASE Prepare(p) \/ Extract(p) \/ Fetched(p) \/ Install(p) \/ Commit(p)
             \/ AlreadySatisfied(p)
    <3>1. PICK to \in {"clear", "fetch", "pip", "extract", "commit", "swapOut", "tell"},
               closed \in BOOLEAN, from \in {"wait", "extract", "fetch", "pip", "commit", "satisfied"} :
            Phase(p, from, to, closed) /\ (to = "swapOut" => closed)
      BY <1>0, <2>4, Talk
    <3>2. log[o].state = "running" /\ log[o] \in LogType
      BY <1>0, <1>1, <2>2, <3>1 DEF Open, Phase, TypeOK
    <3>3. CASE log[o].cancel
      <4>1. log'[o].state = "cancelled" /\ w'[p].pc \in {"clean", "leave"}
        BY <3>1, <3>3 DEF Phase
      <4> QED BY <1>1, <2>2, <4>1 DEF Open
    <3>4. CASE ~log[o].cancel
      <4>1. /\ w'[p].pc = to /\ log'[o] = [log[o] EXCEPT !.closed = closed]
        BY <3>1, <3>4 DEF Phase
      <4>2. log'[o].state = "running" /\ log'[o].cancel = log[o].cancel /\ log'[o].closed = closed
        BY <3>2, <4>1 DEF LogType
      <4> QED BY <1>1, <2>2, <3>1, <3>4, <4>1, <4>2 DEF Open
    <3> QED BY <3>3, <3>4
  <2>5. CASE Fail(p)
    <3>1. w[p].pc = "fail" /\ w'[p].pc = "leave" /\ (log' = log \/ log'[o].state = "failed")
      BY <1>0, <2>5, Failing
    <3> QED BY <1>1, <2>2, <3>1 DEF Open
  <2>6. CASE Succeed(p) \/ TellSatisfied(p)
    <3>1. w'[p].pc = "leave" /\ log'[o].state = "cancelled"
      BY <1>0, <2>6, Through
    <3> QED BY <1>1, <2>2, <3>1 DEF Open
  <2> QED BY <1>0, <1>3, <2>3, <2>4, <2>5, <2>6, Through DEF Work
<1> QED BY <1>2, <1>3

LEMMA UnderWayStep == IInv /\ [Next]_vars => UnderWay'
<1> SUFFICES ASSUME IInv, [Next]_vars PROVE UnderWay'
  OBVIOUS
<1>0. TypeOK /\ OneInstaller /\ UnderWay /\ RetryIsTold
  BY DEF IInv
<1>1. ASSUME NEW p \in Procs, Work(p), w[p].pc \notin Unlocked PROVE UnderWay'
  <2>1. OthersStay(p) /\ \A q \in Procs \ {p} : w[q].pc \in Unlocked
    BY <1>0, <1>1, Framing DEF Frame
  <2>2. \A q \in Procs \ {p} : ~Executing(q)'
    BY <2>1 DEF OthersStay, Executing
  <2>3. Executing(p)' => Open(p)'
    BY <1>1, OpenStep
  <2> QED BY <2>2, <2>3 DEF UnderWay, Open
<1>2. ASSUME NEW p \in Procs, Comes(p) PROVE UnderWay'
  <2>1. Sidestep(p)
    BY <1>0, <1>2, Sidesteps
  <2>2. ~Executing(p)' /\ log' = log /\ intent' = intent
    BY <2>1 DEF Sidestep, Executing
  <2>3. \A q \in Procs \ {p} : w'[q] = w[q]
    BY <2>1 DEF Sidestep, OthersStay
  <2> QED BY <1>0, <2>2, <2>3 DEF UnderWay, Executing, Open
<1>3. CASE Aside
  <2>1. /\ w' = w /\ intent' = intent
        /\ \A o \in AllOps : /\ log'[o].state = log[o].state /\ log'[o].closed = log[o].closed
                             /\ log[o].closed => log'[o] = log[o]
    BY <1>0, <1>3, AsideFrame
  <2>2. \A p \in Procs : Executing(p) => w[p].op \in AllOps
    BY <1>0 DEF Executing, OneInstaller
  <2> QED BY <1>0, <2>1, <2>2 DEF UnderWay, Executing, Open
<1>4. CASE UNCHANGED vars
  BY <1>0, <1>4 DEF UnderWay, Executing, Open, vars
<1> QED BY <1>1, <1>2, <1>3, <1>4, Kinds

-----------------------------------------------------------------------------
(* Whose runtimes lie where.                                                 *)

LEMMA NothingIsNobodys == \A o \in AllOps : Nothing.by # o
BY Names DEF Nothing

LEMMA LiesStep ==
  ASSUME IInv, NEW p \in Procs, Work(p), w[p].pc \notin Unlocked, Executing(p)'
  PROVE  Lies(p)'
<1> DEFINE o == w[p].op
<1>0. TypeOK /\ OneInstaller /\ UnderWay /\ OnlyAccepted /\ Places /\ RetryIsTold
  BY DEF IInv
<1>1. o \in AllOps /\ w'[p].op = o /\ w'[p].ask = w[p].ask
  BY <1>0, Through DEF GoesOn
<1>2. Executing(p) => Lies(p)
  BY <1>0 DEF Places
<1>3. CASE Begin(p)
  <2>1. /\ log[o] = NoLog /\ w'[p].pc \in {"fail", "wait", "satisfied", "tell"}
        /\ w'[p].pc \in {"satisfied", "tell"} /\ w[p].ask.kind = "ensure" => Ready(w[p].ask.scope)
        /\ UNCHANGED disk
    BY <1>0, <1>3, Beginning
  <2>2. active.by # o /\ rollback.by # o
    BY <1>0, <1>1, <2>1 DEF OnlyAccepted, NoLog
  <2>3. UNCHANGED <<active, rollback, partial>>
    BY <2>1 DEF disk
  <2> QED BY <1>1, <2>1, <2>2, <2>3 DEF Lies, Ready, BuildSteps
<1>4. CASE Prepare(p)
  <2>1. Phase(p, "wait", "clear", FALSE)
    BY <1>0, <1>4, Talk
  <2>2. w[p].pc = "wait" /\ Lies(p) /\ active.by # o /\ rollback.by # o
    BY <1>2, <2>1 DEF Phase, Executing, Lies
  <2>3. CASE log[o].cancel
    <3>1. w'[p].pc = "leave" /\ UNCHANGED <<active, rollback>>
      BY <1>4, <2>1, <2>2, <2>3 DEF Phase, Staged, Prepare
    <3> QED BY <1>1, <2>2, <3>1 DEF Lies, BuildSteps
  <2>4. CASE ~log[o].cancel
    <3>1. w'[p].pc = "clear"
      BY <2>1, <2>4 DEF Phase
    <3>2. rollback' = Nothing /\ active' \in {active, rollback}
      BY <1>4, <2>4 DEF Prepare
    <3> QED BY <1>1, <2>2, <3>1, <3>2, NothingIsNobodys DEF Lies, BuildSteps
  <2> QED BY <2>3, <2>4
<1>5. CASE Clear(p)
  <2>1. Leads(p, "clear", "extract")
    BY <1>0, <1>5, Walk
  <2>2. Lies(p) /\ active.by # o /\ rollback = Nothing
    BY <1>2, <2>1 DEF Leads, Executing, Lies
  <2>3. /\ partial'.by = o /\ partial'.scope = Target(w[p].ask)
        /\ UNCHANGED <<active, rollback>>
    BY <1>5 DEF Clear
  <2>4. w[p].ask.kind = "ensure" => Target(w[p].ask) = w[p].ask.scope
    BY DEF Target
  <2> QED BY <1>1, <2>1, <2>2, <2>3, <2>4, NothingIsNobodys DEF Leads, Lies, BuiltBy, BuildSteps
<1>6. CASE Extract(p) \/ Fetched(p) \/ Install(p) \/ Commit(p)
  <2>1. PICK from \in {"extract", "fetch", "pip", "commit"},
             to \in {"pip", "fetch", "extract", "commit", "swapOut"}, closed \in BOOLEAN :
          Phase(p, from, to, closed)
    BY <1>0, <1>6, Talk
  <2>2. Lies(p) /\ active.by # o /\ rollback = Nothing /\ BuiltBy(p, partial)
    BY <1>2, <2>1 DEF Phase, Executing, Lies, BuildSteps
  <2>3. UNCHANGED <<active, rollback>>
    BY <1>6 DEF Extract, Fetched, Install, Commit, disk
  <2>4. partial'.by = partial.by /\ partial'.scope = partial.scope
    <3>1. partial' = partial \/ \E s \in {"sound", "drifted"} : partial' = [partial EXCEPT !.state = s]
      BY <1>6 DEF Extract, Fetched, Install, Commit, disk
    <3>2. partial \in RuntimeType
      BY <1>0 DEF TypeOK
    <3> QED BY <3>1, <3>2 DEF RuntimeType
  <2>5. w'[p].pc \in {"pip", "fetch", "extract", "commit", "swapOut", "clean"}
    BY <2>1 DEF Phase, Staged
  <2> QED BY <1>1, <2>2, <2>3, <2>4, <2>5, NothingIsNobodys DEF Lies, BuiltBy, BuildSteps
<1>7. CASE BuildFails(p)
  <2>1. /\ w[p].pc \in BuildSteps \cup {"wait", "clear", "satisfied", "tell"}
        /\ w'[p].pc \in {"clean", "fail"}
    BY <1>0, <1>7, Walk
  <2>2. Lies(p) /\ active.by # o /\ rollback.by # o
    BY <1>2, <2>1 DEF Executing, Lies, BuildSteps
  <2>3. UNCHANGED <<active, rollback>>
    BY <1>7 DEF BuildFails, disk
  <2> QED BY <1>1, <2>1, <2>2, <2>3 DEF Lies, BuildSteps
<1>8. CASE SwapOut(p)
  <2>1. Leads(p, "swapOut", "swapIn")
    BY <1>0, <1>8, Walk
  <2>2. Lies(p) /\ active.by # o /\ rollback.by # o /\ BuiltBy(p, partial)
    BY <1>2, <2>1 DEF Leads, Executing, Lies
  <2>3. rollback' \in {rollback, active} /\ active' = Nothing /\ partial' = partial
    BY <1>8 DEF SwapOut
  <2> QED BY <1>1, <2>1, <2>2, <2>3, NothingIsNobodys DEF Leads, Lies, BuiltBy, BuildSteps
<1>9. CASE SwapIn(p)
  <2>1. Leads(p, "swapIn", "launch")
    BY <1>0, <1>9, Walk
  <2>2. Lies(p) /\ rollback.by # o /\ BuiltBy(p, partial)
    BY <1>2, <2>1 DEF Leads, Executing, Lies
  <2>3. rollback' = rollback /\ active' = partial
    BY <1>9 DEF SwapIn
  <2> QED BY <1>1, <2>1, <2>2, <2>3 DEF Leads, Lies, BuiltBy, BuildSteps
<1>10. CASE Launch(p) \/ ActivationFails(p)
  <2>1. /\ w[p].pc \in {"swapIn", "launch", "succeed"}
        /\ \/ w'[p].pc = "undo"
           \/ w[p].pc = "launch" /\ w'[p].pc = "succeed" /\ active.state = "sound"
    BY <1>0, <1>10, Walk DEF Leads
  <2>2. Lies(p) /\ rollback.by # o /\ (w[p].pc = "launch" => BuiltBy(p, active))
    BY <1>2, <2>1 DEF Executing, Lies
  <2>3. UNCHANGED <<active, rollback>>
    BY <1>10 DEF Launch, ActivationFails, disk
  <2> QED BY <1>1, <2>1, <2>2, <2>3 DEF Lies, BuiltBy, BuildSteps
<1>11. CASE UndoOut(p)
  <2>1. Leads(p, "undo", "undoIn") /\ Lies(p)
    BY <1>0, <1>2, <1>11, Walk DEF Leads, Executing
  <2>2. active' = Nothing /\ rollback' = rollback
    BY <1>11 DEF UndoOut
  <2> QED BY <1>1, <2>1, <2>2, NothingIsNobodys DEF Leads, Lies, BuildSteps
<1>12. CASE UndoIn(p)
  <2>1. Leads(p, "undoIn", "clean") /\ Lies(p)
    BY <1>0, <1>2, <1>12, Walk DEF Leads, Executing
  <2>2. active = Nothing /\ active' \in {active, rollback} /\ rollback' \in {rollback, Nothing}
    BY <1>12, <2>1 DEF UndoIn, Leads, Lies
  <2> QED BY <1>1, <2>1, <2>2, NothingIsNobodys DEF Leads, Lies, BuildSteps
<1>13. CASE Clean(p) \/ Fail(p)
  <2>1. w[p].pc \in {"clean", "fail"} /\ w'[p].pc \in {"leave", "fail"}
    BY <1>0, <1>13, Walk, Failing DEF Leads
  <2>2. Lies(p) /\ active.by # o /\ rollback.by # o
    BY <1>2, <2>1 DEF Executing, Lies
  <2>3. UNCHANGED <<active, rollback>>
    BY <1>13 DEF Clean, Fail, disk
  <2> QED BY <1>1, <2>1, <2>2, <2>3 DEF Lies, BuildSteps
<1>14. CASE AlreadySatisfied(p)
  <2>1. Phase(p, "satisfied", "tell", FALSE)
    BY <1>0, <1>14, Talk
  <2>2. /\ w[p].pc = "satisfied" /\ Lies(p) /\ active.by # o /\ rollback.by # o
        /\ w[p].ask.kind = "ensure" => Ready(w[p].ask.scope)
    BY <1>2, <2>1 DEF Phase, Executing, Lies
  <2>3. w'[p].pc \in {"tell", "leave"}
    BY <2>1, <2>2 DEF Phase, Staged
  <2>4. UNCHANGED <<active, rollback>>
    BY <1>14 DEF AlreadySatisfied, disk
  <2> QED BY <1>1, <2>2, <2>3, <2>4 DEF Lies, Ready, BuildSteps
<1>15. CASE Succeed(p) \/ TellSatisfied(p)
  <2>1. w[p].pc = "tell" /\ w'[p].pc = "leave" /\ UNCHANGED disk
    BY <1>0, <1>15, Through
  <2>2. Lies(p) /\ active.by # o /\ rollback.by # o
    BY <1>2, <2>1 DEF Executing, Lies
  <2>3. UNCHANGED <<active, rollback>>
    BY <2>1 DEF disk
  <2> QED BY <1>1, <2>1, <2>2, <2>3 DEF Lies, BuildSteps
<1> QED BY <1>0, <1>3, <1>4, <1>5, <1>6, <1>7, <1>8, <1>9, <1>10, <1>11, <1>12, <1>13, <1>14,
           <1>15, Through DEF Work

LEMMA PlacesStep == IInv /\ [Next]_vars => Places'
<1> SUFFICES ASSUME IInv, [Next]_vars PROVE Places'
  OBVIOUS
<1>0. TypeOK /\ OneInstaller /\ UnderWay /\ Places /\ RetryIsTold
  BY DEF IInv
<1>1. ASSUME NEW p \in Procs, Work(p), w[p].pc \notin Unlocked PROVE Places'
  <2>1. OthersStay(p) /\ \A q \in Procs \ {p} : w[q].pc \in Unlocked
    BY <1>0, <1>1, Framing DEF Frame
  <2>2. \A q \in Procs \ {p} : ~Executing(q)'
    BY <2>1 DEF OthersStay, Executing
  <2>3. Executing(p)' => Lies(p)'
    BY <1>1, LiesStep
  <2> QED BY <2>2, <2>3 DEF Places
<1>2. ASSUME NEW p \in Procs, Comes(p) PROVE Places'
  <2>1. Sidestep(p)
    BY <1>0, <1>2, Sidesteps
  <2>2. ~Executing(p)' /\ UNCHANGED <<active, rollback, partial>>
    BY <2>1 DEF Sidestep, Executing, disk
  <2>3. \A q \in Procs \ {p} : w'[q] = w[q]
    BY <2>1 DEF Sidestep, OthersStay
  <2>4. ASSUME NEW q \in Procs, Executing(q)' PROVE Lies(q)'
    <3>1. w'[q] = w[q] /\ Executing(q)
      BY <2>2, <2>3, <2>4 DEF Executing
    <3>2. Lies(q)
      BY <1>0, <3>1 DEF Places
    <3> QED BY <2>2, <3>1, <3>2 DEF Lies, BuiltBy, Ready
  <2> QED BY <2>4 DEF Places
<1>3. CASE Aside
  <2>1. /\ w' = w /\ UNCHANGED <<rollback, partial>>
        /\ active' = active \/ holder = None
    BY <1>0, <1>3, AsideFrame
  <2>2. CASE active' = active
    BY <1>0, <2>1, <2>2 DEF Places, Executing, Lies, BuiltBy, Ready
  <2>3. CASE holder = None
    <3>1. \A p \in Procs : ~Executing(p)
      BY <1>0, <2>3, Names DEF OneInstaller, Executing
    <3> QED BY <2>1, <3>1 DEF Places, Executing
  <2> QED BY <2>1, <2>2, <2>3
<1>4. CASE UNCHANGED vars
  BY <1>0, <1>4 DEF Places, Executing, Lies, BuiltBy, Ready, vars, disk
<1> QED BY <1>1, <1>2, <1>3, <1>4, Kinds

\* What a step under the lock makes of the directories.
LEMMA Directories ==
  ASSUME IInv, NEW p \in Procs, Work(p), w[p].pc \notin Unlocked
  PROVE  /\ active' \in {active, rollback, Nothing} \/ (SwapIn(p) /\ active' = partial)
         /\ rollback' \in {rollback, active, Nothing}
         /\ ~Executing(p) => UNCHANGED <<active, rollback>>
<1>0. TypeOK /\ OneInstaller
  BY DEF IInv
<1>1. CASE PlanRefused(p) \/ BindPlan(p) \/ Begin(p) \/ BeginNot(p) \/ Clear(p) \/ Extract(p)
           \/ Fetched(p) \/ Install(p) \/ BuildFails(p) \/ Commit(p) \/ Launch(p) \/ Succeed(p)
           \/ AlreadySatisfied(p) \/ TellSatisfied(p) \/ ActivationFails(p) \/ Clean(p)
           \/ Fail(p) \/ LeaveWithError(p) \/ Unlock(p)
  <2>1. UNCHANGED <<active, rollback>>
    BY <1>1 DEF Unlock, PlanRefused, BindPlan, Begin, BeginNot, Clear, Extract, Fetched, Install,
                BuildFails, Commit, Launch, Succeed, AlreadySatisfied, TellSatisfied,
                ActivationFails, Clean, Fail, LeaveWithError, disk
  <2> QED BY <2>1
<1>2. CASE Prepare(p)
  <2>1. Phase(p, "wait", "clear", FALSE)
    BY <1>0, <1>2, Talk
  <2> QED BY <1>2, <2>1 DEF Prepare, Phase, Executing
<1>3. CASE SwapOut(p) \/ SwapIn(p) \/ UndoOut(p) \/ UndoIn(p)
  <2>1. Executing(p)
    BY <1>0, <1>3, Walk DEF Leads, Executing
  <2> QED BY <1>3, <2>1 DEF SwapOut, SwapIn, UndoOut, UndoIn
<1>4. ~(ApplyRetry(p) \/ AnswerFails(p) \/ Record(p) \/ Receipt(p))
  BY DEF ApplyRetry, AnswerFails, Record, Receipt
<1> QED BY <1>1, <1>2, <1>3, <1>4 DEF Work

\* What is told as failed or cancelled is so told where none of its work is in use.
LEMMA OnlyAcceptedStep == IInv /\ [Next]_vars => OnlyAccepted'
<1> SUFFICES ASSUME IInv, [Next]_vars PROVE OnlyAccepted'
  OBVIOUS
<1>0. TypeOK /\ OneInstaller /\ UnderWay /\ OnlyAccepted /\ Places /\ RetryIsTold
  BY DEF IInv
<1>1. ASSUME NEW p \in Procs, Work(p), w[p].pc \notin Unlocked PROVE OnlyAccepted'
  <2> DEFINE o == w[p].op
  <2>1. Frame(p) /\ (GoesOn(p) \/ Quits(p)) /\ o \in AllOps
    BY <1>0, <1>1, Framing
  <2>2. ASSUME NEW x \in AllOps \ {o}, active'.by = x \/ rollback'.by = x
        PROVE  log'[x].state \in {"running", "succeeded"}
    <3>1. log'[x] = log[x]
      BY <2>1 DEF Frame, Entries
    <3>2. active.by = x \/ rollback.by = x
      <4>1. SwapIn(p) => partial.by = o
        <5>1. SwapIn(p) => w[p].pc = "swapIn"
          BY <1>0, Walk DEF Leads
        <5> QED BY <1>0, <5>1 DEF Places, Executing, Lies, BuiltBy
      <4> QED BY <1>1, <2>2, <4>1, Directories, NothingIsNobodys
    <3> QED BY <1>0, <3>1, <3>2 DEF OnlyAccepted
  <2>3. ASSUME active'.by = o \/ rollback'.by = o
        PROVE  log'[o].state \in {"running", "succeeded"}
    <3>1. CASE Executing(p) /\ Executing(p)'
      <4>1. Lies(p)' /\ w'[p].op = o /\ Open(p)'
        <5>1. w'[p].op = o
          BY <1>0, <1>1, <3>1, Through DEF GoesOn
        <5> QED BY <1>1, <3>1, <5>1, LiesStep, OpenStep
      <4>2. w'[p].pc \in {"launch", "succeed", "undo"}
        BY <2>3, <4>1 DEF Lies
      <4> QED BY <4>1, <4>2 DEF Open
    <3>2. CASE ~Executing(p)
      <4>1. UNCHANGED <<active, rollback>>
        BY <1>1, <3>2, Directories
      <4>2. log[o].state \in {"running", "succeeded"}
        BY <1>0, <2>1, <2>3, <4>1 DEF OnlyAccepted
      <4>3. CASE Begin(p)
        <5>1. log'[o] = [NoLog EXCEPT !.state = "running"]
          BY <1>0, <4>3, Beginning
        <5> QED BY <5>1 DEF NoLog
      <4>4. CASE PlanRefused(p) \/ BindPlan(p) \/ BeginNot(p) \/ Unlock(p)
        BY <4>2, <4>4, SMTT(30) DEF PlanRefused, BindPlan, BeginNot, Unlock
      <4> QED BY <1>1, <3>2, <4>3, <4>4, WorkFrom DEF Executing
    <3>3. CASE Executing(p) /\ ~Executing(p)'
      <4>1. Succeed(p) \/ TellSatisfied(p) \/ LeaveWithError(p)
        BY ZenonT(60), <1>0, <1>1, <3>3, Walk, Talk, Failing
           DEF Work, Leads, Phase, Staged, BindPlan, PlanRefused, Begin, BeginNot, Unlock, Step,
               ApplyRetry, AnswerFails, Record, Receipt, Executing
      <4>2. UNCHANGED <<active, rollback>> /\ w[p].pc \in {"succeed", "tell", "leave"} /\ Lies(p)
        BY <1>0, <3>3, <4>1, Ending DEF LeaveWithError, disk, Places
      <4>3. w[p].pc = "succeed"
        BY <2>3, <4>2 DEF Lies
      <4>4. ~LeaveWithError(p)
        BY <4>3 DEF LeaveWithError
      <4> QED BY <1>0, <4>1, <4>3, <4>4, Ending
    <3> QED BY <3>1, <3>2, <3>3
  <2> QED BY <2>2, <2>3 DEF OnlyAccepted
<1>2. ASSUME NEW p \in Procs, Comes(p) PROVE OnlyAccepted'
  <2>1. Sidestep(p)
    BY <1>0, <1>2, Sidesteps
  <2> QED BY <1>0, <2>1 DEF Sidestep, OnlyAccepted, disk
<1>3. CASE Aside
  <2>1. /\ rollback' = rollback /\ \A o \in AllOps : log'[o].state = log[o].state
        /\ active'.by = active.by
    BY <1>0, <1>3, AsideFrame
  <2> QED BY <1>0, <2>1 DEF OnlyAccepted
<1>4. CASE UNCHANGED vars
  BY <1>0, <1>4 DEF OnlyAccepted, vars, disk
<1> QED BY <1>1, <1>2, <1>3, <1>4, Kinds

-----------------------------------------------------------------------------
(* What was installed stays.                                                 *)

\* What a step tells of an operation is told by the process that executes it,
\* and a success only of what it found or put into place.
LEMMA Successes ==
  ASSUME IInv, NEW p \in Procs, Work(p), w[p].pc \notin Unlocked, NEW x \in AllOps,
         log'[x].state = "succeeded", log[x].state # "succeeded"
  PROVE  /\ x = w[p].op /\ Executing(p) /\ w'[p].pc = "unlock" /\ Open(p) /\ intent' = intent
         /\ UNCHANGED <<active, rollback>>
         /\ w[p].ask.kind = "ensure" => active.state = "sound" /\ active.scope = w[p].ask.scope
<1> DEFINE o == w[p].op
<1>0. TypeOK /\ OneInstaller /\ UnderWay /\ Places /\ RetryIsTold
  BY DEF IInv
<1>1. Frame(p) /\ o \in AllOps
  BY <1>0, Framing
<1>2. x = o
  BY <1>1 DEF Frame, Entries
<1>3. CASE Succeed(p) \/ TellSatisfied(p)
  <2>1. /\ w[p].pc \in {"succeed", "tell"} /\ w'[p].pc = "unlock"
        /\ UNCHANGED <<active, rollback>>
    BY <1>0, <1>2, <1>3, Ending DEF disk
  <2>2. Executing(p) /\ Open(p) /\ Lies(p)
    BY <1>0, <2>1 DEF Executing, UnderWay, Places
  <2>3. w[p].ask.kind = "ensure" => active.state = "sound" /\ active.scope = w[p].ask.scope
    BY <2>1, <2>2 DEF Lies, BuiltBy, Ready
  <2> QED BY <1>1, <1>2, <2>1, <2>2, <2>3 DEF Frame
<1>4. CASE ~(Succeed(p) \/ TellSatisfied(p))
  <2>1. CASE Begin(p)
    <3>1. log'[o] = [NoLog EXCEPT !.state = "running"]
      BY <1>0, <2>1, Beginning
    <3> QED BY <1>2, <3>1 DEF NoLog
  <2>2. CASE Fail(p)
    BY <1>0, <1>2, <2>2, Failing
  <2>3. CASE Prepare(p) \/ Extract(p) \/ Fetched(p) \/ Install(p) \/ Commit(p) \/ AlreadySatisfied(p)
    <3>1. \E from, to \in Pcs, closed \in BOOLEAN : Phase(p, from, to, closed)
      BY <1>0, <2>3, Talk DEF Pcs
    <3>2. log[o] \in LogType
      BY <1>0, <1>1 DEF TypeOK
    <3>3. log'[o].state \in {log[o].state, "cancelled"}
      BY <3>1, <3>2 DEF Phase, LogType
    <3> QED BY <1>2, <3>3
  <2>4. CASE PlanRefused(p) \/ BindPlan(p) \/ BeginNot(p) \/ Clear(p) \/ BuildFails(p)
             \/ SwapOut(p) \/ SwapIn(p) \/ Launch(p) \/ ActivationFails(p) \/ UndoOut(p)
             \/ UndoIn(p) \/ Clean(p) \/ LeaveWithError(p) \/ Unlock(p)
    <3>1. log' = log
      BY <2>4 DEF Unlock, PlanRefused, BindPlan, BeginNot, Clear, BuildFails, SwapOut, SwapIn, Launch,
                  ActivationFails, UndoOut, UndoIn, Clean, LeaveWithError
    <3> QED BY <3>1
  <2> QED BY <1>4, <2>1, <2>2, <2>3, <2>4 DEF Work, ApplyRetry, AnswerFails, Record, Receipt
<1> QED BY <1>3, <1>4

Swapping == {"swapIn", "launch", "succeed", "undo", "undoIn"}

\* In one step of an installer the slot keeps what was installed, or it is back.
LEMMA Kept ==
  ASSUME IInv, NEW p \in Procs, Work(p), w[p].pc \notin Unlocked, Installed
  PROVE  /\ active' # Nothing \/ rollback' # Nothing
         /\ w'[p].pc \in Swapping => rollback' # Nothing
<1>0. /\ TypeOK /\ OneInstaller /\ UnderWay /\ Places /\ RetryIsTold
      /\ active # Nothing \/ rollback # Nothing
      /\ w[p].pc \in Swapping => rollback # Nothing
  BY DEF IInv, InstalledStays, Swapping
<1>1. CASE Prepare(p)
  <2>1. Phase(p, "wait", "clear", FALSE)
    BY <1>0, <1>1, Talk
  <2>2. w'[p].pc \notin Swapping
    BY <2>1 DEF Phase, Staged, Swapping
  <2> QED BY <1>0, <1>1, <2>2 DEF Prepare
<1>2. CASE SwapOut(p)
  <2>1. w[p].pc = "swapOut"
    BY <1>0, <1>2, Walk DEF Leads
  <2>2. rollback = Nothing
    BY <1>0, <2>1 DEF Places, Executing, Lies, BuildSteps
  <2> QED BY <1>0, <1>2, <2>2 DEF SwapOut
<1>3. CASE SwapIn(p) \/ UndoOut(p)
  <2>1. w[p].pc \in Swapping
    BY <1>0, <1>3, Walk DEF Leads, Swapping
  <2> QED BY <1>0, <1>3, <2>1 DEF SwapIn, UndoOut
<1>4. CASE UndoIn(p)
  <2>1. w[p].pc = "undoIn" /\ w'[p].pc = "clean"
    BY <1>0, <1>4, Walk DEF Leads
  <2> QED BY <1>0, <1>4, <2>1 DEF UndoIn, Swapping
<1>5. CASE Launch(p) \/ ActivationFails(p)
  <2>1. w[p].pc \in Swapping /\ UNCHANGED <<active, rollback>>
    BY <1>0, <1>5, Walk DEF Leads, Swapping, Launch, ActivationFails, disk
  <2> QED BY <1>0, <2>1
<1>6. CASE Clear(p) \/ BindPlan(p) \/ BuildFails(p) \/ Clean(p) \/ Fail(p) \/ Begin(p)
  <2>1. w'[p].pc \notin Swapping
    BY <1>0, <1>6, Walk, Failing, Beginning DEF Leads, Swapping
  <2>2. UNCHANGED <<active, rollback>>
    BY <1>6 DEF Clear, BindPlan, BuildFails, Clean, Fail, Begin, disk
  <2> QED BY <1>0, <2>1, <2>2
<1>7. CASE Extract(p) \/ Fetched(p) \/ Install(p) \/ Commit(p) \/ AlreadySatisfied(p)
  <2>1. w'[p].pc \notin Swapping
    BY <1>0, <1>7, Talk DEF Phase, Staged, Swapping
  <2>2. UNCHANGED <<active, rollback>>
    BY <1>7 DEF Extract, Fetched, Install, Commit, AlreadySatisfied, disk
  <2> QED BY <1>0, <2>1, <2>2
<1>8. CASE PlanRefused(p) \/ BeginNot(p) \/ LeaveWithError(p) \/ Unlock(p)
  <2>1. w'[p].pc \notin Swapping /\ UNCHANGED <<active, rollback>>
    BY <1>0, <1>8, Quitting DEF Quits, Answered, Idle, Swapping, disk
  <2> QED BY <1>0, <2>1
<1>9. CASE Succeed(p) \/ TellSatisfied(p)
  <2>1. w'[p].pc \notin Swapping /\ UNCHANGED <<active, rollback>>
    BY <1>0, <1>9, Ending DEF Swapping, disk
  <2> QED BY <1>0, <2>1
<1>10. ~(ApplyRetry(p) \/ AnswerFails(p) \/ Record(p) \/ Receipt(p))
  BY DEF ApplyRetry, AnswerFails, Record, Receipt
<1> QED BY <1>1, <1>2, <1>3, <1>4, <1>5, <1>6, <1>7, <1>8, <1>9, <1>10 DEF Work

LEMMA InstalledStaysStep == IInv /\ [Next]_vars => InstalledStays'
<1> SUFFICES ASSUME IInv, [Next]_vars, Installed'
             PROVE  /\ active' # Nothing \/ rollback' # Nothing
                    /\ \A q \in Procs : w'[q].pc \in Swapping => rollback' # Nothing
  BY DEF InstalledStays, Swapping
<1>0. /\ TypeOK /\ OneInstaller /\ UnderWay /\ Places /\ InstalledStays /\ RetryIsTold
  BY DEF IInv
<1>1. ASSUME NEW p \in Procs, Work(p), w[p].pc \notin Unlocked
      PROVE  /\ active' # Nothing \/ rollback' # Nothing
             /\ \A q \in Procs : w'[q].pc \in Swapping => rollback' # Nothing
  <2>1. /\ Frame(p) /\ w[p].op \in AllOps
        /\ \A q \in Procs \ {p} : w[q].pc \in Unlocked
    BY <1>0, <1>1, Framing
  <2>2. \A q \in Procs \ {p} : w'[q].pc \notin Swapping
    BY <2>1 DEF Frame, OthersStay, Swapping
  <2>3. PICK x \in AllOps : log'[x].state = "succeeded" /\ intent'[x].kind = "ensure"
    BY DEF Installed
  <2>4. CASE log[x].state = "succeeded"
    <3>1. intent'[x] = intent[x]
      <4>1. CASE x # w[p].op
        BY <2>1, <4>1 DEF Frame, Entries
      <4>2. CASE Begin(p) /\ x = w[p].op
        BY <1>0, <2>4, <4>2, Beginning DEF NoLog
      <4>3. CASE ~Begin(p)
        BY <1>1, <4>3 DEF Work, ApplyRetry, AnswerFails, Record, Receipt, Unlock, PlanRefused, BindPlan, BeginNot, Prepare, Clear,
           Extract, Fetched, Install, BuildFails, Commit, SwapOut, SwapIn, Launch, Succeed,
           AlreadySatisfied, TellSatisfied, ActivationFails, UndoOut, UndoIn, Clean, Fail,
           LeaveWithError, asked
      <4> QED BY <4>1, <4>2, <4>3
    <3>2. Installed
      BY <2>3, <2>4, <3>1 DEF Installed
    <3> QED BY <1>1, <2>2, <3>2, Kept
  <2>5. CASE log[x].state # "succeeded"
    <3>1. /\ x = w[p].op /\ w'[p].pc = "unlock" /\ Open(p) /\ intent' = intent /\ active' = active
          /\ w[p].ask.kind = "ensure" => active.state = "sound"
      BY <1>1, <2>3, <2>5, Successes
    <3>2. active.state = "sound"
      BY <2>3, <3>1 DEF Open
    <3> QED BY <2>2, <3>1, <3>2 DEF Nothing, Swapping
  <2> QED BY <2>4, <2>5
<1>2. ASSUME NEW p \in Procs, Comes(p)
      PROVE  /\ active' # Nothing \/ rollback' # Nothing
             /\ \A q \in Procs : w'[q].pc \in Swapping => rollback' # Nothing
  <2>1. Sidestep(p)
    BY <1>0, <1>2, Sidesteps
  <2>2. Installed /\ UNCHANGED <<active, rollback>>
    BY <2>1 DEF Sidestep, Installed, disk
  <2>3. \A q \in Procs : w'[q].pc \in Swapping => w[q].pc \in Swapping
    BY <2>1 DEF Sidestep, OthersStay, Swapping
  <2> QED BY <1>0, <2>2, <2>3 DEF InstalledStays, Swapping
<1>3. CASE Aside
  <2>1. /\ w' = w /\ rollback' = rollback /\ intent' = intent
        /\ \A o \in AllOps : log'[o].state = log[o].state
        /\ active' = active \/ active' # Nothing
    BY <1>0, <1>3, AsideFrame
  <2>2. Installed
    BY <2>1 DEF Installed
  <2> QED BY <1>0, <2>1, <2>2 DEF InstalledStays, Swapping
<1>4. CASE UNCHANGED vars
  BY <1>0, <1>4 DEF InstalledStays, Installed, Swapping, vars, disk
<1> QED BY <1>1, <1>2, <1>3, <1>4, Kinds

-----------------------------------------------------------------------------
(* What a retry command tells.                                               *)

\* An operation that has ended is not told of again.
LEMMA EndedStays ==
  ASSUME IInv, NEW p \in Procs, Work(p), w[p].pc \notin Unlocked, NEW x \in AllOps,
         log[x].state \in {"failed", "cancelled"}
  PROVE  log'[x] = log[x] /\ intent'[x] = intent[x]
<1> DEFINE o == w[p].op
<1>0. TypeOK /\ OneInstaller /\ UnderWay /\ RetryIsTold
  BY DEF IInv
<1>1. Frame(p) /\ o \in AllOps
  BY <1>0, Framing
<1>2. CASE x # o
  BY <1>1, <1>2 DEF Frame, Entries
<1>3. CASE x = o /\ Executing(p)
  <2>1. w[p].pc \in {"clean", "leave"} /\ intent' = intent
    BY <1>0, <1>1, <1>3, SMTT(30) DEF UnderWay, Open, Frame
  <2>2. Clean(p) \/ LeaveWithError(p)
    BY <2>1, WorkFrom
  <2> QED BY <2>1, <2>2 DEF Clean, LeaveWithError
<1>4. CASE x = o /\ ~Executing(p)
  <2>1. Begin(p) \/ PlanRefused(p) \/ BindPlan(p) \/ BeginNot(p) \/ Unlock(p)
    BY <1>4, WorkFrom DEF Executing
  <2>2. ~Begin(p)
    BY <1>0, <1>4, Beginning DEF NoLog
  <2> QED BY <2>1, <2>2 DEF PlanRefused, BindPlan, BeginNot, Unlock, asked
<1> QED BY <1>2, <1>3, <1>4

\* RetryIsTold's parts: who executes the retry, and what the command rests on.
Recorded == command.state \in Answers => Tells(command.state)
OneRetry == \A p, q \in Procs : w[p].op = Retry /\ w[q].op = Retry => p = q
Due(p) == /\ w[p].pc \in {"plan", "decide"} => log[Retry].state = "absent"
          /\ w[p].pc \in {"unlock", "receipt"} => Tells("succeeded")
          /\ w[p].pc \in Answers => Tells(w[p].pc)
Reserved(p) == /\ w[p].pc \in {"apply"} \cup Answers => w[p].op = Retry
               /\ w[p].op = Retry => command.state = "reserved" /\ Due(p)
AllReserved == \A p \in Procs : Reserved(p)
Named == /\ command.state = None => log[Retry].state = "absent"
         /\ command.state # None => command.of \in Ops

LEMMA RetryParts ==
  RetryIsTold <=> /\ Recorded /\ OneRetry /\ AllReserved
                  /\ Named /\ (Begun => Retryable)
BY DEF RetryIsTold, Recorded, OneRetry, AllReserved, Reserved, Due, Named

\* What stays as long as the command and the log do.
LEMMA AsRetried ==
  ASSUME command'.of = command.of, command'.ask = command.ask, Retryable,
         log'[command.of].state = log[command.of].state,
         intent'[command.of] = intent[command.of]
  PROVE  Retryable'
BY DEF Retryable

\* While nothing is told of it, the others' part in the retry stays.
LEMMA DueStays ==
  ASSUME NEW p \in Procs, Reserved(p), w'[p] = w[p], log'[Retry].state = log[Retry].state,
         command'.state = command.state \/ w[p].op # Retry,
         command.lost => command'.lost
  PROVE  Reserved(p)'
BY DEF Reserved, Due, Tells

LEMMA RetryWork ==
  ASSUME IInv, NEW p \in Procs, Work(p), w[p].pc \notin Unlocked
  PROVE  RetryIsTold'
<1> DEFINE o == w[p].op
<1>0. TypeOK /\ OneInstaller /\ UnderWay /\ RetryIsTold
  BY DEF IInv
<1>1. /\ Frame(p) /\ (GoesOn(p) \/ Quits(p)) /\ o \in AllOps
      /\ \A q \in Procs \ {p} : w'[q] = w[q]
  BY <1>0, Framing DEF Frame, OthersStay
<1>2. /\ Recorded /\ OneRetry /\ AllReserved
      /\ Named /\ (Begun => Retryable)
  BY <1>0, RetryParts
<1>3. /\ command' = command /\ (w'[p].op = Retry => o = Retry)
      /\ o # Retry => w'[p].pc \notin {"apply"} \cup Answers /\ log'[Retry] = log[Retry]
  BY <1>1, Names DEF GoesOn, Quits, Answered, Idle, Frame, Entries
<1>4. OneRetry'
  BY <1>1, <1>2, <1>3, Names DEF OneRetry
<1>5. Begun' => Begun
  <2>1. CASE o = Retry
    BY <1>1, <2>1 DEF Begun
  <2>2. CASE o # Retry
    BY <1>1, <1>3, <2>2 DEF Begun
  <2> QED BY <2>1, <2>2
<1>6. Begun => command.of \in Ops
  BY <1>2 DEF Begun, AllReserved, Reserved, Named, None
<1>7. Begun' => Retryable'
  <2> SUFFICES ASSUME Begun PROVE Retryable'
    BY <1>5
  <2>1. command.of \in AllOps /\ Retryable
    BY <1>2, <1>6, Names
  <2>2. log'[command.of] = log[command.of] /\ intent'[command.of] = intent[command.of]
    BY <2>1, EndedStays DEF Retryable
  <2> QED BY <1>3, <2>1, <2>2, AsRetried
<1>8. CASE o = Retry
  <2>1. command.state = "reserved" /\ command.of \in Ops /\ Due(p)
    BY <1>2, <1>8 DEF AllReserved, Reserved, Named, None
  <2>2. \A q \in Procs \ {p} : w'[q].op # Retry /\ w'[q].pc \notin {"apply"} \cup Answers
    BY <1>1, <1>2, <1>8 DEF OneRetry, AllReserved, Reserved
  <2>3. Recorded' /\ Named'
    BY <1>3, <2>1 DEF Recorded, Named, None
  <2>4. ASSUME w'[p].pc \in {"plan", "decide"} PROVE log'[Retry].state = "absent"
    <3>1. GoesOn(p) /\ w'[p].pc = "decide"
      BY <1>1, <2>4, <1>8 DEF GoesOn, Quits, Answered
    <3>2. BindPlan(p)
      <4>1. ~(PlanRefused(p) \/ BeginNot(p) \/ LeaveWithError(p) \/ Unlock(p)
              \/ Succeed(p) \/ TellSatisfied(p))
        BY <1>0, <1>8, <3>1, Quitting, Ending DEF Quits, Answered
      <4>2. ~(Prepare(p) \/ Extract(p) \/ Fetched(p) \/ Install(p) \/ Commit(p)
              \/ AlreadySatisfied(p))
        BY <1>0, <3>1, Talk DEF Phase, Staged
      <4>3. ~(ApplyRetry(p) \/ AnswerFails(p) \/ Record(p) \/ Receipt(p))
        BY DEF ApplyRetry, AnswerFails, Record, Receipt
      <4> QED BY <1>0, <3>1, <4>1, <4>2, <4>3, Walk, Failing, Beginning DEF Work, Leads
    <3> QED BY <1>8, <3>2 DEF BindPlan, NoLog
  <2>5. ASSUME w'[p].pc = "unlock" PROVE log'[Retry].state = "succeeded"
    <3>1. GoesOn(p)
      BY <1>1, <2>5, <1>8 DEF Quits, Answered
    <3>2. Succeed(p) \/ TellSatisfied(p)
      <4>1. ~(PlanRefused(p) \/ BeginNot(p) \/ LeaveWithError(p) \/ Unlock(p))
        BY <1>0, <1>8, <2>5, Quitting DEF Quits, Answered
      <4>2. ~(Prepare(p) \/ Extract(p) \/ Fetched(p) \/ Install(p) \/ Commit(p)
              \/ AlreadySatisfied(p))
        BY <1>0, <2>5, Talk DEF Phase, Staged
      <4>3. ~(ApplyRetry(p) \/ AnswerFails(p) \/ Record(p) \/ Receipt(p))
        BY DEF ApplyRetry, AnswerFails, Record, Receipt
      <4> QED BY <1>0, <2>5, <4>1, <4>2, <4>3, Walk, Failing, Beginning DEF Work, Leads
    <3> QED BY <1>0, <1>8, <2>5, <3>2, Ending
  <2>6. ASSUME w'[p].pc \in Answers \cup {"receipt"} PROVE Due(p)'
    <3>1. Quits(p)
      BY <1>1, <2>6 DEF GoesOn
    <3>2. CASE w[p].pc = "unlock" /\ w'[p].pc = "receipt"
      BY <2>1, <3>1, <3>2 DEF Due, Quits, Tells
    <3>3. CASE w[p].pc \in {"plan", "decide", "leave"} /\ w'[p].pc = "error"
      <4>1. log[Retry].state # "succeeded"
        BY <1>0, <1>8, <2>1, <3>3 DEF Due, UnderWay, Open, Executing
      <4> QED BY <3>1, <3>3, <4>1 DEF Due, Quits, Tells
    <3> QED BY <1>8, <3>1, <3>2, <3>3 DEF Quits, Answered
  <2>7. Reserved(p)'
    <3>1. w'[p].op = Retry
      BY <1>1, <1>8 DEF GoesOn, Quits, Answered
    <3>2. Due(p)'
      BY <2>4, <2>5, <2>6 DEF Due, Tells
    <3> QED BY <1>3, <2>1, <3>1, <3>2 DEF Reserved
  <2>8. AllReserved'
    BY <2>2, <2>7 DEF AllReserved, Reserved
  <2> QED BY <1>4, <1>7, <2>3, <2>8, RetryParts, PTL
<1>9. CASE o # Retry
  <2>1. AllReserved'
    <3>1. \A q \in Procs \ {p} : Reserved(q)'
      BY <1>1, <1>2, <1>3, <1>9, DueStays DEF AllReserved
    <3>2. Reserved(p)'
      BY <1>3, <1>9 DEF Reserved
    <3> QED BY <3>1, <3>2 DEF AllReserved
  <2>2. Recorded' /\ Named'
    BY <1>2, <1>3, <1>9 DEF Recorded, Named, Tells
  <2> QED BY <1>4, <1>7, <2>1, <2>2, RetryParts, PTL
<1> QED BY <1>8, <1>9

\* What changes neither the log nor what is asked for leaves to the retry what it was.
LEMMA RetryAside ==
  ASSUME IInv, Begun' => Begun,
         intent' = intent, command'.of = command.of, command'.ask = command.ask,
         \A o \in AllOps : log'[o].state = log[o].state
  PROVE  Begun' => Retryable'
<1>1. AllReserved /\ Named /\ (Begun => Retryable)
  BY RetryParts DEF IInv
<1>2. Begun => command.of \in AllOps
  BY <1>1, Names DEF Begun, AllReserved, Reserved, Named, None
<1> QED BY <1>1, <1>2, AsRetried

LEMMA RetryIsToldStep == IInv /\ [Next]_vars => RetryIsTold'
<1> SUFFICES ASSUME IInv, [Next]_vars PROVE RetryIsTold'
  OBVIOUS
<1>0. TypeOK /\ OneInstaller /\ UnderWay /\ RetryIsTold
  BY DEF IInv
<1>1. /\ Recorded /\ OneRetry /\ AllReserved
      /\ Named /\ (Begun => Retryable)
  BY <1>0, RetryParts
<1>2. ASSUME NEW p \in Procs, Work(p), w[p].pc \notin Unlocked PROVE RetryIsTold'
  BY <1>2, RetryWork
<1>3. ASSUME NEW p \in Procs, ApplyRetry(p) PROVE RetryIsTold'
  <2>1. /\ w[p].pc = "apply" /\ w[p].op = Retry /\ command.of \in Ops
        /\ log' = log /\ intent' = intent /\ command' = command
        /\ (\A q \in Procs \ {p} : w'[q] = w[q])
        /\ GetsTheLock(p) \/ IsTold(p)
    BY <1>0, <1>3, Applying DEF OthersStay, asked
  <2>2. command.state = "reserved" /\ \A q \in Procs \ {p} : w[q].op # Retry
    BY <1>1, <2>1 DEF AllReserved, Reserved, OneRetry
  <2>3. w'[p].op = Retry /\ w'[p].pc # "apply" /\ Due(p)'
    BY <2>1 DEF GetsTheLock, IsTold, Due, Tells
  <2>4. OneRetry'
    BY <2>1, <2>2 DEF OneRetry
  <2>5. AllReserved'
    <3>1. \A q \in Procs \ {p} : Reserved(q)'
      BY <1>1, <2>1, DueStays DEF AllReserved
    <3>2. Reserved(p)'
      BY <2>1, <2>2, <2>3 DEF Reserved
    <3> QED BY <3>1, <3>2 DEF AllReserved
  <2>6. Recorded' /\ Named'
    BY <2>1, <2>2 DEF Recorded, Named, None
  <2>7. Begun' => Retryable'
    <3>1. CASE GetsTheLock(p)
      BY <2>1, <3>1, AsRetried DEF GetsTheLock
    <3>2. CASE IsTold(p)
      <4>1. Begun' => Begun
        BY <2>1, <3>2 DEF Begun, IsTold
      <4> QED BY <2>1, <4>1, RetryAside
    <3> QED BY <2>1, <3>1, <3>2
  <2> QED BY <2>4, <2>5, <2>6, <2>7, RetryParts, PTL
<1>4. ASSUME NEW p \in Procs, NEW o \in Ops, Start(p, o) PROVE RetryIsTold'
  <2>1. /\ log' = log /\ intent' = intent /\ command' = command
        /\ (\A q \in Procs \ {p} : w'[q] = w[q]) /\ w'[p].pc \in {"plan", "decide"}
        /\ w'[p].op # Retry
    BY <1>0, <1>4, Starting, Names DEF OthersStay, asked
  <2>2. OneRetry' /\ (Begun' => Begun)
    BY <1>1, <2>1 DEF OneRetry, Begun
  <2>3. AllReserved'
    <3>1. \A q \in Procs \ {p} : Reserved(q)'
      BY <1>1, <2>1, DueStays DEF AllReserved
    <3> QED BY <2>1, <3>1 DEF AllReserved, Reserved
  <2>4. Recorded' /\ Named'
    BY <1>1, <2>1 DEF Recorded, Named, Tells
  <2>5. Begun' => Retryable'
    BY <2>1, <2>2, RetryAside
  <2> QED BY <2>2, <2>3, <2>4, <2>5, RetryParts, PTL
<1>5. ASSUME NEW p \in Procs, NEW o \in Ops, RetryCommand(p, o) PROVE RetryIsTold'
  <2>1. /\ log' = log /\ intent' = intent /\ (\A q \in Procs : w[q].op # Retry)
        /\ command'.state = "reserved" /\ command'.of = o
        /\ command.state = None \/ command' = command
        /\ (\A q \in Procs \ {p} : w'[q] = w[q]) /\ w'[p].pc = "apply"
        /\ w'[p].op = Retry
    BY <1>0, <1>5, Commanding DEF OthersStay, CommandFree
  <2>2. OneRetry' /\ AllReserved'
    BY <1>1, <2>1 DEF OneRetry, AllReserved, Reserved, Due
  <2>3. Begun' => log[Retry].state # "absent"
    BY <2>1 DEF Begun
  <2>4. Begun' => Retryable'
    <3> SUFFICES ASSUME Begun' PROVE Retryable'
      OBVIOUS
    <3>1. log[Retry].state # "absent" /\ command' = command
      BY <1>1, <2>1, <2>3 DEF Named
    <3> QED BY <1>1, <2>1, <3>1, AsRetried DEF Begun
  <2>5. Recorded' /\ Named'
    BY <2>1 DEF Recorded, Named, None
  <2> QED BY <2>2, <2>4, <2>5, RetryParts, PTL
<1>6. ASSUME NEW p \in Procs, Die(p) PROVE RetryIsTold'
  <2>1. /\ log' = log /\ intent' = intent /\ command' = command
        /\ (\A q \in Procs \ {p} : w'[q] = w[q]) /\ w'[p] = Idle
    BY <1>0, <1>6, Dying DEF OthersStay, asked
  <2>2. OneRetry' /\ (Begun' => Begun)
    BY <1>1, <2>1, Names DEF OneRetry, Begun, Idle
  <2>3. AllReserved'
    <3>1. \A q \in Procs \ {p} : Reserved(q)'
      BY <1>1, <2>1, DueStays DEF AllReserved
    <3> QED BY <2>1, <3>1, Names DEF AllReserved, Reserved, Idle
  <2>4. Recorded' /\ Named'
    BY <1>1, <2>1 DEF Recorded, Named, Tells
  <2>5. Begun' => Retryable'
    BY <2>1, <2>2, RetryAside
  <2> QED BY <2>2, <2>3, <2>4, <2>5, RetryParts, PTL
<1>7. CASE Aside
  <2>1. /\ w' = w /\ command' = command /\ intent' = intent
        /\ \A o \in AllOps : log'[o].state = log[o].state
    BY <1>0, <1>7, AsideFrame
  <2>2. OneRetry' /\ (Begun' => Begun)
    BY <1>1, <2>1, Names DEF OneRetry, Begun
  <2>3. AllReserved'
    BY <1>1, <2>1, Names, DueStays DEF AllReserved
  <2>4. Recorded' /\ Named'
    BY <1>1, <2>1, Names DEF Recorded, Named, Tells
  <2>5. Begun' => Retryable'
    BY <2>1, <2>2, RetryAside
  <2> QED BY <2>2, <2>3, <2>4, <2>5, RetryParts, PTL
<1>8. CASE UNCHANGED vars
  BY <1>0, <1>8 DEF RetryIsTold, Tells, Begun, Retryable, vars, asked
<1>9. ASSUME NEW p \in Procs, AnswerFails(p) \/ Receipt(p) PROVE RetryIsTold'
  <2>1. /\ w[p].pc \in {"apply", "receipt"} /\ log' = log /\ intent' = intent
        /\ (\A q \in Procs \ {p} : w'[q] = w[q])
        /\ command'.state = command.state /\ command'.of = command.of
        /\ command'.ask = command.ask /\ (command.lost => command'.lost)
        /\ \/ w[p].op # Retry /\ w'[p] = Idle
           \/ /\ w[p].op = Retry /\ w'[p].op = Retry
              /\ \E s \in Answers : w'[p].pc = s /\ Tells(s)'
    BY <1>0, <1>9, Receiving DEF OthersStay
  <2>2. OneRetry'
    BY <1>1, <2>1, Names DEF OneRetry, Idle
  <2>3. Begun' => Begun
    <3>1. w'[p].op # Retry \/ w'[p].pc \in Answers
      BY <2>1, Names DEF Idle
    <3> QED BY <2>1, <3>1 DEF Begun
  <2>4. AllReserved'
    <3>1. \A q \in Procs \ {p} : Reserved(q)'
      BY <1>1, <2>1, DueStays DEF AllReserved
    <3>2. CASE w[p].op # Retry /\ w'[p] = Idle
      BY <3>1, <3>2, Names DEF AllReserved, Reserved, Idle
    <3>3. ASSUME w[p].op = Retry, w'[p].op = Retry,
                 NEW s \in Answers, w'[p].pc = s, Tells(s)'
          PROVE  Reserved(p)'
      <4>1. command'.state = "reserved"
        BY <1>1, <2>1, <3>3 DEF AllReserved, Reserved
      <4>2. Due(p)'
        BY <3>3 DEF Due, Tells
      <4> QED BY <3>3, <4>1, <4>2 DEF Reserved
    <3> QED BY <2>1, <3>1, <3>2, <3>3 DEF AllReserved
  <2>5. Recorded' /\ Named'
    BY <1>1, <2>1 DEF Recorded, Named, Tells
  <2>6. Begun' => Retryable'
    BY <2>1, <2>3, RetryAside
  <2> QED BY <2>2, <2>4, <2>5, <2>6, RetryParts, PTL
<1>10. ASSUME NEW p \in Procs, Record(p) PROVE RetryIsTold'
  <2>1. /\ w[p].pc \in Answers /\ log' = log /\ intent' = intent
        /\ (\A q \in Procs \ {p} : w'[q] = w[q]) /\ w'[p] = Idle
        /\ command'.state = w[p].pc /\ command'.of = command.of
        /\ command'.ask = command.ask /\ command'.lost = command.lost
    BY <1>0, <1>10, Recording DEF OthersStay
  <2>2. /\ w[p].op = Retry /\ command.state = "reserved" /\ Tells(w[p].pc)
        /\ \A q \in Procs \ {p} : w[q].op # Retry
    BY <1>1, <2>1 DEF AllReserved, Reserved, Due, OneRetry
  <2>3. OneRetry' /\ (Begun' => Begun)
    BY <2>1, <2>2, Names DEF OneRetry, Begun, Idle
  <2>4. AllReserved'
    <3>1. \A q \in Procs \ {p} : Reserved(q)'
      BY <1>1, <2>1, <2>2, DueStays DEF AllReserved
    <3> QED BY <2>1, <3>1, Names DEF AllReserved, Reserved, Idle
  <2>5. Recorded' /\ Named'
    BY <1>1, <2>1, <2>2 DEF Recorded, Named, Tells, None
  <2>6. Begun' => Retryable'
    BY <2>1, <2>3, RetryAside
  <2> QED BY <2>3, <2>4, <2>5, <2>6, RetryParts, PTL
<1> QED BY <1>2, <1>3, <1>4, <1>5, <1>6, <1>7, <1>8, <1>9, <1>10, Kinds DEF Comes

-----------------------------------------------------------------------------
(* The theorems.                                                             *)

LEMMA InitInv == Init => IInv
<1> SUFFICES ASSUME Init PROVE IInv
  OBVIOUS
<1>1. /\ rollback = Nothing /\ command.state = None /\ holder = None
      /\ \A p \in Procs : w[p] = Idle
  BY DEF Init, NoCommand
<1>2. log[Retry] = NoLog /\ (\A o \in AllOps : active.by = o => log[o].state = "succeeded")
  <2>1. CASE active = Nothing /\ log = [o \in AllOps |-> NoLog]
    BY <2>1, Names, NothingIsNobodys
  <2>2. ASSUME NEW s \in Scopes, active = [by |-> Earlier, scope |-> s, state |-> "sound"],
               log = [o \in AllOps |->
                        IF o = Earlier THEN [NoLog EXCEPT !.state = "succeeded"] ELSE NoLog]
        PROVE  log[Retry] = NoLog /\ (\A o \in AllOps : active.by = o => log[o].state = "succeeded")
    BY <2>2, Names DEF NoLog
  <2> QED BY <2>1, <2>2 DEF Init
<1>3. Installed => active # Nothing
  <2>1. CASE active = Nothing /\ log = [o \in AllOps |-> NoLog]
    BY <2>1 DEF Installed, NoLog
  <2>2. CASE \E s \in Scopes : active = [by |-> Earlier, scope |-> s, state |-> "sound"]
    BY <2>2 DEF Nothing
  <2>3. \/ active = Nothing /\ log = [o \in AllOps |-> NoLog]
        \/ \E s \in Scopes : active = [by |-> Earlier, scope |-> s, state |-> "sound"]
    BY DEF Init
  <2> QED BY <2>1, <2>2, <2>3
<1>4. OneInstaller
  <2>1. Idle.pc = "idle" /\ Idle.op = None
    BY DEF Idle
  <2> QED BY <1>1, <2>1, Names DEF OneInstaller
<1>5. UnderWay /\ Places
  BY <1>1 DEF UnderWay, Places, Executing, Idle
<1>6. OnlyAccepted
  BY <1>1, <1>2, NothingIsNobodys DEF OnlyAccepted
<1>7. InstalledStays
  BY <1>1, <1>3 DEF InstalledStays, Idle
<1>8. RetryIsTold
  BY <1>1, <1>2, Names DEF RetryIsTold, Begun, NoLog, Idle, None
<1> QED BY InitTyped, <1>4, <1>5, <1>6, <1>7, <1>8 DEF IInv

LEMMA NextInv == IInv /\ [Next]_vars => IInv'
<1> SUFFICES ASSUME IInv, [Next]_vars PROVE IInv'
  OBVIOUS
<1>1. TypeOK' /\ OneInstaller' /\ UnderWay' /\ OnlyAccepted'
  BY TypeStep, OneInstallerStep, UnderWayStep, OnlyAcceptedStep
<1>2. Places' /\ InstalledStays' /\ RetryIsTold'
  BY PlacesStep, InstalledStaysStep, RetryIsToldStep
<1> QED BY <1>1, <1>2 DEF IInv

\* The inductive invariant: types, the one process under the lock, the state of
\* what it executes, whose runtimes lie where, and what a retry command rests on.
THEOREM Invariance == Spec => []IInv
BY InitInv, NextInv, PTL DEF Spec

\* A runtime that was installed is in its place or in the slot an interrupted
\* activation left, through every rename, undo and crash; and an installer that
\* builds has put it back (_install_locked).
THEOREM NeverLost == Spec => []RuntimeNeverLost
<1>1. IInv => RuntimeNeverLost
  <2> SUFFICES ASSUME IInv, Installed
               PROVE  active # Nothing \/ (rollback # Nothing /\ \A p \in Procs : ~Building(p))
    BY DEF RuntimeNeverLost, Installed
  <2>1. active # Nothing \/ rollback # Nothing
    BY DEF IInv, InstalledStays
  <2>2. \A p \in Procs : Building(p) => rollback = Nothing
    BY DEF IInv, Places, Executing, Lies, Building, BuildSteps
  <2> QED BY <2>1, <2>2
<1> QED BY <1>1, Invariance, PTL

\* A cancel that was accepted is honoured, and what a failed or cancelled
\* operation built is neither in use nor in the slot.
THEOREM RejectedStaysOut == Spec => []RejectedIsNotActive
<1>1. IInv => RejectedIsNotActive
  <2> SUFFICES ASSUME IInv PROVE RejectedIsNotActive
    OBVIOUS
  <2>1. CancelIsHonoured
    BY DEF IInv, UnderWay, Executing, Open, CancelIsHonoured
  <2>2. \A o \in AllOps : log[o].state \in {"failed", "cancelled"}
                           => active.by # o /\ rollback.by # o
    BY DEF IInv, OnlyAccepted
  <2> QED BY <2>1, <2>2 DEF RejectedIsNotActive
<1> QED BY <1>1, Invariance, PTL

\* A retry command, of work as it was asked for, of a selection or of a plan, tells what
\* became of the operation it created, whoever finished it and wherever the one before
\* died between the last event, the lock, the receipt and the outcome (ApplyRetry, Record).
THEOREM CommandTells == Spec => []CommandTellsTheOperation
<1>1. IInv => CommandTellsTheOperation
  BY DEF IInv, RetryIsTold, Tells, CommandTellsTheOperation
<1> QED BY <1>1, Invariance, PTL

\* What an ensure is told to have installed, or to have found, is in its place
\* and works at that moment (_launch, reporter.succeed).
THEOREM SuccessMeansInPlace == Spec => SuccessIsInPlace
<1> DEFINE InPlace == \A o \in AllOps :
                        /\ log[o].state # "succeeded" /\ log'[o].state = "succeeded"
                        /\ intent[o].kind = "ensure"
                        => active'.state = "sound" /\ active'.scope = intent[o].scope
<1>1. IInv /\ [Next]_vars => [InPlace]_vars
  <2> SUFFICES ASSUME IInv, [Next]_vars, NEW o \in AllOps,
                      log[o].state # "succeeded", log'[o].state = "succeeded",
                      intent[o].kind = "ensure"
               PROVE  active'.state = "sound" /\ active'.scope = intent[o].scope
    OBVIOUS
  <2>0. TypeOK /\ OneInstaller /\ RetryIsTold
    BY DEF IInv
  <2>1. ASSUME NEW p \in Procs, Work(p), w[p].pc \notin Unlocked
        PROVE  active'.state = "sound" /\ active'.scope = intent[o].scope
    <3>1. /\ o = w[p].op /\ Open(p) /\ active' = active
          /\ w[p].ask.kind = "ensure" => active.state = "sound" /\ active.scope = w[p].ask.scope
      BY <2>1, Successes
    <3> QED BY <3>1 DEF Open
  <2>2. ~(\E p \in Procs : Comes(p))
    BY <2>0, Sidesteps DEF Sidestep
  <2>3. ~Aside
    BY <2>0, AsideFrame
  <2>4. ~(UNCHANGED vars)
    BY DEF vars
  <2> QED BY <2>1, <2>2, <2>3, <2>4, Kinds
<1> QED BY <1>1, Invariance, PTL DEF Spec, SuccessIsInPlace

-----------------------------------------------------------------------------
(* What the service tells of the runtime (RuntimeStatus).                    *)

StatusVars == <<vars, telling>>

\* An operation that runs ends in one of three ways, and an entry stays an entry.
LEMMA LogMoves ==
  ASSUME IInv, NEW p \in Procs, Work(p), NEW x \in AllOps
  PROVE  /\ log'[x].state = log[x].state \/ log'[x].state \in {"succeeded", "failed", "cancelled"}
            \/ log[x] = NoLog
         /\ log[x] # NoLog => log'[x] # NoLog
<1> DEFINE o == w[p].op
<1>0. TypeOK /\ OneInstaller /\ UnderWay /\ RetryIsTold
  BY DEF IInv
<1>1. CASE w[p].pc \in Unlocked
  <2>1. log' = log
    BY <1>1, WorkUnlocked DEF ApplyRetry, AnswerFails, Record, Receipt
  <2> QED BY <2>1
<1>2. CASE w[p].pc \notin Unlocked
  <2>1. Frame(p) /\ o \in AllOps
    BY <1>0, <1>2, Framing
  <2>2. CASE x # o
    BY <2>1, <2>2 DEF Frame, Entries
  <2>3. CASE Begin(p) /\ x = o
    <3>1. log[o] = NoLog /\ log'[o] = [NoLog EXCEPT !.state = "running"]
      BY <1>0, <2>3, Beginning
    <3> QED BY <2>3, <3>1
  <2>4. CASE Fail(p) /\ x = o
    <3>1. log' = log \/ log'[o].state = "failed"
      BY <1>0, <2>4, Failing
    <3> QED BY <2>4, <3>1 DEF NoLog
  <2>5. CASE x = o /\ (Succeed(p) \/ TellSatisfied(p))
    <3>1. log'[o].state \in {"succeeded", "cancelled"}
      BY <1>0, <2>5, Ending
    <3> QED BY <2>5, <3>1 DEF NoLog
  <2>6. CASE /\ x = o
             /\ \/ Prepare(p) \/ Extract(p) \/ Fetched(p) \/ Install(p) \/ Commit(p)
                \/ AlreadySatisfied(p)
    <3>1. PICK to \in {"clear", "fetch", "pip", "extract", "commit", "swapOut", "tell"},
               closed \in BOOLEAN,
               from \in {"wait", "extract", "fetch", "pip", "commit", "satisfied"} :
            Phase(p, from, to, closed)
      BY <1>0, <2>6, Talk
    <3>2. log[o] \in LogType /\ log[o].state = "running"
      <4>1. w[p].pc \in {"wait", "extract", "fetch", "pip", "commit", "satisfied"}
        BY <3>1 DEF Phase
      <4>2. Executing(p)
        BY <4>1 DEF Executing
      <4> QED BY <1>0, <2>1, <4>1, <4>2 DEF TypeOK, UnderWay, Open
    <3>3. log'[o].state \in {"running", "cancelled"}
      BY <3>1, <3>2 DEF Phase, LogType
    <3> QED BY <2>6, <3>2, <3>3 DEF NoLog
  <2>7. CASE PlanRefused(p) \/ BindPlan(p) \/ BeginNot(p) \/ Clear(p) \/ BuildFails(p)
             \/ SwapOut(p) \/ SwapIn(p) \/ Launch(p) \/ ActivationFails(p) \/ UndoOut(p)
             \/ UndoIn(p) \/ Clean(p) \/ LeaveWithError(p) \/ Unlock(p)
    <3>1. log' = log
      BY <2>7 DEF Unlock, PlanRefused, BindPlan, BeginNot, Clear, BuildFails, SwapOut, SwapIn, Launch,
                  ActivationFails, UndoOut, UndoIn, Clean, LeaveWithError
    <3> QED BY <3>1
  <2>8. ~(ApplyRetry(p) \/ AnswerFails(p) \/ Record(p) \/ Receipt(p))
    BY <1>2 DEF ApplyRetry, AnswerFails, Record, Receipt
  <2> QED BY <2>2, <2>3, <2>4, <2>5, <2>6, <2>7, <2>8 DEF Work
<1> QED BY <1>1, <1>2

\* The active runtime moves only while its operation runs, and an operation's own
\* only once.
LEMMA Moves ==
  ASSUME IInv, NEW p \in Procs, Work(p), w[p].pc \notin Unlocked
  PROVE  UNCHANGED <<active, rollback>> \/ Running(log)
<1>0. TypeOK /\ OneInstaller /\ UnderWay /\ RetryIsTold
  BY DEF IInv
<1>1. w[p].op \in AllOps
  BY <1>0, Framing
<1>2. CASE Prepare(p) \/ SwapOut(p) \/ SwapIn(p) \/ UndoOut(p) \/ UndoIn(p)
  <2>1. Executing(p) /\ w[p].pc \notin {"clean", "leave"}
    BY <1>0, <1>2, Walk, Talk DEF Leads, Phase, Executing
  <2>2. log[w[p].op].state = "running"
    BY <1>0, <2>1 DEF UnderWay, Open
  <2> QED BY <1>1, <2>2 DEF Running
<1>3. CASE ~(Prepare(p) \/ SwapOut(p) \/ SwapIn(p) \/ UndoOut(p) \/ UndoIn(p))
  BY <1>3 DEF Work, ApplyRetry, AnswerFails, Record, Receipt, Unlock, PlanRefused, BindPlan, Begin, BeginNot, Clear, Extract, Fetched,
     Install, BuildFails, Commit, Launch, Succeed, AlreadySatisfied, TellSatisfied,
     ActivationFails, Clean, Fail, LeaveWithError, disk
<1> QED BY <1>2, <1>3

LEMMA StatusRefines ==
  /\ StatusInit => Init
  /\ [StatusNext]_StatusVars => [Next]_vars
<1>1. StatusNext => [Next]_vars
  BY StatusAssumption
     DEF StatusNext, Operate, Harm, Restart, Drain, ProbeEngine, Refresh, ReadMarker, StatMarker, LookUp,
         Probe, ProbeForInspect, View, ReadJournal, Expire, Next
<1> QED BY <1>1, SMTT(30) DEF StatusInit, StatusVars

LEMMA Polled ==
  ASSUME poll \in [Pollers -> PollType], NEW q \in Pollers, NEW r \in PollType, To(q, r)
  PROVE  /\ poll' \in [Pollers -> PollType] /\ poll'[q] = r
         /\ \A x \in Pollers \ {q} : poll'[x] = poll[x]
BY DEF To

\* A request's steps: it reads, and only the probe writes.
Reads(q) == \/ ReadMarker(q) \/ StatMarker(q) \/ LookUp(q) \/ Probe(q)
            \/ ProbeForInspect(q) \/ View(q) \/ ReadJournal(q)

LEMMA Reading ==
  ASSUME IInv, StatusTypeOK, NEW q \in Pollers, Reads(q)
  PROVE  /\ UNCHANGED <<vars, engine, refresh, draining>> /\ poll' \in [Pollers -> PollType]
         /\ \A x \in Pollers \ {q} : poll'[x] = poll[x]
         /\ poll'[q].pc # "idle" => poll'[q].told = None \/ poll'[q].told = poll[q].told
         /\ poll[q].pc = "idle" => poll'[q].told = None
         /\ Probe(q) \/ UNCHANGED <<cache, tainted>>
         /\ poll'[q].key \in {poll[q].key, active.by, None}
<1>0. /\ poll \in [Pollers -> PollType] /\ poll[q] \in PollType /\ active \in RuntimeType
      /\ active.by \in Stamps /\ NoPoll \in PollType
  <2>1. active \in RuntimeType
    BY DEF IInv, TypeOK
  <2>2. active.by \in Stamps
    BY <2>1 DEF RuntimeType, Stamps
  <2>3. NoPoll \in PollType
    BY DEF NoPoll, PollType, Stamps
  <2> QED BY <2>1, <2>2, <2>3 DEF StatusTypeOK
<1>1. CASE ReadMarker(q)
  <2>1. PICK kind \in {"stat", "inspect"} :
          To(q, [NoPoll EXCEPT !.pc = kind, !.serves = ~draining,
                               !.mark = MarkerMatches, !.quiet = ~Running(log)])
    BY <1>1 DEF ReadMarker
  <2>2. PICK r : r = [NoPoll EXCEPT !.pc = kind, !.serves = ~draining,
                                    !.mark = MarkerMatches, !.quiet = ~Running(log)]
    OBVIOUS
  <2>3. r \in PollType /\ r.told = None /\ r.key = None
    <3>1. PICK serves \in BOOLEAN, mark \in BOOLEAN, quiet \in BOOLEAN :
            r = [NoPoll EXCEPT !.pc = kind, !.serves = serves, !.mark = mark, !.quiet = quiet]
      BY <2>2, ZenonT(60) DEF MarkerMatches, Running
    <3> QED BY <1>0, <3>1 DEF NoPoll, PollType
  <2>4. To(q, r)
    BY <2>1, <2>2
  <2> QED BY <1>0, <1>1, <2>3, <2>4, Polled DEF ReadMarker
<1>2. CASE StatMarker(q)
  <2>1. PICK r : r = [poll[q] EXCEPT !.pc = "lookUp", !.key = Key]
    OBVIOUS
  <2>2. r \in PollType /\ r.told = poll[q].told /\ r.key = active.by
    BY <1>0, <2>1 DEF PollType, Key
  <2>3. To(q, r) /\ poll[q].pc = "stat"
    BY <1>2, <2>1 DEF StatMarker
  <2> QED BY <1>0, <1>2, <2>2, <2>3, Polled DEF StatMarker
<1>3. CASE LookUp(q)
  <2>1. PICK r : r = IF cache[poll[q].key] = {} THEN [poll[q] EXCEPT !.pc = "probe"]
                     ELSE [poll[q] EXCEPT !.pc = "view", !.ok = TRUE \in cache[poll[q].key],
                                          !.quiet = @ /\ poll[q].key \notin tainted]
    OBVIOUS
  <2>2. r \in PollType /\ r.told = poll[q].told /\ r.key = poll[q].key
    <3>1. PICK ok \in BOOLEAN, quiet \in BOOLEAN :
            r = [poll[q] EXCEPT !.pc = "probe"]
            \/ r = [poll[q] EXCEPT !.pc = "view", !.ok = ok, !.quiet = quiet]
      <4>1. (TRUE \in cache[poll[q].key]) \in BOOLEAN
            /\ (poll[q].quiet /\ poll[q].key \notin tainted) \in BOOLEAN
        OBVIOUS
      <4> QED BY <2>1, <4>1
    <3> QED BY <1>0, <3>1 DEF PollType
  <2>3. To(q, r) /\ poll[q].pc = "lookUp"
    BY <1>3, <2>1 DEF LookUp
  <2> QED BY <1>0, <1>3, <2>2, <2>3, Polled DEF LookUp
<1>4. CASE Probe(q)
  <2>1. PICK ok \in Imports : To(q, [poll[q] EXCEPT !.pc = "view", !.ok = ok])
    BY <1>4 DEF Probe
  <2>2. PICK r : r = [poll[q] EXCEPT !.pc = "view", !.ok = ok]
    OBVIOUS
  <2>3. r \in PollType /\ r.told = poll[q].told /\ r.key = poll[q].key
    BY <1>0, <2>2 DEF PollType, Imports
  <2>4. To(q, r) /\ poll[q].pc = "probe"
    BY <1>4, <2>1, <2>2 DEF Probe
  <2> QED BY <1>0, <1>4, <2>3, <2>4, Polled DEF Probe
<1>5. CASE ProbeForInspect(q)
  <2>1. PICK ok \in Imports : To(q, [poll[q] EXCEPT !.pc = "view", !.ok = ok, !.key = active.by])
    BY <1>5 DEF ProbeForInspect
  <2>2. PICK r : r = [poll[q] EXCEPT !.pc = "view", !.ok = ok, !.key = active.by]
    OBVIOUS
  <2>3. r \in PollType /\ r.told = poll[q].told /\ r.key = active.by
    BY <1>0, <2>2 DEF PollType, Imports
  <2>4. To(q, r) /\ poll[q].pc = "inspect"
    BY <1>5, <2>1, <2>2 DEF ProbeForInspect
  <2> QED BY <1>0, <1>5, <2>3, <2>4, Polled DEF ProbeForInspect
<1>6. CASE View(q)
  <2>1. PICK r : r = [poll[q] EXCEPT !.pc = "journal", !.ok = @ /\ poll[q].mark /\ active # Nothing]
    OBVIOUS
  <2>2. r \in PollType /\ r.told = poll[q].told /\ r.key = poll[q].key
    BY <1>0, <2>1 DEF PollType
  <2>3. To(q, r) /\ poll[q].pc = "view"
    BY <1>6, <2>1 DEF View
  <2> QED BY <1>0, <1>6, <2>2, <2>3, Polled DEF View
<1>7. CASE ReadJournal(q)
  <2>1. PICK r : r = [NoPoll EXCEPT !.told = ServiceState(poll[q].serves, poll[q].ok, log)]
    OBVIOUS
  <2>2. r \in PollType /\ r.pc = "idle" /\ r.key = None
    BY <1>0, <2>1 DEF NoPoll, PollType, ServiceState
  <2>3. To(q, r) /\ poll[q].pc = "journal"
    BY <1>7, <2>1 DEF ReadJournal
  <2> QED BY <1>0, <1>7, <2>2, <2>3, Polled DEF ReadJournal
<1> QED BY <1>1, <1>2, <1>3, <1>4, <1>5, <1>6, <1>7 DEF Reads

\* What the installer does leaves what was read as it is.
SameRead(q) == /\ poll'[q].pc = poll[q].pc /\ poll'[q].mark = poll[q].mark
               /\ poll'[q].key = poll[q].key /\ poll'[q].ok = poll[q].ok
               /\ poll'[q].told = poll[q].told /\ poll'[q].serves = poll[q].serves
               /\ poll'[q].quiet => poll[q].quiet

\* An execution of the service comes to its answer, and the answer could be built.
Answering == w[Supervisor].pc = "receipt" /\ w'[Supervisor] # w[Supervisor]
Built == mishaps' = mishaps

LEMMA Operating ==
  ASSUME StatusTypeOK, Operate
  PROVE  /\ \/ \E p \in Procs : Work(p) \/ \E o \in Ops : Start(p, o)
            \/ \E o \in AllOps : Cancel(o)
         /\ UNCHANGED <<cache, tainted>> /\ StatusTypeOK'
         /\ \A q \in Pollers : SameRead(q) /\ (poll'[q].quiet => log' = log)
         /\ engine'.known = engine.known /\ engine'.ok = engine.ok
         /\ engine'.missed <=> \/ engine.missed
                               \/ engine.known /\ Answering /\ ~Built
                               \/ engine.known /\ \E o \in AllOps :
                                    log[o] # log'[o] /\ log'[o].state \in {"failed", "cancelled"}
         /\ refresh' <=> refresh \/ (Answering /\ Built /\ Refreshes(w[Supervisor].ask.kind))
<1>0. /\ poll \in [Pollers -> PollType]
      /\ engine \in [known : BOOLEAN, ok : BOOLEAN, missed : BOOLEAN]
  BY DEF StatusTypeOK
<1>1. /\ \/ \E p \in Procs : Work(p) \/ \E o \in Ops : Start(p, o)
         \/ \E o \in AllOps : Cancel(o)
      /\ UNCHANGED <<cache, tainted>>
  BY DEF Operate
<1>2. /\ poll' \in [Pollers -> PollType]
      /\ \A q \in Pollers : SameRead(q) /\ (poll'[q].quiet => log' = log)
  <2>1. poll' = [q \in Pollers |-> [poll[q] EXCEPT !.quiet = @ /\ log' = log]]
    BY DEF Operate
  <2>2. ASSUME NEW q \in Pollers
        PROVE  poll'[q] \in PollType /\ SameRead(q) /\ (poll'[q].quiet => log' = log)
    <3>1. PICK b \in BOOLEAN : b <=> poll[q].quiet /\ log' = log
      OBVIOUS
    <3>2. poll'[q] = [poll[q] EXCEPT !.quiet = b]
      <4>1. poll'[q] = [poll[q] EXCEPT !.quiet = @ /\ log' = log]
        BY <2>1
      <4>2. (poll[q].quiet /\ log' = log) = b
        BY <1>0, <3>1 DEF PollType
      <4> QED BY <4>1, <4>2
    <3>3. poll[q] \in PollType
      BY <1>0
    <3> QED BY <3>1, <3>2, <3>3 DEF PollType, SameRead
  <2>3. poll' = [q \in Pollers |-> poll'[q]]
    BY <2>1
  <2> QED BY <2>2, <2>3
<1>3. PICK m \in BOOLEAN : m <=> \/ engine.missed
                                 \/ engine.known /\ Answering /\ ~Built
                                 \/ engine.known /\ \E o \in AllOps :
                                      log[o] # log'[o] /\ log'[o].state \in {"failed", "cancelled"}
  OBVIOUS
<1>4. engine' = [engine EXCEPT !.missed = m]
  <2> DEFINE told == \E o \in AllOps : log[o] # log'[o] /\ log'[o].state \in {"failed", "cancelled"}
  <2>1. engine' = [engine EXCEPT !.missed = @ \/ (engine.known /\ ((Answering /\ ~Built) \/ told))]
    BY DEF Operate, Answering, Built
  <2>2. m = (engine.missed \/ (engine.known /\ ((Answering /\ ~Built) \/ told)))
    BY <1>3
  <2> QED BY <2>1, <2>2
<1>5. /\ engine' \in [known : BOOLEAN, ok : BOOLEAN, missed : BOOLEAN]
      /\ engine'.known = engine.known /\ engine'.ok = engine.ok /\ engine'.missed = m
  BY <1>0, <1>4
<1>6. refresh' = (refresh \/ (Answering /\ Built /\ Refreshes(w[Supervisor].ask.kind)))
  BY DEF Operate, Answering, Built
<1>7. draining' = draining
  BY DEF Operate
<1>8. StatusTypeOK'
  BY <1>1, <1>2, <1>5, <1>6, <1>7 DEF StatusTypeOK
<1> QED BY <1>1, <1>2, <1>3, <1>5, <1>6, <1>8

LEMMA Harming ==
  ASSUME IInv, StatusTypeOK, Harm
  PROVE  /\ UNCHANGED <<rollback, log, w, cache, refresh, draining>> /\ active # Nothing
         /\ active'.by = active.by /\ active' # Nothing /\ StatusTypeOK'
         /\ tainted \subseteq tainted' /\ (cache[active.by] # {} => active.by \in tainted')
         /\ \A q \in Pollers : SameRead(q) /\ ~poll'[q].quiet
         /\ engine'.missed = engine.known /\ engine'.known = engine.known
<1>0. /\ poll \in [Pollers -> PollType] /\ active \in RuntimeType /\ active.by \in Stamps
      /\ engine \in [known : BOOLEAN, ok : BOOLEAN, missed : BOOLEAN]
  BY DEF StatusTypeOK, IInv, TypeOK, RuntimeType, Stamps
<1>1. UNCHANGED <<rollback, log, w, cache, refresh, draining>> /\ active # Nothing
  BY DEF Harm, Damage
<1>2. active'.by = active.by /\ active' # Nothing
  <2>1. PICK s \in {"drifted", "untrusted"} : active' = [active EXCEPT !.state = s]
    BY DEF Harm, Damage
  <2>2. active'.by = active.by /\ active'.state = s
    BY <1>0, <2>1 DEF RuntimeType
  <2> QED BY <2>2 DEF Nothing
<1>3. /\ tainted \subseteq tainted' /\ (cache[active.by] # {} => active.by \in tainted')
      /\ tainted' \in SUBSET Stamps
  BY <1>0 DEF Harm, StatusTypeOK
<1>4. poll' \in [Pollers -> PollType] /\ \A q \in Pollers : SameRead(q) /\ ~poll'[q].quiet
  <2>1. poll' = [q \in Pollers |-> [poll[q] EXCEPT !.quiet = FALSE]]
    BY DEF Harm
  <2>2. ASSUME NEW q \in Pollers
        PROVE  poll'[q] \in PollType /\ SameRead(q) /\ ~poll'[q].quiet
    <3>1. poll'[q] = [poll[q] EXCEPT !.quiet = FALSE] /\ poll[q] \in PollType
      BY <1>0, <2>1
    <3> QED BY <3>1 DEF PollType, SameRead
  <2>3. poll' = [q \in Pollers |-> poll'[q]]
    BY <2>1
  <2> QED BY <2>2, <2>3
<1>5. /\ engine' \in [known : BOOLEAN, ok : BOOLEAN, missed : BOOLEAN]
      /\ engine'.missed = engine.known /\ engine'.known = engine.known
  BY <1>0 DEF Harm
<1>6. StatusTypeOK'
  BY <1>1, <1>3, <1>4, <1>5 DEF StatusTypeOK
<1> QED BY <1>1, <1>2, <1>3, <1>4, <1>5, <1>6

LEMMA Restarting ==
  ASSUME TypeOK, Restart
  PROVE  /\ UNCHANGED <<active, rollback, log>> /\ StatusTypeOK'
         /\ cache' = NoCache /\ engine'.known = FALSE /\ OthersStay(Supervisor)
         /\ w'[Supervisor] = Idle /\ (\A q \in Pollers : poll'[q] = NoPoll)
         /\ (\A q \in Pollers : poll'[q].pc = "idle" /\ poll'[q].key = None)
<1>1. UNCHANGED <<disk, log>> /\ OthersStay(Supervisor) /\ w'[Supervisor] = Idle
  BY StatusAssumption, Dying DEF Restart
<1>2. /\ cache' = NoCache /\ tainted' = {} /\ poll' = [q \in Pollers |-> NoPoll]
      /\ engine' = NoVerdict /\ refresh' = FALSE /\ draining' = FALSE
  BY DEF Restart
<1>3. NoPoll \in PollType /\ NoPoll.pc = "idle" /\ NoPoll.key = None
  BY DEF NoPoll, PollType, Stamps
<1>4. NoVerdict \in [known : BOOLEAN, ok : BOOLEAN, missed : BOOLEAN] /\ NoVerdict.known = FALSE
  BY DEF NoVerdict
<1>5. NoCache \in [Stamps -> SUBSET BOOLEAN]
  BY DEF NoCache
<1> QED BY <1>1, <1>2, <1>3, <1>4, <1>5 DEF StatusTypeOK, disk

\* The kinds of steps of the service and its runtime.
LEMMA StatusKinds ==
  ASSUME [StatusNext]_StatusVars
  PROVE  \/ Operate \/ Harm \/ Restart
         \/ ProbeEngine \/ Refresh \/ Drain \/ (\E k \in Stamps : Expire(k))
         \/ \E q \in Pollers : Reads(q)
         \/ UNCHANGED StatusVars
BY DEF StatusNext, Reads

LEMMA Resolving ==
  ASSUME StatusTypeOK, ProbeEngine \/ Refresh \/ Drain \/ \E k \in Stamps : Expire(k)
  PROVE  UNCHANGED <<vars, poll>> /\ StatusTypeOK'
<1>1. CASE ProbeEngine
  <2>1. PICK ok \in PaddleImports : engine' = [known |-> TRUE, ok |-> ok, missed |-> FALSE]
    BY <1>1 DEF ProbeEngine
  <2>2. ok \in BOOLEAN
    BY DEF PaddleImports
  <2> QED BY <1>1, <2>1, <2>2 DEF ProbeEngine, StatusTypeOK
<1>2. CASE Refresh
  BY <1>2 DEF Refresh, StatusTypeOK, NoVerdict
<1>3. ASSUME NEW k \in Stamps, Expire(k) PROVE UNCHANGED <<vars, poll>> /\ StatusTypeOK'
  BY <1>3 DEF Expire, StatusTypeOK
<1>4. CASE Drain
  BY <1>4 DEF Drain, StatusTypeOK
<1> QED BY <1>1, <1>2, <1>3, <1>4

LEMMA StatusTypeStep == StatusInv /\ [StatusNext]_StatusVars => StatusTypeOK'
<1> SUFFICES ASSUME StatusInv, [StatusNext]_StatusVars PROVE StatusTypeOK'
  OBVIOUS
<1>0. IInv /\ StatusTypeOK /\ TypeOK
  BY DEF StatusInv, IInv
<1>1. ASSUME NEW q \in Pollers, Reads(q) PROVE StatusTypeOK'
  <2>1. /\ UNCHANGED <<vars, engine, refresh, draining>> /\ poll' \in [Pollers -> PollType]
        /\ Probe(q) \/ UNCHANGED <<cache, tainted>>
    BY <1>0, <1>1, Reading
  <2>2. CASE Probe(q)
    <3>1. PICK ok \in BOOLEAN : cache' = [cache EXCEPT ![poll[q].key] = {ok}]
      BY <2>2 DEF Probe, Imports
    <3>2. tainted' \in SUBSET Stamps
      BY <2>2, <1>0 DEF Probe, StatusTypeOK, PollType
    <3> QED BY <1>0, <2>1, <3>1, <3>2 DEF StatusTypeOK
  <2> QED BY <1>0, <2>1, <2>2 DEF StatusTypeOK
<1>2. CASE UNCHANGED StatusVars
  BY <1>0, <1>2 DEF StatusTypeOK, StatusVars, telling
<1> QED BY <1>0, <1>1, <1>2, Operating, Harming, Restarting, Resolving, StatusKinds

\* Where an operation of the service takes the directories.
LEMMA Operated ==
  ASSUME IInv, StatusTypeOK, Operate
  PROVE  \/ UNCHANGED <<active, rollback>>
         \/ \E p \in Procs : Work(p) /\ w[p].pc \notin Unlocked /\ Running(log)
<1>0. TypeOK /\ OneInstaller /\ RetryIsTold
  BY DEF IInv
<1>1. ASSUME NEW p \in Procs, NEW o \in Ops, Start(p, o) PROVE UNCHANGED <<active, rollback>>
  BY <1>0, <1>1, Starting DEF disk
<1>2. ASSUME NEW o \in AllOps, Cancel(o) PROVE UNCHANGED <<active, rollback>>
  BY <1>2 DEF Cancel, disk
<1>3. ASSUME NEW p \in Procs, Work(p), w[p].pc \in Unlocked PROVE UNCHANGED <<active, rollback>>
  BY <1>3, WorkUnlocked DEF ApplyRetry, AnswerFails, Record, Receipt, disk
<1> QED BY <1>1, <1>2, <1>3, Moves, Operating

LEMMA StampsAreUniqueStep == StatusInv /\ [StatusNext]_StatusVars => StampsAreUnique'
<1> SUFFICES ASSUME StatusInv, [StatusNext]_StatusVars PROVE StampsAreUnique'
  OBVIOUS
<1>0. IInv /\ StatusTypeOK /\ TypeOK /\ StampsAreUnique /\ OneInstaller /\ UnderWay /\ Places
      /\ RetryIsTold
  BY DEF StatusInv, IInv
<1>1. ASSUME NEW p \in Procs, Work(p), w[p].pc \notin Unlocked PROVE StampsAreUnique'
  <2>1. CASE SwapIn(p)
    <3>1. w[p].pc = "swapIn" /\ w[p].op \in AllOps
      BY <1>0, <1>1, <2>1, Walk, Framing DEF Leads
    <3>2. partial.by = w[p].op /\ rollback.by # w[p].op
      BY <1>0, <3>1 DEF Places, Executing, Lies, BuiltBy
    <3>3. active' = partial /\ rollback' = rollback
      BY <2>1 DEF SwapIn
    <3> QED BY <1>0, <3>1, <3>2, <3>3, Names DEF StampsAreUnique
  <2>2. CASE SwapOut(p)
    <3>1. active' = Nothing /\ rollback' \in {active, rollback} /\ (active = Nothing \/ rollback' = active)
      BY <2>2 DEF SwapOut
    <3> QED BY <1>0, <3>1 DEF StampsAreUnique, Nothing
  <2>3. CASE ~SwapIn(p) /\ ~SwapOut(p)
    <3>1. UNCHANGED <<active, rollback>>
          \/ (rollback' = Nothing /\ active' \in {active, rollback})
          \/ (active' = Nothing /\ rollback' = rollback)
      BY <1>1, <2>3 DEF Work, ApplyRetry, AnswerFails, Record, Receipt, Unlock, PlanRefused, BindPlan, Begin, BeginNot, Prepare, Clear,
         Extract, Fetched, Install, BuildFails, Commit, Launch, Succeed, AlreadySatisfied,
         TellSatisfied, ActivationFails, UndoOut, UndoIn, Clean, Fail, LeaveWithError, disk
    <3> QED BY <1>0, <3>1 DEF StampsAreUnique, Nothing
  <2> QED BY <2>1, <2>2, <2>3
<1>2. CASE Operate
  BY <1>0, <1>1, <1>2, Operated DEF StampsAreUnique
<1>3. CASE Harm
  <2>1. rollback' = rollback /\ active # Nothing /\ active'.by = active.by
    BY <1>0, <1>3, Harming
  <2> QED BY <1>0, <2>1 DEF StampsAreUnique
<1>4. CASE Restart
  BY <1>0, <1>4, Restarting DEF StampsAreUnique
<1>5. CASE ProbeEngine \/ Refresh \/ Drain \/ \E k \in Stamps : Expire(k)
  BY <1>0, <1>5, Resolving DEF StampsAreUnique, vars
<1>6. ASSUME NEW q \in Pollers, Reads(q) PROVE StampsAreUnique'
  BY <1>0, <1>6, Reading DEF StampsAreUnique, vars
<1>7. CASE UNCHANGED StatusVars
  BY <1>0, <1>7 DEF StampsAreUnique, StatusVars, vars
<1> QED BY <1>2, <1>3, <1>4, <1>5, <1>6, <1>7, StatusKinds

LEMMA PlacedStep ==
  ASSUME StatusInv, [StatusNext]_StatusVars, NEW k \in AllOps, Placed(k)
  PROVE  Placed(k)'
<1>0. IInv /\ StatusTypeOK /\ TypeOK /\ OneInstaller /\ UnderWay /\ RetryIsTold
  BY DEF StatusInv, IInv
<1>1. ASSUME NEW p \in Procs, Work(p), w[p].pc \notin Unlocked PROVE Placed(k)'
  <2>1. /\ Frame(p) /\ (GoesOn(p) \/ Quits(p))
        /\ \A q \in Procs \ {p} : w[q].pc \in Unlocked /\ w'[q] = w[q]
    BY <1>0, <1>1, Framing DEF Frame, OthersStay
  <2>2. \A q \in Procs \ {p} : ~Executing(q)'
    BY <2>1 DEF Executing
  <2>3. log'[k] # NoLog
    BY <1>0, <1>1, LogMoves DEF Placed
  <2>4. CASE w[p].op # k
    <3>1. w'[p].op # k
      BY <2>1, <2>4, Names DEF GoesOn, Quits, Answered, Idle
    <3> QED BY <2>2, <2>3, <3>1 DEF Placed
  <2>5. CASE w[p].op = k /\ Executing(p)
    <3>1. w[p].pc \in {"launch", "succeed", "undo", "undoIn", "clean", "fail", "leave"}
      BY <2>5 DEF Placed
    <3>2. ASSUME Executing(p)'
          PROVE  w'[p].pc \in {"launch", "succeed", "undo", "undoIn", "clean", "fail", "leave"}
      <4>1. CASE Launch(p) \/ ActivationFails(p) \/ UndoOut(p) \/ UndoIn(p) \/ Clean(p) \/ Fail(p)
        BY <1>0, <4>1, Walk, Failing DEF Leads
      <4>2. Launch(p) \/ ActivationFails(p) \/ UndoOut(p) \/ UndoIn(p) \/ Clean(p) \/ Fail(p)
        BY ZenonT(60), <1>0, <1>1, <3>1, <3>2, Walk, Talk, Through
           DEF Work, Leads, Phase, Begin, BuildSteps
      <4> QED BY <4>1, <4>2
    <3> QED BY <2>2, <2>3, <3>2 DEF Placed
  <2>6. CASE w[p].op = k /\ ~Executing(p)
    <3>1. ~Begin(p)
      BY <1>0, <2>6, Beginning DEF Placed
    <3>2. PlanRefused(p) \/ BindPlan(p) \/ BeginNot(p) \/ Unlock(p)
      BY <1>1, <2>6, <3>1, WorkFrom DEF Executing
    <3>3. ~Executing(p)'
      BY <1>0, <1>1, <3>2, Through
    <3> QED BY <2>2, <2>3, <3>3 DEF Placed
  <2> QED BY <2>4, <2>5, <2>6
<1>2. ASSUME NEW p \in Procs, Sidestep(p) PROVE Placed(k)'
  <2>1. log' = log /\ ~Executing(p)' /\ \A q \in Procs \ {p} : w'[q] = w[q]
    BY <1>2 DEF Sidestep, OthersStay, Executing
  <2> QED BY <2>1 DEF Placed, Executing
<1>3. CASE Aside
  <2>1. w' = w /\ (log' = log \/ log'[k].state = "running" \/ log'[k] = log[k])
    <3>1. CASE \E o \in AllOps : Cancel(o)
      <4>1. PICK o \in AllOps : Cancel(o)
        BY <3>1
      <4>2. log'[o].state = log[o].state /\ log[o].state = "running" /\ w' = w
            /\ \A x \in AllOps \ {o} : log'[x] = log[x]
        BY <1>0, <1>3, <4>1, AsideFrame DEF Cancel, TypeOK
      <4> QED BY <4>2
    <3>2. CASE Damage \/ \E p \in Procs : Preview(p)
      BY <3>2 DEF Damage, Preview
    <3> QED BY <1>3, <3>1, <3>2 DEF Aside
  <2>2. log'[k] # NoLog
    BY <2>1 DEF Placed, NoLog
  <2> QED BY <2>1, <2>2 DEF Placed, Executing
<1>4. CASE UNCHANGED vars
  BY <1>4 DEF Placed, Executing, vars
<1> QED BY <1>0, <1>1, <1>2, <1>3, <1>4, StatusRefines, Kinds, Sidesteps

LEMMA InUseIsPlaced ==
  ASSUME IInv, NEW k \in AllOps, active.by = k
  PROVE  Placed(k)
<1>1. log[k] # NoLog
  BY DEF IInv, OnlyAccepted, NoLog
<1>2. ASSUME NEW p \in Procs, Executing(p), w[p].op = k
      PROVE  w[p].pc \in {"launch", "succeed", "undo"}
  BY <1>2 DEF IInv, Places, Lies
<1> QED BY <1>1, <1>2 DEF Placed

LEMMA StampsArePlacedStep == StatusInv /\ [StatusNext]_StatusVars => StampsArePlaced'
<1> SUFFICES ASSUME StatusInv, [StatusNext]_StatusVars, NEW k \in AllOps, Known(k)'
             PROVE  Placed(k)
  BY PlacedStep DEF StampsArePlaced
<1>0. IInv /\ StatusTypeOK /\ TypeOK /\ StampsArePlaced /\ k \in Stamps /\ k # None
  BY Names DEF StatusInv, IInv, Stamps
<1>1. SUFFICES ASSUME ~Known(k) PROVE Placed(k)
  BY <1>0 DEF StampsArePlaced
<1>2. ~Operate /\ ~Harm
  <2>1. Operate => ~Known(k)'
    BY <1>0, <1>1, Operating DEF Known, SameRead
  <2>2. Harm => ~Known(k)'
    BY <1>0, <1>1, Harming DEF Known, SameRead
  <2> QED BY <2>1, <2>2
<1>3. ~Restart
  BY <1>0, Restarting DEF Known, NoCache
<1>4. ~(ProbeEngine \/ Refresh \/ Drain \/ \E x \in Stamps : Expire(x))
  <2>1. ~(ProbeEngine \/ Refresh \/ Drain)
    BY <1>1 DEF ProbeEngine, Refresh, Drain, Known
  <2>2. ASSUME NEW x \in Stamps, Expire(x) PROVE FALSE
    BY <1>0, <1>1, <2>2 DEF Expire, Known, StatusTypeOK
  <2> QED BY <2>1, <2>2
<1>5. ~(UNCHANGED StatusVars)
  BY <1>1 DEF Known, StatusVars, telling
<1>6. ASSUME NEW q \in Pollers, Reads(q) PROVE Placed(k)
  <2>1. /\ \A x \in Pollers \ {q} : poll'[x] = poll[x]
        /\ Probe(q) \/ UNCHANGED <<cache, tainted>>
        /\ poll'[q].key \in {poll[q].key, active.by, None}
    BY <1>0, <1>6, Reading
  <2>2. cache'[k] = cache[k]
    <3>1. CASE Probe(q)
      <4>1. PICK ok \in Imports : cache' = [cache EXCEPT ![poll[q].key] = {ok}]
        BY <3>1 DEF Probe
      <4>2. poll[q].key # k
        BY <1>1 DEF Known
      <4> QED BY <1>0, <4>1, <4>2 DEF StatusTypeOK
    <3> QED BY <2>1, <3>1
  <2>3. poll'[q].key = k
    BY <1>1, <2>1, <2>2 DEF Known
  <2>4. active.by = k
    BY <1>0, <1>1, <2>1, <2>3 DEF Known
  <2> QED BY <1>0, <2>4, InUseIsPlaced
<1> QED BY <1>2, <1>3, <1>4, <1>5, <1>6, StatusKinds

\* The cache has true verdicts of a runtime, or knows that it may not.
LEMMA CacheIsTrueStep == StatusInv /\ [StatusNext]_StatusVars => CacheIsTrue'
<1> SUFFICES ASSUME StatusInv, [StatusNext]_StatusVars PROVE CacheIsTrue'
  OBVIOUS
<1>0. /\ IInv /\ StatusTypeOK /\ TypeOK /\ CacheIsTrue /\ StampsAreUnique /\ StampsArePlaced
      /\ OneInstaller /\ Places /\ UnderWay /\ RetryIsTold
      /\ active.by \in Stamps /\ rollback.by \in Stamps /\ Nothing.by = None /\ None \in Stamps
      /\ cache \in [Stamps -> SUBSET BOOLEAN]
  BY DEF StatusInv, IInv, TypeOK, RuntimeType, Stamps, Nothing, StatusTypeOK
<1>1. ASSUME NEW p \in Procs, Work(p), w[p].pc \notin Unlocked, UNCHANGED <<cache, tainted>>
      PROVE  CacheIsTrue'
  <2>1. \A r \in {active, rollback, Nothing} : Cached(r)
    BY <1>0 DEF CacheIsTrue
  <2>2. SwapIn(p) => Cached(partial)
    <3> SUFFICES ASSUME SwapIn(p) PROVE Cached(partial)
      OBVIOUS
    <3>1. w[p].pc = "swapIn" /\ w[p].op \in AllOps /\ Executing(p)
      BY <1>0, <1>1, Walk, Framing DEF Leads, Executing
    <3>2. partial.by = w[p].op
      BY <1>0, <3>1 DEF Places, Lies, BuiltBy
    <3>3. ~Placed(w[p].op)
      BY <3>1 DEF Placed
    <3>4. cache[partial.by] = {}
      BY <1>0, <3>1, <3>2, <3>3 DEF StampsArePlaced, Known
    <3> QED BY <3>4 DEF Cached
  <2>3. Cached(active') /\ Cached(rollback')
    <3>1. PICK a : a = active'
      OBVIOUS
    <3>2. PICK r : r = rollback'
      OBVIOUS
    <3>3. a \in {active, rollback, Nothing} \/ (SwapIn(p) /\ a = partial)
      BY <1>0, <1>1, <3>1, Directories
    <3>4. r \in {active, rollback, Nothing}
      BY <1>0, <1>1, <3>2, Directories
    <3>5. Cached(a) /\ Cached(r)
      BY <2>1, <2>2, <3>3, <3>4
    <3> QED BY <3>1, <3>2, <3>5
  <2> QED BY <1>1, <2>1, <2>3 DEF CacheIsTrue, Cached
<1>2. CASE Operate
  <2>1. UNCHANGED <<cache, tainted>>
    BY <1>0, <1>2, Operating
  <2>2. CASE UNCHANGED <<active, rollback>>
    BY <1>0, <2>1, <2>2 DEF CacheIsTrue, Cached
  <2> QED BY <1>0, <1>1, <1>2, <2>1, <2>2, Operated
<1>3. CASE Harm
  <2>1. /\ UNCHANGED <<rollback, cache>> /\ active'.by = active.by /\ tainted \subseteq tainted'
        /\ (cache[active.by] # {} => active.by \in tainted')
    BY <1>0, <1>3, Harming
  <2> QED BY <1>0, <2>1 DEF CacheIsTrue, Cached
<1>4. CASE Restart
  <2>1. cache' = NoCache /\ UNCHANGED <<active, rollback>>
    BY <1>0, <1>4, Restarting
  <2> QED BY <1>0, <2>1 DEF CacheIsTrue, Cached, NoCache
<1>5. CASE ProbeEngine \/ Refresh \/ Drain \/ UNCHANGED StatusVars
  BY <1>0, <1>5 DEF ProbeEngine, Refresh, Drain, StatusVars, telling, vars, CacheIsTrue, Cached
<1>6. ASSUME NEW k \in Stamps, Expire(k) PROVE CacheIsTrue'
  <2>1. cache' = [cache EXCEPT ![k] = {}] /\ tainted' = tainted \ {k}
        /\ UNCHANGED <<active, rollback>>
    BY <1>6 DEF Expire, vars
  <2> QED BY <1>0, <2>1 DEF CacheIsTrue, Cached
<1>7. ASSUME NEW q \in Pollers, Reads(q) PROVE CacheIsTrue'
  <2>1. UNCHANGED <<active, rollback>> /\ (Probe(q) \/ UNCHANGED <<cache, tainted>>)
    BY <1>0, <1>7, Reading DEF vars
  <2>2. CASE Probe(q)
    <3>1. PICK k \in Stamps : k = poll[q].key
      BY <1>0 DEF StatusTypeOK, PollType
    <3>2. PICK ok \in Imports : cache' = [cache EXCEPT ![k] = {ok}]
      BY <2>2, <3>1 DEF Probe
    <3>3. tainted' = IF active.by = k THEN tainted \ {k} ELSE tainted \cup {k}
      BY <2>2, <3>1 DEF Probe
    <3>4. cache'[k] = {ok} /\ \A x \in Stamps \ {k} : cache'[x] = cache[x]
      BY <1>0, <3>2
    <3>5. CASE active.by = k
      <4>1. Verdict(active, ok)
        BY DEF Imports, Verdict
      <4>2. rollback.by = k => rollback = active
        BY <1>0, <3>5 DEF StampsAreUnique
      <4>3. None = k => Nothing = active
        BY <1>0, <3>5 DEF StampsAreUnique
      <4>4. tainted' = tainted \ {k} /\ (TRUE \in {ok}) = ok
        <5>1. ok = TRUE \/ ok = FALSE
          BY DEF Imports
        <5>2. CASE ok = TRUE
          BY <3>3, <3>5, <5>2
        <5>3. ok = FALSE => TRUE \notin {ok}
          OBVIOUS
        <5>4. CASE ok = FALSE
          <6>1. (TRUE \in {ok}) \in BOOLEAN
            OBVIOUS
          <6>2. PICK b \in BOOLEAN : b = (TRUE \in {ok})
            BY <6>1, Zenon
          <6>3. b = FALSE
            BY <5>3, <5>4, <6>2
          <6> QED BY <3>3, <3>5, <5>4, <6>2, <6>3
        <5> QED BY <5>1, <5>2, <5>4
      <4>5. \A r \in {active, rollback, Nothing} : Cached(r)
        BY <1>0 DEF CacheIsTrue
      <4>6. \A r \in {active, rollback, Nothing} :
              cache'[r.by] # {} /\ r.by \notin tainted' => Verdict(r, TRUE \in cache'[r.by])
        BY <1>0, <3>4, <4>1, <4>2, <4>3, <4>4, <4>5 DEF Cached
      <4> QED BY <2>1, <4>6 DEF CacheIsTrue, Cached
    <3>6. CASE active.by # k
      BY <1>0, <2>1, <3>3, <3>4, <3>6 DEF CacheIsTrue, Cached
    <3> QED BY <3>5, <3>6
  <2> QED BY <1>0, <2>1, <2>2 DEF CacheIsTrue, Cached
<1> QED BY <1>2, <1>3, <1>4, <1>5, <1>6, <1>7, StatusKinds

\* What a request has read stays so while nothing happens.
LEMMA CurrentStep ==
  ASSUME StatusInv, NEW q \in Pollers, Reads(q), poll'[q].pc # "idle", poll'[q].quiet
  PROVE  Current(q)'
<1>0. /\ IInv /\ StatusTypeOK /\ CacheIsTrue
      /\ poll \in [Pollers -> PollType] /\ poll[q] \in PollType /\ NoPoll \in PollType
      /\ poll[q].pc # "idle" /\ poll[q].quiet => Current(q)
  BY DEF StatusInv, StatusTypeOK, RequestsAreCurrent, NoPoll, PollType, Stamps
<1>1. UNCHANGED <<active, log>> /\ poll' \in [Pollers -> PollType]
  BY <1>0, Reading DEF vars
<1>2. SUFFICES /\ ~Running(log) /\ poll'[q].mark = MarkerMatches
               /\ poll'[q].pc \in {"lookUp", "probe"} => poll'[q].key = active.by
               /\ poll'[q].pc = "view" => Verdict(active, poll'[q].ok)
               /\ poll'[q].pc = "journal" => poll'[q].ok = (active.state = "sound")
  BY <1>1 DEF Current, MarkerMatches
<1>3. CASE ReadMarker(q)
  <2>1. PICK kind \in {"stat", "inspect"} :
          poll'[q] = [NoPoll EXCEPT !.pc = kind, !.serves = ~draining,
                                    !.mark = MarkerMatches, !.quiet = ~Running(log)]
    BY <1>0, <1>3 DEF ReadMarker, To
  <2>2. poll'[q].pc = kind /\ poll'[q].mark = MarkerMatches /\ poll'[q].quiet = ~Running(log)
    BY <2>1, ZenonT(60) DEF NoPoll
  <2> QED BY <2>2
<1>4. CASE StatMarker(q)
  <2>1. poll[q].pc = "stat" /\ poll'[q] = [poll[q] EXCEPT !.pc = "lookUp", !.key = active.by]
    BY <1>0, <1>4 DEF StatMarker, To, Key
  <2>2. /\ poll'[q].pc = "lookUp" /\ poll'[q].key = active.by
        /\ poll'[q].mark = poll[q].mark /\ poll'[q].quiet = poll[q].quiet
    BY <1>0, <2>1 DEF PollType
  <2> QED BY <1>0, <2>1, <2>2 DEF Current
<1>5. CASE LookUp(q) /\ cache[poll[q].key] = {}
  <2>1. poll[q].pc = "lookUp" /\ poll'[q] = [poll[q] EXCEPT !.pc = "probe"]
    BY <1>0, <1>5 DEF LookUp, To
  <2>2. /\ poll'[q].pc = "probe" /\ poll'[q].key = poll[q].key
        /\ poll'[q].mark = poll[q].mark /\ poll'[q].quiet = poll[q].quiet
    BY <1>0, <2>1 DEF PollType
  <2> QED BY <1>0, <2>1, <2>2 DEF Current
<1>6. CASE LookUp(q) /\ cache[poll[q].key] # {}
  <2>0. /\ (TRUE \in cache[poll[q].key]) \in BOOLEAN
        /\ (poll[q].quiet /\ poll[q].key \notin tainted) \in BOOLEAN
    OBVIOUS
  <2>1. PICK ok \in BOOLEAN, quiet \in BOOLEAN :
          ok = (TRUE \in cache[poll[q].key])
          /\ quiet = (poll[q].quiet /\ poll[q].key \notin tainted)
    BY <2>0, Zenon
  <2>2. /\ poll[q].pc = "lookUp"
        /\ poll'[q] = [poll[q] EXCEPT !.pc = "view", !.ok = ok, !.quiet = quiet]
    BY <1>0, <1>6, <2>1 DEF LookUp, To
  <2>3. /\ poll'[q].pc = "view" /\ poll'[q].ok = ok
        /\ poll'[q].mark = poll[q].mark /\ poll'[q].quiet = quiet
    BY <1>0, <2>2 DEF PollType
  <2>4. Current(q) /\ poll[q].key \notin tainted
    BY <1>0, <2>1, <2>2, <2>3
  <2>5. Verdict(active, ok)
    BY <1>0, <1>6, <2>1, <2>2, <2>4 DEF Current, CacheIsTrue, Cached
  <2> QED BY <2>3, <2>4, <2>5 DEF Current
<1>7. CASE Probe(q) \/ ProbeForInspect(q)
  <2>1. PICK ok \in Imports :
          /\ poll[q].pc # "idle"
          /\ \/ poll'[q] = [poll[q] EXCEPT !.pc = "view", !.ok = ok]
             \/ poll'[q] = [poll[q] EXCEPT !.pc = "view", !.ok = ok, !.key = active.by]
    BY <1>0, <1>7, ZenonT(60) DEF Probe, ProbeForInspect, To
  <2>2. /\ poll'[q].pc = "view" /\ poll'[q].ok = ok
        /\ poll'[q].mark = poll[q].mark /\ poll'[q].quiet = poll[q].quiet
    BY <1>0, <2>1 DEF PollType
  <2>3. Verdict(active, ok)
    BY DEF Imports, Verdict
  <2> QED BY <1>0, <2>1, <2>2, <2>3 DEF Current
<1>8. CASE View(q)
  <2>1. PICK ok \in BOOLEAN : ok = (poll[q].ok /\ poll[q].mark /\ active # Nothing)
    OBVIOUS
  <2>2. poll[q].pc = "view" /\ poll'[q] = [poll[q] EXCEPT !.pc = "journal", !.ok = ok]
    BY <1>0, <1>8, <2>1 DEF View, To
  <2>3. /\ poll'[q].pc = "journal" /\ poll'[q].ok = ok
        /\ poll'[q].mark = poll[q].mark /\ poll'[q].quiet = poll[q].quiet
    BY <1>0, <2>2 DEF PollType
  <2>4. Current(q)
    BY <1>0, <2>2, <2>3
  <2>5. Verdict(active, poll[q].ok) /\ poll[q].mark = MarkerMatches
    BY <2>2, <2>4 DEF Current
  <2>6. ok = (active.state = "sound")
    BY <1>0, <2>1, <2>5 DEF Verdict, MarkerMatches, Nothing, PollType
  <2> QED BY <2>3, <2>4, <2>6 DEF Current
<1>9. CASE ReadJournal(q)
  <2>1. poll'[q].pc = "idle"
    BY <1>0, <1>9 DEF ReadJournal, To, NoPoll
  <2> QED BY <2>1
<1> QED BY <1>3, <1>4, <1>5, <1>6, <1>7, <1>8, <1>9 DEF Reads

LEMMA RequestsAreCurrentStep == StatusInv /\ [StatusNext]_StatusVars => RequestsAreCurrent'
<1> SUFFICES ASSUME StatusInv, [StatusNext]_StatusVars, NEW q \in Pollers, poll'[q].pc # "idle"
             PROVE  poll'[q].told = None /\ (poll'[q].quiet => Current(q)')
  BY DEF RequestsAreCurrent
<1>0. /\ IInv /\ StatusTypeOK /\ TypeOK
      /\ poll[q].pc # "idle" => poll[q].told = None
      /\ poll[q].pc # "idle" /\ poll[q].quiet => Current(q)
  BY DEF StatusInv, IInv, RequestsAreCurrent
<1>1. CASE Operate
  <2>1. SameRead(q) /\ (poll'[q].quiet => log' = log)
    BY <1>0, <1>1, Operating
  <2>2. ASSUME poll'[q].quiet PROVE Current(q)'
    <3>1. Current(q) /\ log' = log
      BY <1>0, <2>1, <2>2 DEF SameRead
    <3>2. active' = active
      BY <1>0, <1>1, <3>1, Operated DEF Current
    <3> QED BY <2>1, <3>1, <3>2 DEF SameRead, Current, Running, MarkerMatches
  <2> QED BY <1>0, <2>1, <2>2 DEF SameRead
<1>2. CASE Harm
  <2>1. SameRead(q) /\ ~poll'[q].quiet
    BY <1>0, <1>2, Harming
  <2> QED BY <1>0, <2>1 DEF SameRead
<1>3. CASE Restart
  <2>1. poll'[q].pc = "idle"
    BY <1>0, <1>3, Restarting
  <2> QED BY <2>1
<1>4. CASE (ProbeEngine \/ Refresh \/ Drain \/ \E k \in Stamps : Expire(k)) \/ UNCHANGED StatusVars
  <2>1. UNCHANGED <<active, log, poll>>
    BY <1>0, <1>4, Resolving DEF vars, StatusVars, telling
  <2> QED BY <1>0, <2>1 DEF Current, Running, MarkerMatches
<1>5. ASSUME NEW x \in Pollers, Reads(x)
      PROVE  poll'[q].told = None /\ (poll'[q].quiet => Current(q)')
  <2>1. /\ UNCHANGED <<active, log>> /\ \A y \in Pollers \ {x} : poll'[y] = poll[y]
        /\ poll'[x].pc # "idle" => poll'[x].told = None \/ poll'[x].told = poll[x].told
        /\ poll[x].pc = "idle" => poll'[x].told = None
    BY <1>0, <1>5, Reading DEF vars
  <2>2. CASE x = q
    BY <1>0, <1>5, <2>1, <2>2, CurrentStep
  <2>3. CASE x # q
    BY <1>0, <2>1, <2>3 DEF Current, Running, MarkerMatches
  <2> QED BY <2>2, <2>3
<1> QED BY <1>1, <1>2, <1>3, <1>4, <1>5, StatusKinds

LEMMA StatusInitInv == StatusInit => StatusInv
<1> SUFFICES ASSUME StatusInit PROVE StatusInv
  OBVIOUS
<1>0. /\ Init /\ cache = NoCache /\ tainted = {} /\ poll = [q \in Pollers |-> NoPoll]
      /\ engine = NoVerdict /\ refresh = FALSE /\ draining = FALSE
  BY DEF StatusInit
<1>1. IInv
  BY <1>0, StatusRefines, InitInv
<1>2. StatusTypeOK
  BY <1>0 DEF StatusTypeOK, NoCache, NoPoll, NoVerdict, PollType, Stamps
<1>3. CacheIsTrue
  <2>1. active.by \in Stamps /\ rollback.by \in Stamps /\ Nothing.by \in Stamps
    BY <1>1 DEF IInv, TypeOK, RuntimeType, Stamps, Nothing
  <2> QED BY <1>0, <2>1 DEF CacheIsTrue, Cached, NoCache
<1>4. StampsAreUnique
  BY <1>0, Names DEF Init, StampsAreUnique, Nothing
<1>5. StampsArePlaced
  BY <1>0, Names DEF StampsArePlaced, Known, NoCache, NoPoll, Stamps
<1>6. RequestsAreCurrent
  BY <1>0 DEF RequestsAreCurrent, NoPoll
<1> QED BY <1>1, <1>2, <1>3, <1>4, <1>5, <1>6 DEF StatusInv

LEMMA StatusNextInv == StatusInv /\ [StatusNext]_StatusVars => StatusInv'
<1> SUFFICES ASSUME StatusInv, [StatusNext]_StatusVars PROVE StatusInv'
  OBVIOUS
<1>1. IInv'
  BY StatusRefines, NextInv DEF StatusInv
<1>2. StatusTypeOK' /\ CacheIsTrue' /\ StampsAreUnique'
  BY StatusTypeStep, CacheIsTrueStep, StampsAreUniqueStep
<1>3. StampsArePlaced' /\ RequestsAreCurrent'
  BY StampsArePlacedStep, RequestsAreCurrentStep
<1> QED BY <1>1, <1>2, <1>3 DEF StatusInv

\* What the service has read and cached of the runtime is so, or it knows that
\* it may not be.
THEOREM StatusInvariance == StatusSpec => []StatusInv
BY StatusInitInv, StatusNextInv, PTL DEF StatusSpec, StatusVars

\* A status request that nothing disturbed tells "ready" just when the runtime is sound
\* and the service did not drain (runtime_status_from_environment, app.py), whatever
\* had been cached before.
THEOREM StatusTellsTheTruth == StatusSpec => StatusIsTrue
<1> DEFINE Truth == \A q \in Pollers :
                      /\ poll[q].pc = "journal" /\ poll'[q].told # None
                      /\ poll[q].quiet
                      => (poll'[q].told = "ready" <=> active.state = "sound" /\ poll[q].serves)
<1>1. StatusInv /\ [StatusNext]_StatusVars => [Truth]_StatusVars
  <2> SUFFICES ASSUME StatusInv, [StatusNext]_StatusVars, NEW q \in Pollers,
                      poll[q].pc = "journal", poll'[q].told # None, poll[q].quiet
               PROVE  poll'[q].told = "ready" <=> active.state = "sound" /\ poll[q].serves
    OBVIOUS
  <2>0. /\ IInv /\ StatusTypeOK /\ TypeOK /\ poll[q].told = None /\ Current(q)
        /\ poll \in [Pollers -> PollType] /\ poll[q].serves \in BOOLEAN
    BY DEF StatusInv, IInv, RequestsAreCurrent, StatusTypeOK, PollType
  <2>1. ~Operate /\ ~Harm
    BY <2>0, Operating, Harming DEF SameRead
  <2>2. ~Restart
    <3>1. Restart => poll'[q] = NoPoll
      BY <2>0, Restarting
    <3>2. NoPoll.told = None
      BY DEF NoPoll
    <3> QED BY <3>1, <3>2
  <2>3. ~(ProbeEngine \/ Refresh \/ Drain \/ \E k \in Stamps : Expire(k)) /\ ~(UNCHANGED StatusVars)
    BY <2>0, Resolving DEF StatusVars, telling
  <2>4. PICK x \in Pollers : Reads(x)
    BY <2>1, <2>2, <2>3, StatusKinds
  <2>5. x = q
    BY <2>0, <2>4, Reading, SMTT(30)
  <2>6. ReadJournal(q)
    BY <2>4, <2>5 DEF Reads, ReadMarker, StatMarker, LookUp, Probe, ProbeForInspect, View
  <2>7. poll'[q].told = ServiceState(poll[q].serves, poll[q].ok, log)
    BY <2>0, <2>6 DEF ReadJournal, To, NoPoll
  <2>8. ~Running(log) /\ poll[q].ok = (active.state = "sound")
    BY <2>0 DEF Current
  <2> QED BY <2>7, <2>8 DEF ServiceState
<1> QED BY <1>1, StatusInvariance, PTL DEF StatusSpec, StatusIsTrue, StatusVars

\* Requests are executed as they were asked for.
LEMMA AskedForStep == StatusInv /\ AskedFor /\ [StatusNext]_StatusVars => AskedFor'
<1> SUFFICES ASSUME StatusInv, AskedFor, [StatusNext]_StatusVars, NEW p \in Procs
             PROVE  w'[p].op # Retry /\ (w'[p].pc # "idle" => w'[p].ask \in Intents)
  BY DEF AskedFor
<1>0. /\ IInv /\ StatusTypeOK /\ TypeOK /\ OneInstaller /\ UnderWay /\ RetryIsTold
      /\ w[p].op # Retry /\ (w[p].pc # "idle" => w[p].ask \in Intents)
      /\ Idle.op # Retry /\ Idle.pc = "idle"
  BY Names DEF StatusInv, IInv, AskedFor, Idle
<1>1. ASSUME NEW x \in Procs, Work(x)
      PROVE  w'[p].op # Retry /\ (w'[p].pc # "idle" => w'[p].ask \in Intents)
  <2>0. w[x].op # Retry /\ w[x].pc \notin {"apply"} \cup Answers
    BY <1>0 DEF AskedFor, RetryIsTold
  <2>1. CASE w[x].pc \notin Unlocked
    <3>1. OthersStay(x) /\ (GoesOn(x) \/ Quits(x)) /\ w[x].pc # "idle"
      BY <1>0, <1>1, <2>1, Framing DEF Frame
    <3>2. CASE p = x
      BY <1>0, <2>0, <3>1, <3>2 DEF GoesOn, Quits, Answered
    <3> QED BY <1>0, <3>1, <3>2 DEF OthersStay
  <2>2. CASE w[x].pc \in Unlocked
    <3>1. AnswerFails(x) \/ Receipt(x)
      BY <1>1, <2>0, <2>2, WorkUnlocked DEF ApplyRetry, Record
    <3>2. OthersStay(x) /\ w'[x] = Idle
      BY <1>0, <2>0, <3>1, Receiving
    <3> QED BY <1>0, <3>2 DEF OthersStay
  <2> QED BY <2>1, <2>2
<1>2. ASSUME NEW x \in Procs, NEW o \in Ops, Start(x, o)
      PROVE  w'[p].op # Retry /\ (w'[p].pc # "idle" => w'[p].ask \in Intents)
  <2>1. PICK i \in Intents : Locked(x, o, i)
    BY <1>2 DEF Start
  <2>2. OthersStay(x) /\ w'[x].op = o /\ w'[x].ask = i /\ o # Retry
    BY <1>0, <2>1, Names, LockedTyped
  <2> QED BY <1>0, <2>2 DEF OthersStay
<1>3. CASE Operate
  <2>1. (\E o \in AllOps : Cancel(o)) => w' = w
    BY DEF Cancel
  <2> QED BY <1>0, <1>1, <1>2, <1>3, <2>1, Operating
<1>4. CASE Harm
  BY <1>0, <1>4, Harming
<1>5. CASE Restart
  BY <1>0, <1>5, Restarting DEF OthersStay, Idle
<1>6. w' = w \/ Operate \/ Harm \/ Restart
  BY <1>0, Resolving, Reading, StatusKinds DEF StatusVars, vars
<1> QED BY <1>0, <1>3, <1>4, <1>5, <1>6

\* While the runtime's operations are this service's, none ends without a trace
\* in the resolver.
LEMMA EndsAreNoticed ==
  ASSUME StatusInv, AskedFor, Procs = {Supervisor}, Operate, Running(log), ~Running(log)'
  PROVE  Unanswered' \/ (engine.known => engine'.missed)
<1>0. IInv /\ StatusTypeOK /\ TypeOK /\ OneInstaller /\ RetryIsTold
  BY DEF StatusInv, IInv
<1>1. PICK o \in AllOps : log[o].state = "running"
  BY DEF Running
<1>2. log'[o].state # "running"
  BY DEF Running
<1>3. Work(Supervisor)
  <2>1. ASSUME NEW p \in Procs, NEW x \in Ops, Start(p, x) PROVE FALSE
    BY <1>0, <1>1, <1>2, <2>1, Starting
  <2>2. ASSUME NEW x \in AllOps, Cancel(x) PROVE FALSE
    BY <1>0, <1>1, <1>2, <2>2, AsideFrame DEF Aside
  <2> QED BY <1>0, <2>1, <2>2, Operating
<1>4. Supervisor \in Procs
  OBVIOUS
<1>5. log'[o].state \in {"succeeded", "failed", "cancelled"}
  BY <1>0, <1>1, <1>2, <1>3, <1>4, LogMoves DEF NoLog
<1>6. CASE log'[o].state = "succeeded"
  <2>1. w[Supervisor].pc \notin Unlocked
    BY <1>1, <1>2, <1>3, WorkUnlocked DEF ApplyRetry, AnswerFails, Record, Receipt
  <2>2. w'[Supervisor].pc = "unlock"
    BY <1>0, <1>1, <1>3, <1>4, <1>6, <2>1, Successes
  <2> QED BY <2>2 DEF Unanswered
<1>7. CASE log'[o].state \in {"failed", "cancelled"}
  BY <1>0, <1>1, <1>2, <1>7, Operating
<1> QED BY <1>5, <1>6, <1>7

\* Nor is one forgotten between the end of the work and the answer to it.
LEMMA AnswersAreNoticed ==
  ASSUME StatusInv, AskedFor, Procs = {Supervisor}, Operate, Unanswered
  PROVE  Unanswered' \/ refresh' \/ (engine.known => engine'.missed)
<1>0. IInv /\ StatusTypeOK /\ TypeOK /\ OneInstaller /\ RetryIsTold
  BY DEF StatusInv, IInv
<1>1. CASE Work(Supervisor) /\ w[Supervisor].pc = "unlock"
  <2>1. Unlock(Supervisor)
    BY <1>1, WorkFrom DEF PlanRefused, BindPlan, Begin, BeginNot, Step
  <2>2. w'[Supervisor].pc = "receipt"
    BY <1>0, <1>1, <2>1, Quitting DEF Quits
  <2> QED BY <2>2 DEF Unanswered
<1>2. CASE Work(Supervisor) /\ w[Supervisor].pc = "receipt"
  <2>1. AnswerFails(Supervisor) \/ Receipt(Supervisor)
    BY <1>2, WorkUnlocked DEF ApplyRetry, Record
  <2>2. w'[Supervisor] = Idle /\ w[Supervisor].ask \in Intents
    BY <1>0, <1>2, <2>1, Receiving DEF AskedFor
  <2>3. Answering /\ Refreshes(w[Supervisor].ask.kind)
    BY <1>2, <2>2, Records DEF Answering, Idle, Refreshes
  <2>4. CASE Receipt(Supervisor)
    BY <1>0, <2>3, <2>4, Operating DEF Receipt, Built
  <2>5. CASE AnswerFails(Supervisor)
    <3>1. ~Built
      BY <1>0, <2>5 DEF AnswerFails, Mishap, Built, TypeOK
    <3> QED BY <1>0, <2>3, <3>1, Operating
  <2> QED BY <2>1, <2>4, <2>5
<1>3. CASE ~Work(Supervisor)
  <2>1. ASSUME NEW o \in Ops, Start(Supervisor, o) PROVE FALSE
    BY <2>1 DEF Start, Unanswered
  <2>2. \E o \in AllOps : Cancel(o)
    BY <1>0, <1>3, <2>1, Operating
  <2>3. w' = w
    BY <2>2 DEF Cancel
  <2> QED BY <2>3 DEF Unanswered
<1> QED BY <1>1, <1>2, <1>3 DEF Unanswered

LEMMA VerdictsAreRenewedStep ==
  ASSUME Procs = {Supervisor}, StatusInv, AskedFor, VerdictsAreRenewed, [StatusNext]_StatusVars
  PROVE  VerdictsAreRenewed'
<1>0. IInv /\ StatusTypeOK /\ TypeOK
  BY DEF StatusInv, IInv
<1>1. CASE Operate
  <2>1. /\ engine'.known = engine.known /\ engine'.ok = engine.ok
        /\ ~engine'.missed => ~engine.missed
        /\ ~refresh' => ~refresh
    BY <1>0, <1>1, Operating
  <2>2. CASE Running(log)
    <3>1. ~Fresh'
      BY <1>1, <2>1, <2>2, EndsAreNoticed DEF Fresh
    <3> QED BY <3>1 DEF VerdictsAreRenewed
  <2>3. CASE ~Running(log)
    <3>1. active' = active
      BY <1>0, <1>1, <2>3, Operated
    <3>2. Fresh' => Fresh
      BY <1>1, <2>1, <2>3, AnswersAreNoticed DEF Fresh
    <3> QED BY <2>1, <3>1, <3>2 DEF VerdictsAreRenewed
  <2> QED BY <2>2, <2>3
<1>2. CASE Harm
  <2>1. engine'.missed = engine.known /\ engine'.known = engine.known
    BY <1>0, <1>2, Harming
  <2> QED BY <2>1 DEF VerdictsAreRenewed, Fresh
<1>3. CASE Restart
  <2>1. engine'.known = FALSE
    BY <1>0, <1>3, Restarting
  <2> QED BY <2>1 DEF VerdictsAreRenewed, Fresh
<1>4. CASE ProbeEngine
  <2>1. PICK ok \in PaddleImports : engine' = [known |-> TRUE, ok |-> ok, missed |-> FALSE]
    BY <1>4 DEF ProbeEngine
  <2>2. engine'.ok = ok /\ active' = active
    BY <1>4, <2>1 DEF ProbeEngine, vars
  <2> QED BY <2>2 DEF VerdictsAreRenewed, PaddleImports
<1>5. CASE Refresh
  BY <1>5 DEF Refresh, NoVerdict, VerdictsAreRenewed, Fresh
<1>6. CASE \/ Drain
           \/ \E k \in Stamps : Expire(k)
           \/ \E q \in Pollers : Reads(q)
           \/ UNCHANGED StatusVars
  <2>1. UNCHANGED <<active, log, w, engine, refresh>>
    BY <1>0, <1>6, Reading DEF Drain, Expire, vars, StatusVars, telling
  <2> QED BY <2>1 DEF VerdictsAreRenewed, Fresh, Running, Unanswered
<1> QED BY <1>1, <1>2, <1>3, <1>4, <1>5, <1>6, StatusKinds

\* Between the operations of a service that is alone at its runtime, jobs are
\* admitted by the verdict of the runtime in its place (the engine resolver's
\* cache, refreshed by every success whose receipt was built), unless something
\* failed or did harm since it was taken.
THEOREM JobsMeetTheirRuntime ==
  ASSUME Procs = {Supervisor}
  PROVE  StatusSpec => []VerdictsAreRenewed
<1>1. StatusInit => AskedFor /\ VerdictsAreRenewed
  BY Names DEF StatusInit, Init, Idle, NoVerdict, AskedFor, VerdictsAreRenewed, Fresh
<1>2. StatusInv /\ AskedFor /\ VerdictsAreRenewed /\ [StatusNext]_StatusVars
        => AskedFor' /\ VerdictsAreRenewed'
  BY AskedForStep, VerdictsAreRenewedStep
<1> QED BY <1>1, <1>2, StatusInvariance, PTL DEF StatusSpec, StatusVars

-----------------------------------------------------------------------------
(* The journal of one operation.                                             *)

LEMMA JournalConstants ==
  MaxEvents \in Nat \ {0} /\ Keep \in Nat \ {0} /\ Limit \in Nat \ {0}
BY JournalAssumption

\* Where the lines are numbered, the last one tells how many there are.
LEMMA JournalLength ==
  ASSUME JournalTypeOK, Numbered
  PROVE  /\ Len(lines) \in Nat /\ Oldest \in Nat /\ LastSeq \in Nat
         /\ LastSeq = Oldest + Len(lines) - 1
         /\ LastSeq <= MaxEvents
         /\ \A i \in 1 .. Len(lines) : lines[i] \in Event /\ lines[i].seq = Oldest + i - 1
         /\ lines # <<>> => Len(lines) \in 1 .. Len(lines) /\ LastState = lines[Len(lines)].state
         /\ LastState \in States \cup {"none"} /\ (LastState = "none" <=> lines = <<>>)
<1>1. lines \in Seq(Event) /\ Len(lines) \in Nat /\ DOMAIN lines = 1 .. Len(lines)
      /\ (lines = <<>> <=> Len(lines) = 0) /\ MaxEvents \in Nat
  BY JournalAssumption DEF JournalTypeOK
<1>2. Oldest \in Nat
  BY JournalAssumption DEF JournalTypeOK, Oldest, Numbers
<1>3. \A i \in 1 .. Len(lines) : lines[i] \in Event /\ lines[i].seq = Oldest + i - 1
  BY <1>1 DEF Numbered
<1>4. CASE lines = <<>>
  BY <1>1, <1>2, <1>3, <1>4 DEF LastSeq, LastState, Numbered
<1>5. CASE lines # <<>>
  <2>1. Len(lines) \in 1 .. Len(lines)
    BY <1>1, <1>5
  <2>2. lines[Len(lines)] \in Event /\ LastSeq = lines[Len(lines)].seq
        /\ LastState = lines[Len(lines)].state
    BY <1>3, <1>5, <2>1 DEF LastSeq, LastState
  <2>3. LastSeq \in 1 .. MaxEvents /\ LastState \in States /\ LastState # "none"
    BY <2>2 DEF Event, States, EndStates
  <2> QED BY <1>1, <1>2, <1>3, <1>5, <2>1, <2>2, <2>3
<1> QED BY <1>4, <1>5

\* The lines after a number are the rest of the journal.
LEMMA BeyondIs ==
  ASSUME JournalTypeOK, Numbered, NEW n \in Nat, Oldest - 1 <= n, n <= LastSeq
  PROVE  Beyond(n) = SubSeq(lines, n - Oldest + 2, Len(lines))
<1> DEFINE First(i) == /\ \A j \in 1 .. i - 1 : lines[j].seq <= n
                       /\ \A j \in i .. Len(lines) : lines[j].seq > n
           k == n - Oldest + 2
           c == CHOOSE i \in 1 .. Len(lines) + 1 : First(i)
<1>0. /\ Len(lines) \in Nat /\ Oldest \in Nat /\ LastSeq = Oldest + Len(lines) - 1
      /\ \A i \in 1 .. Len(lines) : lines[i].seq = Oldest + i - 1
  BY JournalLength
<1>1. k \in 1 .. Len(lines) + 1
  BY <1>0
<1>2. First(k)
  <2>1. \A j \in 1 .. k - 1 : j \in 1 .. Len(lines) /\ Oldest + j - 1 <= n
    BY <1>0, <1>1
  <2>2. \A j \in k .. Len(lines) : j \in 1 .. Len(lines) /\ Oldest + j - 1 > n
    BY <1>0, <1>1
  <2> QED BY <1>0, <2>1, <2>2
<1>3. c \in 1 .. Len(lines) + 1 /\ First(c)
  BY <1>1, <1>2
<1>4. c = k
  <2>1. CASE c < k
    <3>1. c \in c .. Len(lines) /\ c \in 1 .. k - 1
      BY <1>0, <1>1, <1>3, <2>1
    <3> QED BY <1>0, <1>2, <1>3, <3>1, SMTT(30)
  <2>2. CASE k < c
    <3>1. k \in k .. Len(lines) /\ k \in 1 .. c - 1
      BY <1>0, <1>1, <1>3, <2>2
    <3> QED BY <1>0, <1>2, <1>3, <3>1, SMTT(30)
  <2> QED BY <1>0, <1>1, <1>3, <2>1, <2>2, SMTT(30)
<1> QED BY <1>4 DEF Beyond

\* A call finds the directory reconciled.
LEMMA ReconciledIs ==
  ASSUME JournalTypeOK, Numbered, MetaLags, Reconciled
  PROVE  /\ hold.step = "free" /\ meta.made /\ ~torn /\ meta.pending = NoCompaction
         /\ meta.through = LastSeq /\ meta.last = LastState /\ Oldest = meta.oldest
         /\ (CancelTold <=> meta.cancel) /\ LastSeq \in Numbers
<1>1. /\ hold.step = "free" /\ meta.made /\ ~torn /\ meta.pending = NoCompaction
      /\ meta.through = LastSeq /\ meta.last = LastState /\ Oldest = meta.oldest
  BY DEF Reconciled, Free, MetaLags, Oldest
<1>2. \A i \in DOMAIN lines : lines[i].seq <= LastSeq
  <2>1. DOMAIN lines = 1 .. Len(lines)
    BY DEF JournalTypeOK
  <2> QED BY <2>1, JournalLength
<1>3. CancelTold <=> meta.cancel
  BY <1>1, <1>2 DEF CancelTold, MetaLags
<1> QED BY <1>1, <1>3, JournalLength, JournalConstants DEF Numbers

MetaType == [made : BOOLEAN, through : Numbers, last : States \cup {"none"},
             closed : BOOLEAN, cancel : BOOLEAN, oldest : Numbers \ {0},
             pending : [oldest : Numbers, before : Seq(Event), after : Seq(Event)]]
HoldType == [step : {"free"}] \cup [step : {"swap", "close"}]
       \cup [step : {"line", "projection"}, who : {"reporter", "canceller"}, event : Event]
RepType == [pc : {"off", "idle", "publish", "done"}, seq : Numbers, closed : BOOLEAN,
            next : [state : States \cup {"none"}, closed : BOOLEAN]]

\* The records that the actions make are typed.
LEMMA TypedEvents ==
  /\ Opening \in [state : States, closed : BOOLEAN]
  /\ \A m \in Numbers, next \in [state : States, closed : BOOLEAN] :
       m + 1 <= MaxEvents => Told(m + 1, next) \in Event
  /\ Silent \in RepType /\ NoMeta \in MetaType /\ Free \in HoldType
  /\ NoCompaction \in [oldest : Numbers, before : Seq(Event), after : Seq(Event)]
  /\ <<>> \in Seq(Event)
<1>1. <<>> \in Seq(Event)
  OBVIOUS
<1>2. 0 \in Numbers /\ 1 \in Numbers \ {0}
  BY JournalConstants DEF Numbers
<1> QED BY <1>1, <1>2 DEF Opening, Told, Event, States, EndStates, Silent, NoMeta, NoCompaction, Free,
           Numbers, RepType, MetaType, HoldType

\* What the events read do to the metadata: those of the holder's line and those of
\* the tail of the journal.
LEMMA ProjectedIs ==
  ASSUME JournalTypeOK, NEW evs \in Seq(Event), evs # <<>>
  PROVE  /\ Projected(meta, evs).through = evs[Len(evs)].seq
         /\ Projected(meta, evs).last = evs[Len(evs)].state
         /\ (Projected(meta, evs).cancel <=> meta.cancel \/ \E i \in DOMAIN evs : evs[i].cancel)
         /\ Projected(meta, evs).made = meta.made
         /\ Projected(meta, evs).oldest = meta.oldest
         /\ Projected(meta, evs).pending = meta.pending
         /\ Projected(meta, evs) \in MetaType
<1>1. Len(evs) \in DOMAIN evs /\ evs[Len(evs)] \in Event
  OBVIOUS
<1>2. PICK c \in BOOLEAN : c <=> meta.cancel \/ \E i \in DOMAIN evs : evs[i].cancel
  OBVIOUS
<1>3. Projected(meta, evs) =
        [meta EXCEPT !.through = evs[Len(evs)].seq, !.last = evs[Len(evs)].state,
                     !.closed = evs[Len(evs)].closed, !.cancel = c]
  <2>1. meta.cancel \in BOOLEAN
    BY DEF JournalTypeOK
  <2>2. (meta.cancel \/ \E i \in DOMAIN evs : evs[i].cancel) = c
    BY <1>2, <2>1
  <2> QED BY <2>2 DEF Projected
<1>4. /\ evs[Len(evs)].seq \in Numbers /\ evs[Len(evs)].state \in States
      /\ evs[Len(evs)].closed \in BOOLEAN
  BY <1>1 DEF Event, Numbers
<1> QED BY <1>2, <1>3, <1>4 DEF JournalTypeOK, MetaType

LEMMA SuffixIs ==
  ASSUME NEW S, NEW s \in Seq(S), NEW k \in 1 .. Len(s) + 1
  PROVE  /\ SubSeq(s, k, Len(s)) \in Seq(S) /\ Len(SubSeq(s, k, Len(s))) = Len(s) - k + 1
         /\ \A i \in 1 .. Len(s) - k + 1 :
              k + i - 1 \in 1 .. Len(s) /\ SubSeq(s, k, Len(s))[i] = s[k + i - 1]
<1>1. Len(s) \in Nat /\ \A i \in k .. Len(s) : s[i] \in S
  OBVIOUS
<1>2. SubSeq(s, k, Len(s)) \in Seq(S)
  BY <1>1
<1>3. Len(SubSeq(s, k, Len(s))) = Len(s) - k + 1
  BY <1>1
<1>4. ASSUME NEW i \in 1 .. Len(s) - k + 1
      PROVE  k + i - 1 \in 1 .. Len(s) /\ SubSeq(s, k, Len(s))[i] = s[k + i - 1]
  BY <1>1
<1> QED BY <1>2, <1>3, <1>4

LEMMA TailIs ==
  ASSUME JournalTypeOK, Numbered, NEW n \in Nat, Oldest - 1 <= n, n <= LastSeq
  PROVE  /\ Beyond(n) \in Seq(Event) /\ Len(Beyond(n)) = LastSeq - n
         /\ \A i \in 1 .. LastSeq - n :
              /\ n - Oldest + 1 + i \in 1 .. Len(lines)
              /\ Beyond(n)[i] = lines[n - Oldest + 1 + i] /\ Beyond(n)[i].seq = n + i
<1> DEFINE k == n - Oldest + 2
<1>0. /\ Len(lines) \in Nat /\ Oldest \in Nat /\ LastSeq = Oldest + Len(lines) - 1
      /\ \A i \in 1 .. Len(lines) : lines[i].seq = Oldest + i - 1
      /\ lines \in Seq(Event)
  BY JournalLength DEF JournalTypeOK
<1>1. k \in 1 .. Len(lines) + 1 /\ LastSeq - n = Len(lines) - k + 1
  BY <1>0
<1>2. Beyond(n) = SubSeq(lines, k, Len(lines))
  BY BeyondIs
<1>3. /\ SubSeq(lines, k, Len(lines)) \in Seq(Event)
      /\ Len(SubSeq(lines, k, Len(lines))) = Len(lines) - k + 1
      /\ \A i \in 1 .. Len(lines) - k + 1 : SubSeq(lines, k, Len(lines))[i] = lines[k + i - 1]
  BY <1>0, <1>1, SuffixIs
<1>4. ASSUME NEW i \in 1 .. LastSeq - n
      PROVE  /\ n - Oldest + 1 + i \in 1 .. Len(lines)
             /\ Beyond(n)[i] = lines[n - Oldest + 1 + i] /\ Beyond(n)[i].seq = n + i
  <2>1. i \in 1 .. Len(lines) - k + 1 /\ k + i - 1 = n - Oldest + 1 + i
        /\ k + i - 1 \in 1 .. Len(lines) /\ Oldest + (k + i - 1) - 1 = n + i
    <3>1. i \in 1 .. Len(lines) - k + 1 /\ k \in 1 .. Len(lines) + 1
      BY <1>1
    <3>2. k + i - 1 = n - Oldest + 1 + i /\ Oldest + (k + i - 1) - 1 = n + i
      BY <1>0, <3>1
    <3> HIDE DEF k
    <3>3. k + i - 1 \in 1 .. Len(lines)
      BY <1>0, <3>1, SMTT(30)
    <3> QED BY <3>1, <3>2, <3>3
  <2>2. lines[k + i - 1].seq = n + i
    BY <1>0, <2>1
  <2> QED BY <1>2, <1>3, <2>1, <2>2
<1> QED BY <1>1, <1>2, <1>3, <1>4

\* The events that the metadata lacks.
LEMMA ToProject ==
  ASSUME JournalTypeOK, Numbered, MetaLags, ProjectTail
  PROVE  /\ Beyond(meta.through) \in Seq(Event) /\ Beyond(meta.through) # <<>>
         /\ Len(Beyond(meta.through)) = LastSeq - meta.through
         /\ Beyond(meta.through)[Len(Beyond(meta.through))] = lines[Len(lines)]
         /\ \A i \in 1 .. Len(Beyond(meta.through)) :
              /\ meta.through - Oldest + 1 + i \in 1 .. Len(lines)
              /\ Beyond(meta.through)[i] = lines[meta.through - Oldest + 1 + i]
         /\ lines # <<>>
<1>1. meta.through \in Nat /\ Oldest - 1 <= meta.through /\ meta.through < LastSeq
  BY JournalLength DEF ProjectTail, MetaLags, JournalTypeOK, Numbers
<1>2. /\ Beyond(meta.through) \in Seq(Event)
      /\ Len(Beyond(meta.through)) = LastSeq - meta.through
      /\ \A i \in 1 .. LastSeq - meta.through :
           /\ meta.through - Oldest + 1 + i \in 1 .. Len(lines)
           /\ Beyond(meta.through)[i] = lines[meta.through - Oldest + 1 + i]
  <2> DEFINE n == meta.through
  <2>1. n \in Nat /\ Oldest - 1 <= n /\ n <= LastSeq
    BY <1>1, JournalLength
  <2> HIDE DEF n
  <2>2. /\ Beyond(n) \in Seq(Event) /\ Len(Beyond(n)) = LastSeq - n
        /\ \A i \in 1 .. LastSeq - n :
             /\ n - Oldest + 1 + i \in 1 .. Len(lines)
             /\ Beyond(n)[i] = lines[n - Oldest + 1 + i]
    BY <2>1, TailIs
  <2> QED BY <2>2 DEF n
<1>3. /\ LastSeq - meta.through \in 1 .. LastSeq - meta.through
      /\ meta.through - Oldest + 1 + (LastSeq - meta.through) = Len(lines)
      /\ Len(lines) # 0
  <2>1. /\ Oldest \in Nat /\ Len(lines) \in Nat /\ LastSeq = Oldest + Len(lines) - 1
    BY JournalLength
  <2> QED BY <1>1, <2>1, SMTT(30)
<1> QED BY <1>2, <1>3 DEF JournalTypeOK

\* What compact keeps.
LEMMA KeptIs ==
  ASSUME JournalTypeOK, Numbered, MetaLags, CompactBegin
  PROVE  /\ lines # <<>>
         /\ \E k \in 1 .. Len(lines) :
              /\ meta' = [meta EXCEPT !.pending = [oldest |-> meta.oldest + k - 1, before |-> lines,
                                                   after |-> SubSeq(lines, k, Len(lines))]]
              /\ meta.oldest + k - 1 \in Numbers /\ SubSeq(lines, k, Len(lines)) \in Seq(Event)
<1> DEFINE k == IF Len(lines) > Keep THEN Len(lines) - Keep + 1 ELSE 1
<1>1. Reconciled /\ meta.last \in EndStates
  BY DEF CompactBegin
<1>2. lines # <<>> /\ lines \in Seq(Event) /\ Len(lines) \in Nat \ {0} /\ Oldest = meta.oldest
  BY <1>1, ReconciledIs, JournalLength DEF EndStates, JournalTypeOK
<1>3. k \in 1 .. Len(lines)
  BY <1>2, JournalConstants
<1>4. SubSeq(lines, k, Len(lines)) \in Seq(Event) /\ SubSeq(lines, k, Len(lines))[1] = lines[k]
  BY <1>2, <1>3
<1>5. lines[k].seq = meta.oldest + k - 1 /\ meta.oldest + k - 1 \in Numbers
  <2>1. lines[k].seq = Oldest + k - 1 /\ lines[k].seq \in 1 .. MaxEvents
    BY <1>3, JournalLength DEF Event
  <2> QED BY <1>2, <2>1, JournalConstants DEF Numbers
<1>6. meta' = [meta EXCEPT !.pending = [oldest |-> SubSeq(lines, k, Len(lines))[1].seq,
                     before |-> lines, after |-> SubSeq(lines, k, Len(lines))]]
  BY DEF CompactBegin
<1> HIDE DEF k
<1> QED BY <1>2, <1>3, <1>4, <1>5, <1>6

\* What observe gives a client whose cursor has not expired.
LEMMA PageIs ==
  ASSUME JournalTypeOK, Numbered, MetaLags, cursor <= LastSeq, Observe,
         ~(cursor < meta.oldest - 1)
  PROVE  \E n \in Nat :
           /\ n <= LastSeq - cursor /\ cursor' = cursor + n
           /\ page' = [after |-> cursor, events |-> SubSeq(Beyond(cursor), 1, n)]
           /\ SubSeq(Beyond(cursor), 1, n) \in Seq(Event)
           /\ Len(SubSeq(Beyond(cursor), 1, n)) = n
           /\ \A i \in 1 .. n : SubSeq(Beyond(cursor), 1, n)[i].seq = cursor + i
<1> DEFINE retained == Beyond(cursor)
           n == IF Len(retained) > Limit THEN Limit ELSE Len(retained)
<1>1. Reconciled /\ Oldest = meta.oldest /\ cursor \in Nat /\ Oldest \in Nat /\ LastSeq \in Nat
  BY ReconciledIs, JournalLength DEF Observe, JournalTypeOK, Numbers
<1>2. /\ retained \in Seq(Event) /\ Len(retained) = LastSeq - cursor
      /\ \A i \in 1 .. LastSeq - cursor : retained[i].seq = cursor + i
  BY <1>1, TailIs
<1>3. n \in Nat /\ n <= LastSeq - cursor
  BY <1>1, <1>2, JournalConstants
<1>4. cursor' = cursor + n /\ page' = [after |-> cursor, events |-> SubSeq(retained, 1, n)]
  BY DEF Observe
<1>5. /\ SubSeq(retained, 1, n) \in Seq(Event) /\ Len(SubSeq(retained, 1, n)) = n
      /\ \A i \in 1 .. n : SubSeq(retained, 1, n)[i] = retained[i]
  <2> HIDE DEF n, retained
  <2> QED BY <1>1, <1>2, <1>3
<1>6. \A i \in 1 .. n : i \in 1 .. LastSeq - cursor
  BY <1>1, <1>2, <1>3
<1> HIDE DEF n
<1> QED BY <1>2, <1>3, <1>4, <1>5, <1>6

LEMMA JournalTypeIs ==
  JournalTypeOK <=>
    /\ meta \in MetaType /\ lines \in Seq(Event) /\ torn \in BOOLEAN
    /\ hold \in HoldType /\ rep \in RepType
    /\ cursor \in Numbers /\ page \in [after : Numbers, events : Seq(Event)]
BY DEF JournalTypeOK, MetaType, HoldType, RepType

\* The steps of a call that holds the lock for a line.
LEMMA LineTyped ==
  ASSUME JournalTypeOK, NEW who \in {"reporter", "canceller"}, NEW e, Line(who, e),
         e.seq \in Nat \ {0} => e \in Event
  PROVE  /\ hold' \in HoldType /\ hold'.step = "line" /\ hold'.who = who /\ hold'.event = e
         /\ e.seq = meta.through + 1 /\ meta.last \notin EndStates /\ e.seq <= MaxEvents
<1>1. e.seq \in Nat \ {0}
  BY DEF Line, JournalTypeOK, Numbers
<1> QED BY <1>1 DEF Line, HoldType

LEMMA JournalTypeStep ==
  ASSUME JournalTypeOK, Numbered, MetaLags, Announced, Held, Reported, cursor <= LastSeq,
         [JournalNext]_journal
  PROVE  JournalTypeOK'
<1>0. /\ meta \in MetaType /\ lines \in Seq(Event) /\ torn \in BOOLEAN
      /\ hold \in HoldType /\ rep \in RepType
      /\ cursor \in Numbers /\ page \in [after : Numbers, events : Seq(Event)]
  BY JournalTypeIs
<1> SUFFICES /\ meta' \in MetaType /\ lines' \in Seq(Event) /\ torn' \in BOOLEAN
             /\ hold' \in HoldType /\ rep' \in RepType
             /\ cursor' \in Numbers /\ page' \in [after : Numbers, events : Seq(Event)]
  BY DEF JournalTypeOK, MetaType, HoldType, RepType
<1>1. CASE UNCHANGED journal
  BY <1>0, <1>1 DEF journal
<1>2. CASE ResolveCompaction
  <2>1. PICK n : /\ n = IF lines = meta.pending.after THEN meta.pending.oldest ELSE meta.oldest
                 /\ meta' = [meta EXCEPT !.pending = NoCompaction, !.oldest = n]
    BY <1>2 DEF ResolveCompaction
  <2>2. meta.oldest \in Numbers \ {0} /\ (lines = meta.pending.after => meta.pending.oldest \in Numbers \ {0})
    <3>1. meta.pending.oldest \in Numbers /\ meta.oldest \in Numbers \ {0}
      BY <1>0 DEF MetaType
    <3>2. PICK k \in DOMAIN meta.pending.before : meta.pending.oldest = meta.oldest + k - 1
      BY <1>2 DEF Announced, ResolveCompaction
    <3>3. k \in Nat \ {0}
      BY <1>0, <3>2 DEF MetaType
    <3>4. meta.pending.oldest # 0
      BY <3>1, <3>2, <3>3 DEF Numbers
    <3> QED BY <3>1, <3>4
  <2>3. n \in Numbers \ {0} /\ NoCompaction \in [oldest : Numbers, before : Seq(Event), after : Seq(Event)]
    BY <2>1, <2>2, TypedEvents
  <2>4. meta' \in MetaType
    BY <1>0, <2>1, <2>3 DEF MetaType
  <2> QED BY <1>0, <1>2, <2>4 DEF ResolveCompaction
<1>3. CASE TruncateTorn
  BY <1>0, <1>3 DEF TruncateTorn
<1>4. CASE ProjectTail
  <2>1. Beyond(meta.through) \in Seq(Event) /\ Beyond(meta.through) # <<>>
    BY <1>4, ToProject
  <2>2. meta' \in MetaType
    BY <1>4, <2>1, ProjectedIs DEF ProjectTail, MetaType
  <2> QED BY <1>0, <1>4, <2>2 DEF ProjectTail
<1>5. CASE StartNew
  <2>1. Told(1, Opening) \in Event
    <3>1. 0 \in Numbers /\ 0 + 1 <= MaxEvents /\ 0 + 1 = 1
      BY JournalConstants DEF Numbers
    <3> QED BY <3>1, TypedEvents
  <2>2. hold' \in HoldType
    BY <1>5, <2>1 DEF StartNew, HoldType
  <2>3. meta' \in MetaType
    BY <1>5, TypedEvents DEF StartNew, MetaType
  <2>4. rep' \in RepType
    BY <1>5, TypedEvents DEF StartNew, RepType
  <2> QED BY <1>0, <1>5, <2>2, <2>3, <2>4 DEF StartNew
<1>6. CASE StartReserved
  <2>1. Told(1, Opening) \in Event
    <3>1. 0 \in Numbers /\ 0 + 1 <= MaxEvents /\ 0 + 1 = 1
      BY JournalConstants DEF Numbers
    <3> QED BY <3>1, TypedEvents
  <2>2. hold' \in HoldType
    BY <1>6, <2>1, LineTyped DEF StartReserved
  <2>3. rep' \in RepType
    BY <1>6, TypedEvents DEF StartReserved, RepType
  <2> QED BY <1>0, <1>6, <2>2, <2>3 DEF StartReserved
<1>7. CASE Publish
  <2>1. hold' \in HoldType
    <3>1. rep.seq \in Numbers /\ rep.next \in [state : States, closed : BOOLEAN]
      BY <1>0, <1>7 DEF Publish, RepType, Reported
    <3>2. Told(rep.seq + 1, rep.next).seq = rep.seq + 1
      BY DEF Told
    <3>3. rep.seq + 1 <= MaxEvents
      BY <1>7, <3>2 DEF Publish, Line
    <3>4. Told(rep.seq + 1, rep.next) \in Event
      BY <3>1, <3>3, TypedEvents
    <3> QED BY <1>7, <3>4, LineTyped DEF Publish
  <2> QED BY <1>0, <1>7, <2>1 DEF Publish
<1>8. CASE PublishRefused
  BY <1>0, <1>8 DEF PublishRefused, RepType, MetaType, States, EndStates
<1>9. CASE PublishFails
  BY <1>0, <1>9 DEF PublishFails, RepType, States, EndStates
<1>10. CASE \E s \in {"running", "succeeded", "failed"} : Look(s)
  <2>1. PICK s \in {"running", "succeeded", "failed"} : Look(s)
    BY <1>10
  <2>2. /\ s \in States /\ rep.closed \in BOOLEAN /\ meta.closed \in BOOLEAN
        /\ meta.through \in Numbers /\ "cancelled" \in States
    BY <1>0 DEF RepType, MetaType, States, EndStates
  <2>3. PICK closed \in BOOLEAN :
          rep' = IF meta.cancel /\ s # "failed"
                 THEN [rep EXCEPT !.pc = "publish", !.seq = meta.through,
                                  !.next = [state |-> "cancelled", closed |-> meta.closed]]
                 ELSE [rep EXCEPT !.pc = "publish",
                                  !.next = [state |-> s, closed |-> closed]]
    BY <2>1, <2>2 DEF Look
  <2>4. rep' \in RepType
    BY <1>0, <2>2, <2>3 DEF RepType
  <2> QED BY <1>0, <2>1, <2>4 DEF Look
<1>11. CASE RequestCancel
  <2>1. hold' \in HoldType
    <3> DEFINE e == [seq |-> meta.through + 1, state |-> meta.last,
                     cancel |-> TRUE, closed |-> meta.closed]
    <3>1. Line("canceller", e)
      BY <1>11 DEF RequestCancel
    <3>2. e.seq = meta.through + 1 /\ e.seq <= MaxEvents /\ e.seq \in Nat \ {0}
      BY <1>0, <3>1, JournalConstants DEF Line, MetaType, Numbers
    <3>3. meta.last \in States /\ meta.closed \in BOOLEAN
      BY <1>0, <1>11 DEF RequestCancel, MetaType
    <3>4. e \in Event
      BY <3>2, <3>3, JournalConstants DEF Event
    <3> QED BY <3>1, <3>4, LineTyped
  <2> QED BY <1>0, <1>11, <2>1 DEF RequestCancel
<1>12. CASE WriteLine
  <2>1. /\ hold.step = "line" /\ hold \in [step : {"line", "projection"},
             who : {"reporter", "canceller"}, event : Event]
    BY <1>0, <1>12 DEF WriteLine, HoldType
  <2>2. hold' \in HoldType /\ lines' \in Seq(Event)
    BY <1>0, <1>12, <2>1, SMTT(30) DEF WriteLine, HoldType
  <2> QED BY <1>0, <1>12, <2>2 DEF WriteLine
<1>13. CASE WriteProjection
  <2>1. /\ hold.step = "projection" /\ hold \in [step : {"line", "projection"},
             who : {"reporter", "canceller"}, event : Event]
    BY <1>0, <1>13 DEF WriteProjection, HoldType
  <2>2. <<hold.event>> \in Seq(Event) /\ <<hold.event>> # <<>>
    BY <2>1
  <2>3. meta' \in MetaType
    BY <1>0, <1>13, <2>2, ProjectedIs DEF WriteProjection
  <2>4. hold.event.seq \in Numbers /\ hold.event.closed \in BOOLEAN
    BY <2>1 DEF Event, Numbers
  <2>5. \A written \in BOOLEAN : Adopt(written) \in RepType
    BY <1>0, <2>4 DEF Adopt, RepType, States, EndStates
  <2>6. hold' \in HoldType
    BY <1>13 DEF WriteProjection, HoldType, Free
  <2> QED BY <1>0, <1>13, <2>3, <2>5, <2>6 DEF WriteProjection
<1>14. CASE CompactBegin
  <2>1. PICK k \in 1 .. Len(lines) :
          /\ meta' = [meta EXCEPT !.pending = [oldest |-> meta.oldest + k - 1, before |-> lines,
                                               after |-> SubSeq(lines, k, Len(lines))]]
          /\ meta.oldest + k - 1 \in Numbers /\ SubSeq(lines, k, Len(lines)) \in Seq(Event)
    BY <1>14, KeptIs
  <2>2. meta' \in MetaType
    BY <1>0, <2>1 DEF MetaType
  <2>3. hold' \in HoldType
    BY <1>14 DEF CompactBegin, HoldType
  <2> QED BY <1>0, <1>14, <2>2, <2>3 DEF CompactBegin
<1>15. CASE CompactSwap
  BY <1>0, <1>15 DEF CompactSwap, MetaType, HoldType
<1>16. CASE CompactEnd
  <2>1. meta.pending.oldest \in Numbers \ {0}
    <3>1. PICK k \in DOMAIN meta.pending.before : meta.pending.oldest = meta.oldest + k - 1
      BY <1>16 DEF Announced, CompactEnd, Held
    <3>2. k \in Nat \ {0}
      BY <1>0, <3>1 DEF MetaType
    <3> QED BY <1>0, <3>1, <3>2 DEF MetaType, Numbers
  <2>2. meta' \in MetaType
    BY <1>0, <1>16, <2>1, TypedEvents DEF CompactEnd, MetaType
  <2> QED BY <1>0, <1>16, <2>2 DEF CompactEnd, HoldType, Free
<1>17. CASE Observe
  <2>1. CASE cursor < meta.oldest - 1
    <3>1. meta.oldest - 1 \in Numbers
      BY <1>0, JournalConstants DEF MetaType, Numbers
    <3> QED BY <1>0, <1>17, <2>1, <3>1 DEF Observe
  <2>2. CASE ~(cursor < meta.oldest - 1)
    <3>1. PICK n \in Nat :
            /\ n <= LastSeq - cursor /\ cursor' = cursor + n
            /\ page' = [after |-> cursor, events |-> SubSeq(Beyond(cursor), 1, n)]
            /\ SubSeq(Beyond(cursor), 1, n) \in Seq(Event)
      BY <1>17, <2>2, PageIs
    <3>2. cursor' \in Numbers
      BY <1>0, <3>1, JournalLength, JournalConstants DEF Numbers
    <3> QED BY <1>0, <1>17, <3>1, <3>2 DEF Observe
  <2> QED BY <2>1, <2>2
<1>18. CASE Crash
  BY <1>0, <1>18, TypedEvents DEF Crash, RepType, HoldType
<1> QED BY <1>1, <1>2, <1>3, <1>4, <1>5, <1>6, <1>7, <1>8, <1>9, <1>10, <1>11, <1>12, <1>13,
          <1>14, <1>15, <1>16, <1>17, <1>18 DEF JournalNext

-----------------------------------------------------------------------------
(* What each step does to the log that reconciling the directory would make. *)

SameView == /\ lines' = lines /\ LastSeq' = LastSeq /\ LastState' = LastState
            /\ (CancelTold' <=> CancelTold) /\ Oldest' = Oldest

\* A step that writes neither file.
FilesStay == UNCHANGED <<meta, lines>>

\* A step that writes the metadata.
MetaWrite == \/ ResolveCompaction \/ ProjectTail \/ StartNew \/ WriteProjection
             \/ CompactBegin \/ CompactEnd

LEMMA FilesStayView == FilesStay => SameView
BY DEF FilesStay, SameView, LastSeq, LastState, CancelTold, Oldest

LEMMA JournalKinds ==
  [JournalNext]_journal => FilesStay \/ MetaWrite \/ WriteLine \/ CompactSwap
BY DEF JournalNext, journal, FilesStay, MetaWrite, TruncateTorn, StartReserved, Publish,
       PublishRefused, PublishFails, Look, RequestCancel, Observe, Crash

LEMMA MetaWriteView ==
  ASSUME JournalTypeOK, Numbered, MetaLags, Announced, Held, MetaWrite
  PROVE  SameView
<1>1. lines' = lines /\ LastSeq' = LastSeq /\ LastState' = LastState
  BY DEF MetaWrite, ResolveCompaction, ProjectTail, StartNew, WriteProjection,
         CompactBegin, CompactEnd, LastSeq, LastState
<1>2. (CancelTold' <=> CancelTold) /\ Oldest' = Oldest
  <2>1. CASE ResolveCompaction
    <3>1. meta' = [meta EXCEPT !.pending = NoCompaction,
                               !.oldest = IF lines = meta.pending.after
                                          THEN meta.pending.oldest ELSE @]
      BY <2>1 DEF ResolveCompaction
    <3>2. /\ meta'.cancel = meta.cancel /\ meta'.pending = NoCompaction
          /\ meta'.oldest = IF lines = meta.pending.after
                            THEN meta.pending.oldest ELSE meta.oldest
      BY <3>1 DEF JournalTypeOK
    <3> QED BY <1>1, <2>1, <3>2 DEF CancelTold, Oldest, ResolveCompaction
  <2>2. CASE ProjectTail
    <3> DEFINE unread == Beyond(meta.through)
    <3>1. /\ unread \in Seq(Event) /\ unread # <<>>
          /\ \A i \in 1 .. Len(unread) :
               /\ meta.through - Oldest + 1 + i \in 1 .. Len(lines)
               /\ unread[i] = lines[meta.through - Oldest + 1 + i]
      BY <2>2, ToProject
    <3>2. meta' = Projected(meta, unread)
      BY <2>2 DEF ProjectTail
    <3> HIDE DEF unread
    <3>3. /\ meta'.oldest = meta.oldest /\ meta'.pending = meta.pending
          /\ (meta'.cancel <=> meta.cancel \/ \E i \in DOMAIN unread : unread[i].cancel)
      BY <3>1, <3>2, ProjectedIs
    <3>4. DOMAIN unread = 1 .. Len(unread) /\ DOMAIN lines = 1 .. Len(lines)
      BY <3>1 DEF JournalTypeOK
    <3>5. (\E i \in DOMAIN unread : unread[i].cancel) => \E i \in DOMAIN lines : lines[i].cancel
      BY <3>1, <3>4
    <3> QED BY <1>1, <3>3, <3>5 DEF CancelTold, Oldest
  <2>3. CASE StartNew
    <3>1. meta = NoMeta /\ meta' = [NoMeta EXCEPT !.made = TRUE]
      BY <2>3 DEF StartNew, Numbered
    <3>2. /\ meta'.cancel = meta.cancel /\ meta'.pending = meta.pending
          /\ meta'.oldest = meta.oldest
      BY <3>1 DEF NoMeta
    <3> QED BY <1>1, <3>2 DEF CancelTold, Oldest
  <2>4. CASE WriteProjection
    <3>1. /\ hold.step = "projection" /\ hold.event \in Event
          /\ lines # <<>> /\ lines[Len(lines)] = hold.event
      BY <2>4 DEF WriteProjection, Held, JournalTypeOK
    <3>2. CASE meta' = meta
      BY <1>1, <3>2 DEF CancelTold, Oldest
    <3>3. CASE meta' = Projected(meta, <<hold.event>>)
      <4> DEFINE evs == <<hold.event>>
      <4>1. evs \in Seq(Event) /\ evs # <<>> /\ DOMAIN evs = {1} /\ evs[1] = hold.event
        BY <3>1
      <4>4. meta' = Projected(meta, evs)
        BY <3>3
      <4> HIDE DEF evs
      <4>2. /\ meta'.oldest = meta.oldest /\ meta'.pending = meta.pending
            /\ (meta'.cancel <=> meta.cancel \/ hold.event.cancel)
        BY <4>1, <4>4, ProjectedIs
      <4>3. Len(lines) \in DOMAIN lines
        BY <3>1 DEF JournalTypeOK
      <4> QED BY <1>1, <3>1, <4>2, <4>3 DEF CancelTold, Oldest
    <3> QED BY <2>4, <3>2, <3>3 DEF WriteProjection
  <2>5. CASE CompactBegin
    <3>1. PICK k \in 1 .. Len(lines) :
            meta' = [meta EXCEPT !.pending = [oldest |-> meta.oldest + k - 1, before |-> lines,
                                              after |-> SubSeq(lines, k, Len(lines))]]
      BY <2>5, KeptIs
    <3>2. meta.pending = NoCompaction /\ Oldest = meta.oldest /\ lines # <<>>
      BY <2>5, ReconciledIs, KeptIs DEF CompactBegin
    <3>3. /\ meta'.cancel = meta.cancel /\ meta'.oldest = meta.oldest
          /\ meta'.pending.oldest = meta.oldest + k - 1
          /\ meta'.pending.after = SubSeq(lines, k, Len(lines))
          /\ meta'.pending.before = lines
      BY <3>1 DEF JournalTypeOK
    <3>4. SubSeq(lines, k, Len(lines)) = lines => k = 1
      <4>1. Len(SubSeq(lines, k, Len(lines))) = Len(lines) - k + 1
        BY SuffixIs DEF JournalTypeOK
      <4>2. Len(lines) \in Nat
        BY DEF JournalTypeOK
      <4> QED BY <4>1, <4>2
    <3>5. k = 1 => meta.oldest + k - 1 = meta.oldest
      BY DEF JournalTypeOK, Numbers
    <3> QED BY <1>1, <3>2, <3>3, <3>4, <3>5 DEF CancelTold, Oldest
  <2>6. CASE CompactEnd
    <3>1. meta' = [meta EXCEPT !.oldest = meta.pending.oldest, !.pending = NoCompaction]
          /\ meta.pending # NoCompaction /\ lines = meta.pending.after
      BY <2>6 DEF CompactEnd, Held
    <3>2. /\ meta'.cancel = meta.cancel /\ meta'.pending = NoCompaction
          /\ meta'.oldest = meta.pending.oldest
      BY <3>1 DEF JournalTypeOK
    <3> QED BY <1>1, <3>1, <3>2 DEF CancelTold, Oldest
  <2> QED BY <2>1, <2>2, <2>3, <2>4, <2>5, <2>6 DEF MetaWrite
<1> QED BY <1>1, <1>2 DEF SameView

\* A line adds one event.
LineAdds ==
  /\ meta' = meta /\ meta.pending = NoCompaction
  /\ hold.event \in Event /\ lines' = Append(lines, hold.event) /\ hold.event.seq = LastSeq + 1
  /\ LastSeq' = LastSeq + 1 /\ LastState' = hold.event.state /\ Oldest' = Oldest
  /\ (CancelTold' <=> CancelTold \/ hold.event.cancel)
  /\ Len(lines') = Len(lines) + 1 /\ lines'[Len(lines')] = hold.event
  /\ \A i \in 1 .. Len(lines) : lines'[i] = lines[i]
  /\ lines' # <<>>

LEMMA WriteLineView ==
  ASSUME JournalTypeOK, Numbered, MetaLags, Announced, Held, WriteLine
  PROVE  LineAdds
<1>1. /\ hold.step = "line" /\ hold.event \in Event /\ hold.event.seq = LastSeq + 1
      /\ meta.pending = NoCompaction /\ meta' = meta /\ lines' = Append(lines, hold.event)
      /\ lines \in Seq(Event)
  BY DEF WriteLine, Held, JournalTypeOK
<1>2. /\ Len(lines') = Len(lines) + 1 /\ lines'[Len(lines')] = hold.event
      /\ \A i \in 1 .. Len(lines) : lines'[i] = lines[i]
      /\ lines' # <<>> /\ DOMAIN lines' = 1 .. Len(lines) + 1 /\ DOMAIN lines = 1 .. Len(lines)
  BY <1>1
<1>3. LastSeq' = LastSeq + 1 /\ LastState' = hold.event.state
  BY <1>1, <1>2 DEF LastSeq, LastState
<1>4. Oldest' = Oldest
  BY <1>1 DEF Oldest
<1>5. CancelTold' <=> CancelTold \/ hold.event.cancel
  <2>1. (\E i \in DOMAIN lines' : lines'[i].cancel)
          <=> (\E i \in DOMAIN lines : lines[i].cancel) \/ hold.event.cancel
    <3>1. Len(lines) \in Nat
      BY <1>1
    <3> QED BY <1>2, <3>1
  <2> QED BY <1>1, <2>1 DEF CancelTold
<1> QED BY <1>1, <1>2, <1>3, <1>4, <1>5 DEF LineAdds

\* A compaction forgets the oldest events.
SwapForgets ==
  /\ meta' = meta /\ meta.pending # NoCompaction /\ meta.last \in EndStates
  /\ LastSeq' = LastSeq /\ LastState' = LastState /\ (CancelTold' <=> CancelTold)
  /\ Oldest' = meta.pending.oldest /\ Oldest' \in Oldest .. LastSeq /\ LastState \in EndStates
  /\ lines' = meta.pending.after /\ lines' # <<>> /\ lines' \in Seq(Event)
  /\ \A i \in 1 .. Len(lines') : \E j \in 1 .. Len(lines) :
       lines'[i] = lines[j] /\ lines'[i].seq = Oldest' + i - 1

LEMMA CompactSwapView ==
  ASSUME JournalTypeOK, Numbered, MetaLags, Announced, Held, CompactSwap
  PROVE  SwapForgets
<1>1. /\ meta' = meta /\ meta.pending # NoCompaction /\ lines' = meta.pending.after
      /\ lines = meta.pending.before /\ meta.last \in EndStates /\ meta.through = LastSeq
      /\ lines # <<>> /\ lines \in Seq(Event)
      /\ DOMAIN lines = 1 .. Len(lines)
      /\ \A i \in DOMAIN lines : lines[i].seq = meta.oldest + i - 1
  BY DEF CompactSwap, Held, Announced, JournalTypeOK
<1>2. PICK k \in 1 .. Len(lines) :
        meta.pending.oldest = meta.oldest + k - 1 /\ lines' = SubSeq(lines, k, Len(lines))
  BY <1>1 DEF Announced
<1>3. /\ Len(lines) \in Nat \ {0} /\ meta.oldest \in Nat \ {0} /\ DOMAIN lines = 1 .. Len(lines)
      /\ LastSeq = meta.oldest + Len(lines) - 1
  <2>1. Len(lines) \in 1 .. Len(lines) /\ Len(lines) \in Nat \ {0} /\ meta.oldest \in Nat \ {0}
    BY <1>1, JournalConstants DEF JournalTypeOK, Numbers
  <2> QED BY <1>1, <2>1 DEF LastSeq
<1>4. /\ lines' \in Seq(Event) /\ Len(lines') = Len(lines) - k + 1
      /\ \A i \in 1 .. Len(lines') : k + i - 1 \in 1 .. Len(lines) /\ lines'[i] = lines[k + i - 1]
  <2>1. k \in 1 .. Len(lines) + 1
    BY <1>2, <1>3
  <2>2. /\ SubSeq(lines, k, Len(lines)) \in Seq(Event)
        /\ Len(SubSeq(lines, k, Len(lines))) = Len(lines) - k + 1
        /\ \A i \in 1 .. Len(lines) - k + 1 : k + i - 1 \in 1 .. Len(lines)
             /\ SubSeq(lines, k, Len(lines))[i] = lines[k + i - 1]
    BY <1>1, <2>1, SuffixIs
  <2> QED BY <1>2, <2>2
<1>5. lines' # <<>> /\ Len(lines') \in 1 .. Len(lines') /\ k + Len(lines') - 1 = Len(lines)
  BY <1>3, <1>4
<1>6. lines'[Len(lines')] = lines[Len(lines)]
  BY <1>4, <1>5
<1>7. LastSeq' = LastSeq /\ LastState' = LastState
  BY <1>1, <1>5, <1>6 DEF LastSeq, LastState
<1>8. Oldest' = meta.pending.oldest
  BY <1>1 DEF Oldest
<1>9. Oldest \in {meta.oldest, meta.pending.oldest}
  BY DEF Oldest
<1>10. Oldest' \in Oldest .. LastSeq
  BY <1>2, <1>3, <1>8, <1>9
<1>11. \A i \in DOMAIN lines : lines[i].cancel => meta.cancel
  <2>1. ASSUME NEW i \in 1 .. Len(lines) PROVE lines[i].seq <= meta.through
    <3>1. lines[i].seq = meta.oldest + i - 1
      BY <1>1
    <3> QED BY <1>1, <1>3, <3>1
  <2> QED BY <1>1, <2>1 DEF MetaLags
<1>12. CancelTold' <=> CancelTold
  <2>1. DOMAIN lines' = 1 .. Len(lines')
    BY <1>4
  <2>2. \A i \in DOMAIN lines' : lines'[i].cancel => meta.cancel
    BY <1>3, <1>4, <1>11, <2>1
  <2> QED BY <1>1, <1>11, <2>2 DEF CancelTold
<1>13. LastState \in EndStates
  BY <1>1 DEF MetaLags
<1>14. \A i \in 1 .. Len(lines') : \E j \in 1 .. Len(lines) :
         lines'[i] = lines[j] /\ lines'[i].seq = Oldest' + i - 1
  <2> SUFFICES ASSUME NEW i \in 1 .. Len(lines')
               PROVE  \E j \in 1 .. Len(lines) :
                        lines'[i] = lines[j] /\ lines'[i].seq = Oldest' + i - 1
    OBVIOUS
  <2>1. k + i - 1 \in 1 .. Len(lines) /\ lines'[i] = lines[k + i - 1]
    BY <1>4
  <2>2. lines[k + i - 1].seq = meta.oldest + (k + i - 1) - 1
    BY <1>1, <1>3, <2>1
  <2>3. meta.oldest + (k + i - 1) - 1 = Oldest' + i - 1
    BY <1>2, <1>3, <1>4, <1>8, SMTT(30)
  <2> QED BY <2>1, <2>2, <2>3
<1> QED BY <1>1, <1>4, <1>5, <1>7, <1>8, <1>10, <1>12, <1>13, <1>14 DEF SwapForgets

-----------------------------------------------------------------------------

\* What an operation has made stays made.
LEMMA MadeStays ==
  ASSUME JournalTypeOK, Numbered, MetaLags, Announced, Held, [JournalNext]_journal, ~meta'.made
  PROVE  meta' = NoMeta /\ lines' = <<>> /\ hold' = Free /\ ~torn'
<1>0. hold.step # "free" => meta.made
  BY DEF Numbered, Free
<1>1. CASE UNCHANGED journal
  BY <1>1 DEF journal, Numbered
<1>2. CASE ResolveCompaction \/ ProjectTail \/ CompactBegin
  <2>1. meta'.made = meta.made /\ meta.made
    <3>1. CASE ResolveCompaction
      BY <3>1 DEF ResolveCompaction, JournalTypeOK
    <3>2. CASE ProjectTail
      BY <3>2, ToProject, ProjectedIs DEF ProjectTail
    <3>3. CASE CompactBegin
      BY <3>3 DEF CompactBegin, Reconciled, JournalTypeOK
    <3> QED BY <1>2, <3>1, <3>2, <3>3
  <2> QED BY <2>1
<1>3. CASE StartNew
  BY <1>3 DEF StartNew, NoMeta
<1>4. CASE WriteProjection
  <2>1. meta.made /\ hold.event \in Event
    BY <1>0, <1>4 DEF WriteProjection, JournalTypeOK
  <2>2. CASE meta' = meta
    BY <2>1, <2>2
  <2>3. CASE meta' = Projected(meta, <<hold.event>>)
    <3> DEFINE evs == <<hold.event>>
    <3>1. evs \in Seq(Event) /\ evs # <<>> /\ meta' = Projected(meta, evs)
      BY <2>1, <2>3
    <3> HIDE DEF evs
    <3> QED BY <2>1, <3>1, ProjectedIs
  <2> QED BY <1>4, <2>2, <2>3 DEF WriteProjection
<1>5. CASE CompactEnd
  BY <1>0, <1>5 DEF CompactEnd, JournalTypeOK
<1>6. CASE WriteLine \/ CompactSwap
  BY <1>0, <1>6 DEF WriteLine, CompactSwap
<1>7. CASE Crash
  BY <1>0, <1>7 DEF Crash, Numbered, Free
<1>8. CASE TruncateTorn \/ StartReserved \/ Publish \/ PublishRefused \/ PublishFails
           \/ (\E s \in {"running", "succeeded", "failed"} : Look(s)) \/ RequestCancel \/ Observe
  BY <1>8 DEF TruncateTorn, StartReserved, Publish, PublishRefused, PublishFails, Look,
              RequestCancel, Observe, Reconciled
<1> QED BY <1>1, <1>2, <1>3, <1>4, <1>5, <1>6, <1>7, <1>8 DEF JournalNext

LEMMA NumberedStep ==
  ASSUME JournalTypeOK, JournalTypeOK', Numbered, MetaLags, Announced, Held,
         [JournalNext]_journal
  PROVE  Numbered'
<1>1. (\A i \in DOMAIN lines' : lines'[i].seq = Oldest' + i - 1) /\ (lines' = <<>> => Oldest' = 1)
  <2>1. CASE FilesStay \/ MetaWrite
    BY <2>1, FilesStayView, MetaWriteView DEF SameView, Numbered
  <2>2. CASE WriteLine
    <3>1. LineAdds
      BY <2>2, WriteLineView
    <3>2. /\ DOMAIN lines' = 1 .. Len(lines) + 1 /\ Len(lines) \in Nat /\ Oldest \in Nat
          /\ LastSeq = Oldest + Len(lines) - 1
          /\ \A i \in 1 .. Len(lines) : lines[i].seq = Oldest + i - 1
      BY <3>1, JournalLength DEF LineAdds, JournalTypeOK
    <3>3. ASSUME NEW i \in 1 .. Len(lines) + 1 PROVE lines'[i].seq = Oldest + i - 1
      <4>1. CASE i = Len(lines) + 1
        BY <3>1, <3>2, <4>1 DEF LineAdds
      <4>2. CASE i # Len(lines) + 1
        <5>1. i \in 1 .. Len(lines)
          BY <3>2, <4>2
        <5> QED BY <3>1, <3>2, <5>1 DEF LineAdds
      <4> QED BY <4>1, <4>2
    <3> QED BY <3>1, <3>2, <3>3 DEF LineAdds
  <2>3. CASE CompactSwap
    <3>1. SwapForgets
      BY <2>3, CompactSwapView
    <3>2. DOMAIN lines' = 1 .. Len(lines')
      BY <3>1 DEF SwapForgets
    <3> QED BY <3>1, <3>2 DEF SwapForgets
  <2> QED BY <2>1, <2>2, <2>3, JournalKinds
<1> QED BY <1>1, MadeStays DEF Numbered

LEMMA MetaLagsStep ==
  ASSUME JournalTypeOK, JournalTypeOK', Numbered, MetaLags, Announced, Held,
         [JournalNext]_journal
  PROVE  MetaLags'
<1>0. /\ Len(lines) \in Nat /\ Oldest \in Nat /\ LastSeq \in Nat /\ meta.through \in Nat
      /\ LastSeq = Oldest + Len(lines) - 1 /\ DOMAIN lines = 1 .. Len(lines)
      /\ \A i \in 1 .. Len(lines) : lines[i].seq = Oldest + i - 1
      /\ lines # <<>> => LastState = lines[Len(lines)].state
      /\ lines # <<>> => Len(lines) \in 1 .. Len(lines)
  <2>1. meta.through \in Nat
    BY JournalConstants DEF JournalTypeOK, Numbers
  <2>2. DOMAIN lines = 1 .. Len(lines)
    BY DEF JournalTypeOK
  <2> QED BY <2>1, <2>2, JournalLength
<1>1. CASE FilesStay
  BY <1>1, FilesStayView DEF SameView, FilesStay, MetaLags
<1>2. CASE ResolveCompaction \/ CompactBegin \/ CompactEnd
  <2>1. SameView
    BY <1>2, MetaWriteView DEF MetaWrite
  <2>2. meta'.through = meta.through /\ meta'.last = meta.last /\ meta'.cancel = meta.cancel
    <3>1. CASE ResolveCompaction
      BY <3>1 DEF ResolveCompaction, JournalTypeOK
    <3>2. CASE CompactBegin
      <4>1. PICK p : meta' = [meta EXCEPT !.pending = p]
        BY <3>2 DEF CompactBegin
      <4> QED BY <4>1 DEF JournalTypeOK
    <3>3. CASE CompactEnd
      BY <3>3 DEF CompactEnd, JournalTypeOK
    <3> QED BY <1>2, <3>1, <3>2, <3>3
  <2> QED BY <2>1, <2>2 DEF SameView, MetaLags
<1>3. CASE ProjectTail
  <2>1. SameView
    BY <1>3, MetaWriteView DEF MetaWrite
  <2> DEFINE unread == Beyond(meta.through)
             n == meta.through
  <2>2. /\ unread \in Seq(Event) /\ unread # <<>> /\ lines # <<>>
        /\ Len(unread) = LastSeq - n
        /\ unread[Len(unread)] = lines[Len(lines)]
        /\ \A i \in 1 .. Len(unread) : unread[i] = lines[n - Oldest + 1 + i]
    BY <1>3, ToProject
  <2>3. meta' = Projected(meta, unread)
    BY <1>3 DEF ProjectTail
  <2>4. n \in Nat /\ Oldest - 1 <= n /\ n < LastSeq
    BY <1>0, <1>3 DEF ProjectTail, MetaLags
  <2>5. \A i \in 1 .. Len(lines) : lines[i].seq <= n /\ lines[i].cancel => meta.cancel
    BY <1>0 DEF MetaLags
  <2> HIDE DEF unread, n
  <2>6. /\ meta'.through = LastSeq /\ meta'.last = LastState
        /\ (meta'.cancel <=> meta.cancel \/ \E i \in DOMAIN unread : unread[i].cancel)
    BY <1>0, <2>2, <2>3, ProjectedIs DEF LastSeq
  <2>7. ASSUME NEW i \in 1 .. Len(lines), lines[i].cancel PROVE meta'.cancel
    <3>1. CASE lines[i].seq <= n
      BY <2>5, <2>6, <2>7, <3>1
    <3>2. CASE ~(lines[i].seq <= n)
      <4>1. lines[i].seq = Oldest + i - 1
        BY <1>0
      <4> DEFINE j == Oldest + i - 1 - n
      <4>2. j \in 1 .. LastSeq - n /\ n - Oldest + 1 + j = i
        BY <1>0, <2>4, <3>2, <4>1
      <4> HIDE DEF j
      <4>3. j \in 1 .. Len(unread) /\ unread[j] = lines[i]
        BY <2>2, <4>2
      <4>4. j \in DOMAIN unread
        BY <2>2, <4>3
      <4> QED BY <2>6, <2>7, <4>3, <4>4
    <3> QED BY <3>1, <3>2
  <2> QED BY <1>0, <2>1, <2>2, <2>4, <2>6, <2>7, SMTT(30) DEF SameView, MetaLags
<1>4. CASE StartNew
  <2>1. /\ lines = <<>> /\ lines' = <<>> /\ Oldest' = 1 /\ LastSeq' = 0 /\ LastState' = "none"
        /\ meta'.through = 0 /\ meta'.last = "none" /\ ~meta'.cancel
    BY <1>4 DEF StartNew, Numbered, NoMeta, Oldest, LastSeq, LastState
  <2> QED BY <2>1 DEF MetaLags
<1>5. CASE WriteProjection
  <2>1. SameView /\ hold.event \in Event /\ lines # <<>> /\ lines[Len(lines)] = hold.event
        /\ meta.through = LastSeq - 1
    BY <1>5, MetaWriteView DEF MetaWrite, WriteProjection, Held, JournalTypeOK
  <2>2. CASE meta' = meta
    BY <2>1, <2>2 DEF SameView, MetaLags
  <2>3. CASE meta' = Projected(meta, <<hold.event>>)
    <3> DEFINE evs == <<hold.event>>
    <3>1. evs \in Seq(Event) /\ evs # <<>> /\ meta' = Projected(meta, evs) /\ DOMAIN evs = {1}
          /\ Len(evs) = 1 /\ evs[1] = hold.event
      BY <2>1, <2>3
    <3> HIDE DEF evs
    <3>2. /\ meta'.through = hold.event.seq /\ meta'.last = hold.event.state
          /\ (meta'.cancel <=> meta.cancel \/ hold.event.cancel)
      BY <3>1, ProjectedIs
    <3>3. meta'.through = LastSeq /\ meta'.last = LastState
      BY <1>0, <2>1, <3>2 DEF LastSeq
    <3>4. ASSUME NEW i \in 1 .. Len(lines), lines[i].cancel PROVE meta'.cancel
      <4>1. CASE i = Len(lines)
        BY <2>1, <3>2, <3>4, <4>1
      <4>2. CASE i # Len(lines)
        <5>1. lines[i].seq <= meta.through
          <6>1. i \in Nat /\ i < Len(lines)
            <7>1. Len(lines) \in Nat
              BY <1>0
            <7> QED BY <4>2, <7>1
          <6>2. lines[i].seq = Oldest + i - 1
            BY <1>0
          <6> QED BY <1>0, <2>1, <6>1, <6>2
        <5> QED BY <1>0, <3>2, <3>4, <5>1 DEF MetaLags
      <4> QED BY <4>1, <4>2
    <3>5. Oldest - 1 <= LastSeq
      BY <1>0
    <3> QED BY <1>0, <2>1, <3>3, <3>4, <3>5 DEF SameView, MetaLags
  <2> QED BY <1>5, <2>2, <2>3 DEF WriteProjection
<1>6. CASE WriteLine
  <2>1. LineAdds /\ meta.through = LastSeq
    BY <1>6, WriteLineView DEF WriteLine, Held
  <2>2. ASSUME NEW i \in DOMAIN lines', lines'[i].seq <= meta.through, lines'[i].cancel
        PROVE  meta.cancel
    <3>1. DOMAIN lines' = 1 .. Len(lines) + 1
      BY <2>1 DEF LineAdds, JournalTypeOK
    <3>2. i # Len(lines) + 1
      BY <1>0, <2>1, <2>2 DEF LineAdds
    <3>3. i \in 1 .. Len(lines)
      BY <1>0, <3>1, <3>2
    <3> QED BY <1>0, <2>1, <2>2, <3>3 DEF LineAdds, MetaLags
  <2>3. meta'.through \in Oldest' - 1 .. LastSeq' /\ meta'.through # LastSeq'
    BY <1>0, <2>1 DEF LineAdds, MetaLags
  <2> QED BY <2>1, <2>2, <2>3 DEF LineAdds, MetaLags
<1>7. CASE CompactSwap
  <2>1. SwapForgets /\ meta.through = LastSeq
    BY <1>7, CompactSwapView DEF CompactSwap, Held, Announced
  <2>2. meta'.through \in Oldest' - 1 .. LastSeq' /\ meta'.last = LastState'
    <3>1. Oldest' \in Nat /\ Oldest' <= LastSeq
      BY <1>0, <2>1 DEF SwapForgets
    <3> QED BY <1>0, <2>1, <3>1 DEF SwapForgets, MetaLags
  <2>3. ASSUME NEW i \in DOMAIN lines', lines'[i].cancel PROVE meta.cancel
    <3>1. i \in 1 .. Len(lines')
      BY <2>1 DEF SwapForgets
    <3>2. PICK j \in 1 .. Len(lines) : lines'[i] = lines[j]
      BY <2>1, <3>1 DEF SwapForgets
    <3>3. lines[j].seq <= meta.through
      BY <1>0, <2>1
    <3> QED BY <1>0, <2>3, <3>2, <3>3 DEF MetaLags
  <2> QED BY <2>1, <2>2, <2>3 DEF SwapForgets, MetaLags
<1> QED BY <1>1, <1>2, <1>3, <1>4, <1>5, <1>6, <1>7, JournalKinds DEF MetaWrite

LEMMA AnnouncedStep ==
  ASSUME JournalTypeOK, Numbered, MetaLags, Announced, Held, [JournalNext]_journal
  PROVE  Announced'
<1>1. CASE FilesStay
  <2>1. meta.pending # NoCompaction => ~torn'
    <3>1. torn' = torn \/ torn' = FALSE \/ hold.step = "line"
      BY <1>1 DEF JournalNext, journal, ResolveCompaction, ProjectTail, StartNew, WriteProjection,
            CompactBegin, CompactEnd, WriteLine, CompactSwap, TruncateTorn, StartReserved, Publish,
            PublishRefused, PublishFails, Look, RequestCancel, Observe, Crash
    <3> QED BY <3>1 DEF Announced, Held
  <2> QED BY <1>1, <2>1, FilesStayView DEF FilesStay, SameView, Announced
<1>2. CASE ResolveCompaction \/ StartNew \/ CompactEnd
  <2>1. meta'.pending = NoCompaction
    BY <1>2 DEF ResolveCompaction, StartNew, CompactEnd, NoMeta, JournalTypeOK
  <2> QED BY <2>1 DEF Announced
<1>3. CASE ProjectTail
  <2>1. meta'.pending = NoCompaction
    BY <1>3, ToProject, ProjectedIs DEF ProjectTail
  <2> QED BY <2>1 DEF Announced
<1>4. CASE WriteProjection
  <2>1. hold.event \in Event /\ meta.pending = NoCompaction
    BY <1>4 DEF WriteProjection, Held, JournalTypeOK
  <2>2. CASE meta' = meta
    BY <2>1, <2>2 DEF Announced
  <2>3. CASE meta' = Projected(meta, <<hold.event>>)
    <3> DEFINE evs == <<hold.event>>
    <3>1. evs \in Seq(Event) /\ evs # <<>> /\ meta' = Projected(meta, evs)
      BY <2>1, <2>3
    <3> HIDE DEF evs
    <3>2. meta'.pending = NoCompaction
      BY <2>1, <3>1, ProjectedIs
    <3> QED BY <3>2 DEF Announced
  <2> QED BY <1>4, <2>2, <2>3 DEF WriteProjection
<1>5. CASE CompactBegin
  <2>1. SameView /\ torn' = torn /\ meta.last \in EndStates
    BY <1>5, MetaWriteView DEF MetaWrite, CompactBegin
  <2>2. ~torn /\ meta.through = LastSeq /\ Oldest = meta.oldest
    BY <1>5, ReconciledIs DEF CompactBegin
  <2>3. PICK k \in 1 .. Len(lines) :
          meta' = [meta EXCEPT !.pending = [oldest |-> meta.oldest + k - 1, before |-> lines,
                                            after |-> SubSeq(lines, k, Len(lines))]]
    BY <1>5, KeptIs
  <2>4. /\ meta'.last = meta.last /\ meta'.through = meta.through /\ meta'.oldest = meta.oldest
        /\ meta'.pending.oldest = meta.oldest + k - 1 /\ meta'.pending.before = lines
        /\ meta'.pending.after = SubSeq(lines, k, Len(lines))
    BY <2>3 DEF JournalTypeOK
  <2>5. lines # <<>> /\ DOMAIN lines = 1 .. Len(lines)
    BY <1>5, KeptIs DEF JournalTypeOK
  <2>6. \A i \in DOMAIN lines : lines[i].seq = meta.oldest + i - 1
    BY <2>2 DEF Numbered
  <2> QED BY <2>1, <2>2, <2>4, <2>5, <2>6 DEF SameView, Announced
<1>6. CASE WriteLine
  <2>1. meta'.pending = NoCompaction
    BY <1>6 DEF WriteLine, Held
  <2> QED BY <2>1 DEF Announced
<1>7. CASE CompactSwap
  <2>1. SwapForgets /\ torn' = torn
    BY <1>7, CompactSwapView DEF CompactSwap
  <2> QED BY <2>1 DEF SwapForgets, Announced
<1> QED BY <1>1, <1>2, <1>3, <1>4, <1>5, <1>6, <1>7, JournalKinds DEF MetaWrite

\* A step at which nobody holds the lock afterwards.
LEMMA HeldStep ==
  ASSUME JournalTypeOK, JournalTypeOK', Numbered, MetaLags, Announced, Held, Reported,
         [JournalNext]_journal
  PROVE  Held'
<1>0. hold'.step = "free" => Held'
  BY DEF Held
<1>1. CASE UNCHANGED journal
  BY <1>1, FilesStayView DEF journal, FilesStay, SameView, Held
<1>2. CASE ResolveCompaction \/ ProjectTail \/ TruncateTorn \/ PublishRefused \/ PublishFails
           \/ (\E s \in {"running", "succeeded", "failed"} : Look(s)) \/ Observe
           \/ WriteProjection \/ CompactEnd \/ Crash
  <2>1. hold' = Free
    BY <1>2 DEF ResolveCompaction, ProjectTail, TruncateTorn, PublishRefused, PublishFails,
         Look, Observe, WriteProjection, CompactEnd, Crash, Reconciled
  <2> QED BY <1>0, <2>1 DEF Free
<1>3. CASE StartNew
  <2>1. /\ hold' = [step |-> "line", who |-> "reporter", event |-> Told(1, Opening)]
        /\ torn' = torn /\ lines' = lines /\ meta' = [NoMeta EXCEPT !.made = TRUE]
        /\ meta = NoMeta /\ lines = <<>> /\ ~torn
    BY <1>3 DEF StartNew, Numbered
  <2>2. LastSeq' = 0 /\ LastState' = "none" /\ ~CancelTold'
    BY <2>1 DEF LastSeq, LastState, CancelTold, NoMeta
  <2>3. meta'.through = 0 /\ meta'.pending = NoCompaction
    BY <2>1 DEF NoMeta
  <2>4. hold'.event.seq = 0 + 1 /\ ~hold'.event.cancel
    BY <2>1 DEF Told
  <2> QED BY <2>1, <2>2, <2>3, <2>4 DEF Held, EndStates
<1>4. CASE StartReserved \/ Publish \/ RequestCancel
  <2>1. /\ Reconciled /\ FilesStay /\ torn' = torn
    BY <1>4 DEF StartReserved, Publish, RequestCancel, FilesStay
  <2>2. /\ LastSeq' = LastSeq /\ LastState' = LastState /\ (CancelTold' <=> CancelTold)
        /\ meta' = meta /\ ~torn'
        /\ meta.through = LastSeq /\ meta.pending = NoCompaction /\ LastSeq \in Nat
        /\ (CancelTold <=> meta.cancel) /\ meta.last = LastState
    BY <2>1, FilesStayView, ReconciledIs, JournalLength DEF SameView, FilesStay
  <2> SUFFICES /\ hold'.step = "line" /\ meta.last \notin EndStates
               /\ hold'.event.seq = meta.through + 1
               /\ hold'.who = "canceller" =>
                    /\ hold'.event.cancel /\ ~meta.cancel
                    /\ hold'.event.state = meta.last /\ meta.last # "none"
               /\ hold'.who = "reporter" =>
                    /\ ~hold'.event.cancel
                    /\ meta.cancel => hold'.event.state \in {"failed", "cancelled"}
    BY <2>2 DEF Held
  <2>3. CASE StartReserved
    <3>1. /\ hold' = [step |-> "line", who |-> "reporter", event |-> Told(1, Opening)]
          /\ Told(1, Opening).seq = meta.through + 1 /\ meta.last \notin EndStates
          /\ meta.last = "none"
      BY <2>3 DEF StartReserved, Line
    <3>2. ~meta.cancel
      BY <2>2, <3>1, JournalLength DEF MetaLags
    <3> QED BY <3>1, <3>2 DEF Told
  <2>4. CASE Publish
    <3> DEFINE e == Told(rep.seq + 1, rep.next)
    <3>1. /\ hold' = [step |-> "line", who |-> "reporter", event |-> e]
          /\ e.seq = meta.through + 1 /\ meta.last \notin EndStates /\ rep.pc = "publish"
      BY <2>4 DEF Publish, Line
    <3>2. e.seq = rep.seq + 1 /\ ~e.cancel /\ e.state = rep.next.state
      BY DEF Told
    <3>3. rep.seq \in Nat
      BY JournalConstants DEF JournalTypeOK, Numbers
    <3>4. rep.seq = LastSeq
      BY <2>2, <3>1, <3>2, <3>3
    <3>5. meta.cancel => rep.next.state \in {"failed", "cancelled"}
      BY <2>2, <3>1, <3>4 DEF Reported
    <3> HIDE DEF e
    <3> QED BY <3>1, <3>2, <3>5
  <2>5. CASE RequestCancel
    <3> DEFINE e == [seq |-> meta.through + 1, state |-> meta.last,
                     cancel |-> TRUE, closed |-> meta.closed]
    <3>1. /\ hold' = [step |-> "line", who |-> "canceller", event |-> e]
          /\ meta.last \notin EndStates /\ meta.last # "none" /\ ~meta.cancel
      BY <2>5 DEF RequestCancel, Line
    <3> QED BY <3>1
  <2> QED BY <1>4, <2>3, <2>4, <2>5
<1>5. CASE WriteLine
  <2>1. LineAdds /\ meta.through = LastSeq /\ ~torn /\ torn' = torn
    BY <1>5, WriteLineView DEF WriteLine, Held
  <2>2. hold' = [hold EXCEPT !.step = "projection"] /\ hold.step = "line"
    BY <1>5 DEF WriteLine
  <2>3. hold'.step = "projection" /\ hold'.event = hold.event
    BY <2>2 DEF JournalTypeOK
  <2>4. LastSeq \in Nat
    BY JournalLength
  <2> QED BY <2>1, <2>3, <2>4 DEF LineAdds, Held
<1>6. CASE CompactBegin
  <2>1. PICK k \in 1 .. Len(lines) :
          meta' = [meta EXCEPT !.pending = [oldest |-> meta.oldest + k - 1, before |-> lines,
                                            after |-> SubSeq(lines, k, Len(lines))]]
    BY <1>6, KeptIs
  <2>2. meta'.pending.before = lines
    BY <2>1 DEF JournalTypeOK
  <2>3. lines' = lines /\ hold' = [step |-> "swap"] /\ lines # <<>>
    BY <1>6, KeptIs DEF CompactBegin
  <2> QED BY <2>2, <2>3 DEF Held, NoCompaction
<1>7. CASE CompactSwap
  <2>1. /\ hold' = [step |-> "close"] /\ lines' = meta.pending.after /\ meta' = meta
        /\ meta.pending # NoCompaction
    BY <1>7 DEF CompactSwap, Held
  <2> QED BY <2>1 DEF Held
<1> QED BY <1>1, <1>2, <1>3, <1>4, <1>5, <1>6, <1>7 DEF JournalNext

\* Where the reporter does not act, it is at most overtaken.
LEMMA ReportedStep ==
  ASSUME JournalTypeOK, JournalTypeOK', Numbered, MetaLags, Announced, Held, Reported,
         [JournalNext]_journal
  PROVE  Reported'
<1>0. /\ LastSeq \in Nat /\ rep.seq \in Nat /\ meta.through \in Nat
      /\ [JournalNext]_journal => LastSeq' = LastSeq \/ LastSeq' = LastSeq + 1
  BY JournalLength, JournalConstants, JournalKinds, FilesStayView, MetaWriteView, WriteLineView,
     CompactSwapView DEF JournalTypeOK, Numbers, SameView, LineAdds, SwapForgets
<1>1. CASE UNCHANGED journal \/ ResolveCompaction \/ TruncateTorn \/ ProjectTail
           \/ Publish \/ RequestCancel \/ CompactBegin \/ CompactSwap \/ CompactEnd \/ Observe
  <2>1. rep' = rep
    BY <1>1 DEF journal, ResolveCompaction, TruncateTorn, ProjectTail, Publish,
         RequestCancel, CompactBegin, CompactSwap, CompactEnd, Observe
  <2>2. LastSeq' = LastSeq /\ (CancelTold' <=> CancelTold)
    <3>1. CASE FilesStay \/ MetaWrite
      BY <3>1, FilesStayView, MetaWriteView DEF SameView
    <3>2. CASE CompactSwap
      BY <3>2, CompactSwapView DEF SwapForgets
    <3> QED BY <1>1, <3>1, <3>2 DEF journal, FilesStay, MetaWrite, TruncateTorn, Publish,
              RequestCancel, Observe
  <2> QED BY <2>1, <2>2 DEF Reported
<1>2. CASE WriteLine
  <2>1. LastSeq' = LastSeq + 1 /\ rep' = rep
    BY <1>2, WriteLineView DEF LineAdds, WriteLine
  <2>2. rep.seq <= LastSeq
    BY DEF Reported
  <2>3. rep'.seq <= LastSeq' /\ rep'.seq # LastSeq'
    BY <1>0, <2>1, <2>2
  <2> QED BY <2>1, <2>3 DEF Reported
<1>3. CASE StartNew \/ StartReserved
  <2>1. /\ rep'.seq = 0 /\ rep'.next.state = "running"
    <3>1. rep' = [Silent EXCEPT !.pc = "publish", !.next = Opening]
      BY <1>3 DEF StartNew, StartReserved
    <3> QED BY <3>1 DEF Silent, Opening
  <2>2. ~CancelTold'
    <3>1. lines = <<>> /\ ~meta.cancel
      <4>1. CASE StartNew
        BY <4>1 DEF StartNew, Numbered, NoMeta
      <4>2. CASE StartReserved
        BY <4>2, ReconciledIs, JournalLength DEF StartReserved, MetaLags
      <4> QED BY <1>3, <4>1, <4>2
    <3>2. CancelTold' <=> CancelTold
      BY <1>3, FilesStayView, MetaWriteView DEF StartReserved, FilesStay, MetaWrite, SameView
    <3> QED BY <3>1, <3>2 DEF CancelTold
  <2>3. LastSeq' \in Nat
    BY <1>0
  <2> QED BY <2>1, <2>2, <2>3 DEF Reported
<1>4. CASE PublishRefused \/ PublishFails \/ \E s \in {"running", "succeeded", "failed"} : Look(s)
  <2>1. /\ Reconciled /\ FilesStay /\ rep.pc \in {"idle", "publish"}
    BY <1>4 DEF PublishRefused, PublishFails, Look, FilesStay
  <2>2. LastSeq' = LastSeq /\ (CancelTold' <=> meta.cancel) /\ meta.through = LastSeq
    BY <2>1, FilesStayView, ReconciledIs DEF SameView
  <2>3. rep.seq <= LastSeq
    BY DEF Reported
  <2> SUFFICES /\ rep'.seq \in {rep.seq, meta.through}
               /\ rep'.pc = "publish" => rep'.next.state # "none"
               /\ rep'.pc = "publish" /\ meta.cancel => rep'.next.state \in {"failed", "cancelled"}
    BY <1>0, <2>2, <2>3 DEF Reported
  <2>4. CASE PublishRefused
    BY <2>4 DEF PublishRefused, JournalTypeOK
  <2>5. CASE PublishFails
    BY <2>5 DEF PublishFails, JournalTypeOK
  <2>6. CASE \E s \in {"running", "succeeded", "failed"} : Look(s)
    <3>1. PICK s \in {"running", "succeeded", "failed"} : Look(s)
      BY <2>6
    <3>2. CASE meta.cancel /\ s # "failed"
      BY <3>1, <3>2 DEF Look, JournalTypeOK
    <3>3. CASE ~(meta.cancel /\ s # "failed")
      <4>1. PICK closed : rep' = [rep EXCEPT !.pc = "publish",
                                             !.next = [state |-> s, closed |-> closed]]
        BY <3>1, <3>3 DEF Look
      <4> QED BY <3>3, <4>1 DEF JournalTypeOK
    <3> QED BY <3>2, <3>3
  <2> QED BY <1>4, <2>4, <2>5, <2>6
<1>5. CASE WriteProjection
  <2>1. /\ LastSeq' = LastSeq /\ (CancelTold' <=> CancelTold)
    BY <1>5, MetaWriteView DEF MetaWrite, SameView
  <2>2. /\ hold.step = "projection" /\ lines # <<>> /\ lines[Len(lines)] = hold.event
    BY <1>5 DEF WriteProjection, Held
  <2>3. hold.event.seq = LastSeq
    BY <2>2 DEF LastSeq
  <2>4. PICK written \in BOOLEAN : rep' = Adopt(written)
    BY <1>5 DEF WriteProjection
  <2>5. CASE hold.who # "reporter"
    BY <2>1, <2>4, <2>5 DEF Adopt, Reported
  <2>6. CASE hold.who = "reporter"
    <3>1. rep'.seq = LastSeq /\ rep'.next.state = "failed"
      BY <2>3, <2>4, <2>6 DEF Adopt, JournalTypeOK
    <3> QED BY <1>0, <2>1, <3>1 DEF Reported
  <2> QED BY <2>5, <2>6
<1>6. CASE Crash
  <2>1. rep' = Silent /\ LastSeq' = LastSeq
    BY <1>6, FilesStayView DEF Crash, FilesStay, SameView
  <2> QED BY <1>0, <2>1 DEF Reported, Silent
<1> QED BY <1>1, <1>2, <1>3, <1>4, <1>5, <1>6 DEF JournalNext

\* A client's page is taken from a reconciled journal.
LEMMA PagesStep ==
  ASSUME JournalTypeOK, Numbered, MetaLags, Announced, Held, cursor <= LastSeq, PagesAreGapless,
         [JournalNext]_journal
  PROVE  cursor' <= LastSeq' /\ PagesAreGapless'
<1>0. /\ LastSeq \in Nat /\ cursor \in Nat /\ LastSeq' \in {LastSeq, LastSeq + 1}
  BY JournalLength, JournalConstants, JournalKinds, FilesStayView, MetaWriteView, WriteLineView,
     CompactSwapView DEF JournalTypeOK, Numbers, SameView, LineAdds, SwapForgets
<1>1. CASE Observe
  <2>1. /\ Reconciled /\ LastSeq' = LastSeq
    BY <1>1, FilesStayView DEF Observe, FilesStay, SameView
  <2>2. CASE cursor < meta.oldest - 1
    <3>1. cursor' = meta.oldest - 1 /\ page' = page
      BY <1>1, <2>2 DEF Observe
    <3>2. Oldest = meta.oldest /\ Oldest - 1 <= LastSeq
      BY <2>1, ReconciledIs, JournalLength
    <3> QED BY <2>1, <3>1, <3>2 DEF PagesAreGapless
  <2>3. CASE ~(cursor < meta.oldest - 1)
    <3>1. PICK n \in Nat :
            /\ n <= LastSeq - cursor /\ cursor' = cursor + n
            /\ page' = [after |-> cursor, events |-> SubSeq(Beyond(cursor), 1, n)]
            /\ SubSeq(Beyond(cursor), 1, n) \in Seq(Event)
            /\ Len(SubSeq(Beyond(cursor), 1, n)) = n
            /\ \A i \in 1 .. n : SubSeq(Beyond(cursor), 1, n)[i].seq = cursor + i
      BY <1>1, <2>3, PageIs
    <3>2. cursor' <= LastSeq
      BY <1>0, <3>1
    <3>3. DOMAIN page'.events = 1 .. n /\ page'.after = cursor
      BY <3>1
    <3> QED BY <2>1, <3>1, <3>2, <3>3 DEF PagesAreGapless
  <2> QED BY <2>2, <2>3
<1>2. CASE ~Observe
  <2>1. cursor' = cursor /\ page' = page
    BY <1>2 DEF JournalNext, journal, ResolveCompaction, ProjectTail, StartNew, WriteProjection,
            CompactBegin, CompactEnd, WriteLine, CompactSwap, TruncateTorn, StartReserved, Publish,
            PublishRefused, PublishFails, Look, RequestCancel, Crash
  <2> QED BY <1>0, <2>1 DEF PagesAreGapless
<1> QED BY <1>1, <1>2

LEMMA JournalInitInv == JournalInit => JournalInv
<1> SUFFICES ASSUME JournalInit PROVE JournalInv
  OBVIOUS
<1>1. JournalTypeOK
  <2>1. 0 \in Numbers
    BY JournalConstants DEF Numbers
  <2>2. page \in [after : Numbers, events : Seq(Event)]
    BY <2>1, TypedEvents DEF JournalInit
  <2>3. hold \in HoldType /\ rep \in RepType /\ meta \in MetaType
    BY TypedEvents DEF JournalInit, HoldType, RepType, MetaType
  <2>4. torn \in BOOLEAN /\ lines \in Seq(Event) /\ cursor \in Numbers
    BY <2>1, TypedEvents DEF JournalInit
  <2> QED BY <2>2, <2>3, <2>4, JournalTypeIs
<1>2. LastSeq = 0 /\ LastState = "none" /\ Oldest = 1 /\ ~CancelTold
  BY DEF JournalInit, LastSeq, LastState, Oldest, CancelTold, NoMeta
<1>3. PagesAreGapless /\ cursor <= LastSeq
  BY <1>2 DEF JournalInit, PagesAreGapless
<1>4. Numbered /\ MetaLags /\ Announced /\ Held /\ Reported
  BY <1>2 DEF JournalInit, Numbered, MetaLags, Announced, Held, Reported, NoMeta, Free, Silent
<1> QED BY <1>1, <1>3, <1>4 DEF JournalInv

LEMMA JournalStep == JournalInv /\ [JournalNext]_journal => JournalInv'
<1> SUFFICES ASSUME JournalInv, [JournalNext]_journal PROVE JournalInv'
  OBVIOUS
<1>1. JournalTypeOK'
  BY JournalTypeStep DEF JournalInv
<1>2. Numbered' /\ MetaLags' /\ Announced'
  BY <1>1, NumberedStep, MetaLagsStep, AnnouncedStep DEF JournalInv
<1>3. Held' /\ Reported'
  BY <1>1, HeldStep, ReportedStep DEF JournalInv
<1>4. (cursor <= LastSeq)' /\ PagesAreGapless'
  BY PagesStep DEF JournalInv
<1> QED BY <1>1, <1>2, <1>3, <1>4 DEF JournalInv

\* What every write leaves behind: a journal without gaps, metadata that tells a prefix
\* of it, and no compaction but one whose outcome can be read off the journal.
THEOREM JournalInvariance == JournalSpec => []JournalInv
BY JournalInitInv, JournalStep, PTL DEF JournalSpec

LEMMA InvReadable == JournalInv => JournalIsReadable
<1> SUFFICES ASSUME JournalInv, meta.made PROVE ~Unreadable
  BY DEF JournalInv, JournalIsReadable, Unreadable
<1>1. /\ JournalTypeOK /\ Numbered /\ MetaLags /\ Announced
  BY DEF JournalInv
<1>2. /\ Len(lines) \in Nat /\ Oldest \in Nat /\ LastSeq \in Nat
      /\ LastSeq = Oldest + Len(lines) - 1 /\ DOMAIN lines = 1 .. Len(lines)
      /\ \A i \in 1 .. Len(lines) : lines[i].seq = Oldest + i - 1
      /\ lines = <<>> <=> Len(lines) = 0
  <2>1. DOMAIN lines = 1 .. Len(lines) /\ (lines = <<>> <=> Len(lines) = 0)
    BY <1>1 DEF JournalTypeOK
  <2> QED BY <1>1, <2>1, JournalLength
<1>3. meta.through \in Nat /\ Oldest - 1 <= meta.through /\ meta.through <= LastSeq
  BY <1>1, <1>2, JournalConstants DEF JournalTypeOK, Numbers, MetaLags
<1>4. meta.pending # NoCompaction => ~torn /\ lines \in {meta.pending.before, meta.pending.after}
  BY <1>1 DEF Announced
<1>5. lines = <<>> => meta.through = 0
  BY <1>1, <1>2, <1>3 DEF Numbered
<1>6. lines # <<>> => lines[1].seq = Oldest
  BY <1>2
<1>7. \A i \in 1 .. Len(lines) - 1 : lines[i + 1].seq = lines[i].seq + 1
  <2> SUFFICES ASSUME NEW i \in 1 .. Len(lines) - 1 PROVE lines[i + 1].seq = lines[i].seq + 1
    OBVIOUS
  <2>1. i \in 1 .. Len(lines) /\ i + 1 \in 1 .. Len(lines)
    BY <1>2
  <2>2. lines[i].seq = Oldest + i - 1 /\ lines[i + 1].seq = Oldest + (i + 1) - 1
    BY <1>2, <2>1
  <2> QED BY <1>2, <2>1, <2>2
<1>8. Beyond(meta.through) # <<>> => Beyond(meta.through)[1].seq = meta.through + 1
  <2> DEFINE n == meta.through
  <2>1. n \in Nat /\ Oldest - 1 <= n /\ n <= LastSeq
    BY <1>3
  <2> HIDE DEF n
  <2>2. /\ Beyond(n) \in Seq(Event) /\ Len(Beyond(n)) = LastSeq - n
        /\ \A i \in 1 .. LastSeq - n : Beyond(n)[i].seq = n + i
    BY <1>1, <2>1, TailIs
  <2>3. Beyond(n) # <<>> => 1 \in 1 .. LastSeq - n
    BY <1>2, <2>1, <2>2
  <2>4. Beyond(n) # <<>> => Beyond(n)[1].seq = n + 1
    BY <2>2, <2>3
  <2> QED BY <2>4 DEF n
<1>9. Oldest = IF meta.pending # NoCompaction /\ ~torn /\ lines = meta.pending.after
               THEN meta.pending.oldest ELSE meta.oldest
  BY <1>4 DEF Oldest
<1>10. ~(meta.through > LastSeq)
  BY <1>2, <1>3
<1> QED BY <1>4, <1>5, <1>6, <1>7, <1>8, <1>9, <1>10 DEF Unreadable

\* Whatever two writes a crash falls between, _reconcile_locked can read the directory
\* again; and the pages that observe gives to a client have no hole.
THEOREM DirectoryStaysReadable == JournalSpec => []JournalIsReadable
BY JournalInvariance, InvReadable, PTL

-----------------------------------------------------------------------------
(* The refinement.                                                           *)

LEMMA LogInit == JournalInit => Log!Init
BY DEF JournalInit, Log!Init, LastSeq, LastState, CancelTold, Oldest, NoMeta

LEMMA LogStep == JournalInv /\ [JournalNext]_journal => [Log!Next]_(Log!vars)
<1> SUFFICES ASSUME JournalInv, [JournalNext]_journal PROVE [Log!Next]_(Log!vars)
  OBVIOUS
<1>1. JournalTypeOK /\ Numbered /\ MetaLags /\ Announced /\ Held /\ Reported
  BY DEF JournalInv
<1>2. CancelTold \in BOOLEAN /\ CancelTold' \in BOOLEAN
  BY <1>1, JournalStep DEF CancelTold, JournalInv, JournalTypeOK
<1>3. CASE FilesStay \/ MetaWrite
  <2>1. SameView
    BY <1>1, <1>3, FilesStayView, MetaWriteView
  <2>2. CancelTold' = CancelTold
    BY <1>2, <2>1 DEF SameView
  <2> QED BY <2>1, <2>2 DEF SameView, Log!vars
<1>4. CASE WriteLine
  <2>1. LineAdds
    BY <1>1, <1>4, WriteLineView
  <2>2. /\ hold.step = "line" /\ hold.event \in Event /\ LastState \notin EndStates
        /\ hold.who \in {"reporter", "canceller"}
    BY <1>1, <1>4 DEF WriteLine, Held, JournalTypeOK
  <2>3. CASE hold.who = "reporter"
    <3>1. ~hold.event.cancel /\ (CancelTold => hold.event.state \in {"failed", "cancelled"})
      BY <1>1, <2>2, <2>3 DEF Held
    <3>2. CancelTold' = CancelTold
      BY <1>2, <2>1, <3>1 DEF LineAdds
    <3>3. hold.event.state \in Log!States
      BY <2>2 DEF Event, States, EndStates, Log!States, Log!EndStates
    <3>4. Log!Tell(hold.event.state)
      BY <2>1, <2>2, <3>1, <3>2 DEF LineAdds, Log!Tell, Log!Ended, Log!EndStates, EndStates
    <3> QED BY <3>3, <3>4 DEF Log!Next
  <2>4. CASE hold.who = "canceller"
    <3>1. /\ hold.event.cancel /\ ~CancelTold
          /\ hold.event.state = LastState /\ LastState # "none"
      BY <1>1, <2>2, <2>4 DEF Held
    <3>2. CancelTold' = TRUE
      BY <1>2, <2>1, <3>1 DEF LineAdds
    <3>3. Log!AcceptCancel
      BY <2>1, <2>2, <3>1, <3>2 DEF LineAdds, Log!AcceptCancel, Log!Ended, Log!EndStates, EndStates
    <3> QED BY <3>3 DEF Log!Next
  <2> QED BY <2>2, <2>3, <2>4
<1>5. CASE CompactSwap
  <2>1. SwapForgets
    BY <1>1, <1>5, CompactSwapView
  <2>2. CancelTold' = CancelTold
    BY <1>2, <2>1 DEF SwapForgets
  <2>3. Log!Forget
    BY <2>1, <2>2 DEF SwapForgets, Log!Forget, Log!Ended, Log!EndStates, EndStates
  <2> QED BY <2>3 DEF Log!Next
<1> QED BY <1>3, <1>4, <1>5, JournalKinds

\* The files implement the log: events are numbered without gaps, an accepted cancel is
\* followed only by an end that is not a success, an end is final, and only an ended
\* operation forgets, across crashes, failed writes and compactions.
THEOREM LogIsImplemented == JournalSpec => LogRefined
<1>1. JournalSpec => Log!Spec
  BY JournalInvariance, LogInit, LogStep, PTL DEF JournalSpec, Log!Spec
<1> QED BY <1>1 DEF LogRefined
=============================================================================
