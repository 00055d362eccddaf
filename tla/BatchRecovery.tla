---------------------------- MODULE BatchRecovery ----------------------------
(***************************************************************************)
(* The batch loop of AdapterExecutor.execute and, for each compute batch,  *)
(* the recursion of _execute_with_recovery, which calls the adapter and,   *)
(* when the call raises, lets RecoveryPolicy decide to bisect, shrink,     *)
(* back off or give up.                                                    *)
(*                                                                         *)
(* A batch is an interval of the job's items.  The recursion works from    *)
(* left to right, so its stack is the set of intervals still to do and the *)
(* next one is the leftmost.                                               *)
(***************************************************************************)
EXTENDS Naturals, Sequences

CONSTANTS
    N,                   \* items of the job
    Plans,               \* records whose field batches has the compute batches
    Adapters,            \* kinds of adapter,
    Answers,             \* and what each may answer to a set of items
    MaxOomRetries, MaxTransientRetries, MinBatchSize,
    BaseDelay, MaxDelay, TotalBudget,  \* the transient delays, in units of 0.25 s
    CallCap              \* bound of the history counter "calls"

Items == 1 .. N
FailureClasses == {"oom", "bad_input", "transient", "config_error",
                   "deterministic_model", "unknown"}
Replies == FailureClasses \cup {"payloads", "wrong_count", "rejected"}

Span(f) == f.lo .. f.hi

\* The batches take the items in order, each once.
IsPlan(batches) ==
    /\ \A k \in DOMAIN batches : batches[k].lo <= batches[k].hi
    /\ \A j, k \in DOMAIN batches : j < k => batches[j].hi < batches[k].lo
    /\ \A i \in Items : \E k \in DOMAIN batches : i \in Span(batches[k])

ASSUME RecoveryAssumption ==
    /\ \A p \in Plans : p.batches \in Seq([lo : Items, hi : Items]) /\ IsPlan(p.batches)
    /\ N \in Nat \ {0} /\ MinBatchSize \in Nat \ {0} /\ CallCap \in Nat
    /\ MaxOomRetries \in Nat /\ MaxTransientRetries \in Nat
    /\ BaseDelay \in Nat /\ MaxDelay \in Nat /\ TotalBudget \in Nat
    /\ Answers \in [Adapters -> [SUBSET Items -> SUBSET Replies]]

VARIABLES
    job,      \* the plan that is carried out
    todo,     \* its compute batches that have not begun
    adapter,  \* the adapter behind them
    frames,   \* the calls of the recursion that have not begun
    call,     \* the one in progress, "waiting" for the adapter or "committing"
    elapsed,  \* policy.elapsed_seconds, of this compute batch's policy
    item,     \* state of each item
    degraded, \* record.degraded
    cancel,   \* record.cancel_requested_at is set
    calls     \* history: adapter calls each item of this batch took part in

loop == <<job, todo, adapter>>
vars == <<loop, frames, call, elapsed, item, degraded, cancel, calls>>

\* lo .. hi and the attempt argument.
Frame == [lo : Items, hi : Items, attempt : Nat]
NoCall == [at |-> "none"]

AnswersTo(S) == Answers[adapter][S]

Lower(a, b) == IF a <= b THEN a ELSE b
Upper(a, b) == IF a >= b THEN a ELSE b
Size(f) == f.hi - f.lo + 1

-----------------------------------------------------------------------------
(* RecoveryPolicy.next_action: the action and the attempt it leads to, for a *)
(* classified failure; FailFast stands for every reason to give up.          *)

FailFast(f) == [action |-> "fail_fast", attempt |-> f.attempt, delay |-> 0]

Delay(attempt) == Lower(MaxDelay, BaseDelay * 2 ^ attempt)

OnOom_Unbounded(f) == [action |-> "shrink", attempt |-> f.attempt, delay |-> 0]
OnOom(f) ==
    IF f.attempt >= MaxOomRetries THEN FailFast(f)
    ELSE [action |-> "shrink", attempt |-> f.attempt + 1, delay |-> 0]

OnTransient(f) ==
    IF f.attempt >= MaxTransientRetries \/ elapsed + Delay(f.attempt) > TotalBudget
    THEN FailFast(f)
    ELSE [action |-> "backoff", attempt |-> f.attempt + 1, delay |-> Delay(f.attempt)]

OnUnknown(f) ==
    IF f.attempt >= 1 THEN FailFast(f)
    ELSE [action |-> "backoff", attempt |-> f.attempt + 1, delay |-> BaseDelay]

Decision(f, failure) ==
    CASE failure = "oom" -> OnOom(f)
      [] failure = "bad_input" -> [action |-> "bisect", attempt |-> f.attempt, delay |-> 0]
      [] failure = "transient" -> OnTransient(f)
      [] failure = "unknown" -> OnUnknown(f)
      [] failure \in {"cancelled", "config_error", "deterministic_model"} -> FailFast(f)

\* Every decision except those three classes' marks the record as degraded.
Degrades(failure) == failure \in {"oom", "bad_input", "transient", "unknown"}

-----------------------------------------------------------------------------
(* The smaller batches a decision leads to.                                  *)

Sub(lo, hi, attempt) == [lo |-> lo, hi |-> hi, attempt |-> attempt]

\* items[:midpoint] and items[midpoint:]; a lone offender is not bisected.
CanBisect_Always(f) == TRUE
CanBisect_OffByOne(f) == Size(f) > 2
CanBisect(f) == Size(f) > 1
Midpoint(f) == Upper(1, Size(f) \div 2)
Halves(f, attempt) ==
    {g \in {Sub(f.lo, f.lo + Midpoint(f) - 1, attempt),
            Sub(f.lo + Midpoint(f), f.hi, attempt)} : g.lo <= g.hi}

\* for index in range(0, len(items), next_size)
NextSize(f) == Upper(MinBatchSize, Size(f) \div 2)
Chunks_DropTail(f, attempt) ==
    {Sub(a, a + NextSize(f) - 1, attempt) :
        a \in {x \in Span(f) : (x - f.lo) % NextSize(f) = 0 /\ x + NextSize(f) - 1 <= f.hi}}
Chunks(f, attempt) ==
    {Sub(a, Lower(a + NextSize(f) - 1, f.hi), attempt) :
        a \in {x \in Span(f) : (x - f.lo) % NextSize(f) = 0}}

-----------------------------------------------------------------------------
\* The next compute batch, under a new lease of the device and with a new policy;
\* a cancel ends the loop, while waiting for the device as well.
NextBatch ==
    /\ frames = {} /\ call = NoCall /\ todo # <<>>
    /\ IF cancel
       THEN todo' = <<>> /\ UNCHANGED <<frames, elapsed>>
       ELSE /\ todo' = Tail(todo)
            /\ frames' = {[lo |-> Head(todo).lo, hi |-> Head(todo).hi, attempt |-> 0]}
            /\ elapsed' = 0
    /\ calls' = [i \in Items |-> 0]
    /\ UNCHANGED <<job, adapter, call, item, degraded, cancel>>

IsNext(f) == f \in frames /\ \A g \in frames : f.lo <= g.lo

Calling(f) == call = [at |-> "waiting", frame |-> f]

\* Entering the recursion: a cancelled job returns at once, otherwise the adapter
\* is called.
Enter(f) ==
    /\ call = NoCall /\ IsNext(f)
    /\ frames' = frames \ {f}
    /\ IF cancel
       THEN UNCHANGED <<call, calls>>
       ELSE /\ call' = [at |-> "waiting", frame |-> f]
            /\ calls' = [i \in Items |-> IF i \in Span(f) THEN Lower(calls[i] + 1, CallCap)
                                         ELSE calls[i]]
    /\ UNCHANGED <<loop, elapsed, item, degraded, cancel>>

\* _fail_items: every item that has no outcome yet fails.
FailItems(S) ==
    item' = [i \in Items |-> IF i \in S /\ item[i] = "queued" THEN "failed" ELSE item[i]]

\* The engine was refused, or the answer has not one payload per item.
Reject(f) ==
    /\ Calling(f) /\ AnswersTo(Span(f)) \cap {"rejected", "wrong_count"} # {}
    /\ FailItems(Span(f))
    /\ call' = NoCall
    /\ UNCHANGED <<loop, frames, elapsed, degraded, cancel, calls>>

\* classify: a cancel that arrived during the call hides what went wrong.
Classified(failure) == IF cancel THEN "cancelled" ELSE failure

Raise(f, failure) ==
    LET class == Classified(failure)
        decision == Decision(f, class)
        bisect == decision.action = "bisect" /\ CanBisect(f)
        more == IF bisect THEN Halves(f, decision.attempt)
                ELSE IF decision.action = "shrink" THEN Chunks(f, decision.attempt)
                ELSE IF decision.action = "backoff"
                     THEN {[f EXCEPT !.attempt = decision.attempt]}
                ELSE {}
    IN
    /\ Calling(f) /\ failure \in AnswersTo(Span(f)) \cap FailureClasses
    /\ frames' = frames \cup more
    /\ elapsed' = elapsed + decision.delay
    /\ degraded' = (degraded \/ Degrades(class))
    /\ IF more = {} THEN FailItems(Span(f)) ELSE UNCHANGED item
    /\ call' = NoCall
    /\ UNCHANGED <<loop, cancel, calls>>

\* One payload per item: they are committed in order, the cancel looked at before
\* each; an empty payload fails its item.
Payloads(f) ==
    /\ Calling(f) /\ "payloads" \in AnswersTo(Span(f))
    /\ call' = [at |-> "committing", frame |-> f]
    /\ UNCHANGED <<loop, frames, elapsed, item, degraded, cancel, calls>>

AfterCommit(f) ==
    IF f.lo = f.hi THEN NoCall
    ELSE [at |-> "committing", frame |-> [f EXCEPT !.lo = f.lo + 1]]

Commit(f, outcome) ==
    /\ call = [at |-> "committing", frame |-> f]
    /\ IF cancel
       THEN call' = NoCall /\ UNCHANGED item
       ELSE /\ call' = AfterCommit(f)
            /\ item' = [item EXCEPT ![f.lo] = outcome]
    /\ UNCHANGED <<loop, frames, elapsed, degraded, cancel, calls>>

\* An adapter that answers well has a payload for every item.
Outcomes(f) == IF AnswersTo(Span(f)) = {"payloads"} THEN {"succeeded"}
               ELSE {"succeeded", "failed"}

RequestCancel ==
    /\ ~cancel
    /\ cancel' = TRUE
    /\ UNCHANGED <<loop, frames, call, elapsed, item, degraded, calls>>

-----------------------------------------------------------------------------
Init ==
    /\ job \in Plans /\ todo = job.batches
    /\ adapter \in Adapters
    /\ frames = {}
    /\ call = NoCall
    /\ elapsed = 0
    /\ item = [i \in Items |-> "queued"]
    /\ degraded = FALSE
    /\ cancel = FALSE
    /\ calls = [i \in Items |-> 0]

InProgress == IF call = NoCall THEN {} ELSE {call.frame}

Recover ==
    \/ NextBatch
    \/ \E f \in frames : Enter(f)
    \/ \E f \in InProgress :
         \/ Reject(f) \/ Payloads(f)
         \/ \E failure \in FailureClasses : Raise(f, failure)
         \/ \E outcome \in Outcomes(f) : Commit(f, outcome)

Next == Recover \/ RequestCancel

Spec == Init /\ [][Next]_vars

\* The worker thread runs, and an adapter call returns (it carries a deadline).
FairSpec == Spec /\ WF_vars(Recover)

-----------------------------------------------------------------------------
(* Properties                                                                *)

Done == todo = <<>> /\ frames = {} /\ call = NoCall
Pending == {todo[k] : k \in DOMAIN todo} \cup frames \cup InProgress

TypeOK ==
    /\ job \in Plans /\ todo \in Seq([lo : Items, hi : Items])
    /\ adapter \in Adapters /\ frames \subseteq Frame
    /\ call = NoCall \/ call \in [at : {"waiting", "committing"}, frame : Frame]
    /\ elapsed \in Nat
    /\ item \in [Items -> {"queued", "succeeded", "failed"}]
    /\ degraded \in BOOLEAN /\ cancel \in BOOLEAN
    /\ calls \in [Items -> 0 .. CallCap]

\* However bisections, shrinks and retries nest, an item without an outcome is in
\* exactly one pending batch (in at most one after a cancel), one with an outcome in
\* none: nothing is lost at a split (an odd length, a last short chunk) and nothing
\* is recognised again.
BatchesPartitionTheWork ==
    \A i \in Items :
      LET batches == {f \in Pending : i \in Span(f)} IN
      /\ item[i] # "queued" => batches = {}
      /\ item[i] = "queued" => \A f, g \in batches : f = g
      /\ item[i] = "queued" /\ ~cancel => batches # {}

\* Recovery is bounded for every single item: at most the retries of the most
\* generous class and one call per halving.
Halved[k \in 0 .. N] == IF k = 0 THEN N ELSE (Halved[k - 1] + 1) \div 2
Halvings == CHOOSE h \in 0 .. N : Halved[h] = 1 /\ \A k \in 0 .. (h - 1) : Halved[k] > 1
MaxRetries == Upper(1, Upper(MaxOomRetries, MaxTransientRetries))
CallsAreBounded == \A i \in Items : calls[i] <= 1 + MaxRetries + Halvings

\* An item fails only for what happened to itself: one whose own call answers well
\* comes out as succeeded, whatever else was in its batch (recovery: "binary
\* isolation, only the offending item fails"); a cancel during a failing call
\* is the one exception.
OnlyOffendersFail ==
    ~cancel => \A i \in Items : item[i] = "failed" => AnswersTo({i}) # {"payloads"}

\* The recursion ends, and without a cancel every item then has its outcome.
RecoveryEnds == <>[](Done /\ (cancel \/ \A i \in Items : item[i] # "queued"))

-----------------------------------------------------------------------------
(* What makes BatchesPartitionTheWork inductive (the proof is in             *)
(* InferenceProofs).                                                         *)

WorkTypeOK ==
    /\ todo \in Seq([lo : Items, hi : Items]) /\ frames \subseteq Frame
    /\ call = NoCall \/ call \in [at : {"waiting", "committing"}, frame : Frame]
    /\ item \in [Items -> {"queued", "succeeded", "failed"}]
    /\ cancel \in BOOLEAN

Begun == frames \cup InProgress

\* No batch is empty, and no two that are pending have an item in common: the
\* batches to come lie behind those that have begun, and these apart from each other.
PendingApart ==
    /\ \A f \in Begun : f.lo <= f.hi
    /\ \A k \in DOMAIN todo : todo[k].lo <= todo[k].hi
    /\ \A j, k \in DOMAIN todo : j < k => todo[j].hi < todo[k].lo
    /\ \A f \in Begun, k \in DOMAIN todo : f.hi < todo[k].lo
    /\ \A f, g \in frames : f # g => f.hi < g.lo \/ g.hi < f.lo
    /\ \A f \in InProgress, g \in frames : f.hi < g.lo

IsPending(i) ==
    \/ \E f \in Begun : i \in Span(f)
    \/ \E k \in DOMAIN todo : i \in Span(todo[k])

OpenIsPending ==
    \A i \in Items : /\ item[i] # "queued" => ~IsPending(i)
                     /\ item[i] = "queued" /\ ~cancel => IsPending(i)

IInv == WorkTypeOK /\ PendingApart /\ OpenIsPending

(* And OnlyOffendersFail, for adapters that isolate: a batch in which some   *)
(* item would answer well alone answers well as a whole, and in its parts,   *)
(* or reports a corrupt item, or is too large for the device; and the        *)
(* retries are enough to shrink any batch to what the device has room for.   *)

Innocent(a, i) == Answers[a][{i}] = {"payloads"}

Isolates(a, room) ==
    \A lo, hi \in Items : \A i \in lo .. hi :
      Innocent(a, i) =>
        /\ Answers[a][lo .. hi] \subseteq {"payloads", "bad_input", "oom"}
        /\ "oom" \in Answers[a][lo .. hi] => hi - lo + 1 > room
        /\ "payloads" \in Answers[a][lo .. hi] => Answers[a][i .. hi] = {"payloads"}

\* limit[k] bounds a batch that has been shrunk k times.
ShrinksTo(room, limit) ==
    /\ limit \in [0 .. MaxOomRetries -> Nat] /\ limit[MaxOomRetries] <= room
    /\ \A p \in Plans : \A k \in DOMAIN p.batches : Size(p.batches[k]) <= limit[0]
    /\ \A k \in 0 .. MaxOomRetries : k < MaxOomRetries =>
         \A n \in 0 .. limit[k] : Upper(MinBatchSize, n \div 2) <= limit[k + 1]

\* A batch with an item that answers well is small enough for its retries to do, and
\* what is committed of it is well answered.
OffendersApart(limit) ==
    /\ adapter \in Adapters
    /\ \A k \in DOMAIN todo : Size(todo[k]) <= limit[0]
    /\ \A f \in Begun : \A i \in Span(f) :
         Innocent(adapter, i) => f.attempt <= MaxOomRetries /\ Size(f) <= limit[f.attempt]
    /\ \A f \in InProgress : \A i \in Span(f) :
         call.at = "committing" /\ Innocent(adapter, i) => AnswersTo(i .. f.hi) = {"payloads"}
    /\ OnlyOffendersFail

=============================================================================
