--------------------------- MODULE BatchExecution ---------------------------
(***************************************************************************)
(* A job on its executor: BudgetPlan cuts it into compute batches, and     *)
(* BatchRecovery carries them out.                                         *)
(***************************************************************************)
EXTENDS BatchRecovery, BudgetPlan

\* The plan of a job with these staged files for an adapter of this capability.
PlanOf(files, capability) ==
    LET items == [k \in DOMAIN files |-> InputItem(files[k])] IN
    [items |-> items, capability |-> capability,
     batches |-> ComputeBatches(items, capability)]

\* No call of the adapter carries more than one request, one compute batch and the
\* device's memory allow, also after halvings and retries; what is too large for
\* any batch goes alone.  And no item takes part in more calls than the retries of the
\* most generous class and one for each halving.
CallsFitTheBudget ==
    /\ \A f \in InProgress : Fits(job.items, f.lo, f.hi, job.capability)
    /\ CallsAreBounded

-----------------------------------------------------------------------------
(* What makes CallsFitTheBudget inductive (the proof is in InferenceProofs), *)
(* for plans made of staged files.                                           *)

StagedFile == [image : BOOLEAN, bytes : Nat, pixels : Nat]

ArePlanned ==
    \A p \in Plans : \E files \in [Items -> StagedFile], realBatch \in BOOLEAN, perItemVram \in Nat :
        p = PlanOf(files, Capability(realBatch, perItemVram))

\* A batch that is the result of h halvings has earned its retries and h calls.
Earned(f, n) == \E h \in 0 .. Halvings : Size(f) <= Halved[h] /\ n <= f.attempt + h

BudgetInv ==
    /\ job \in Plans /\ calls \in [Items -> Nat]
    /\ \A k \in DOMAIN todo : Fits(job.items, todo[k].lo, todo[k].hi, job.capability)
    /\ \A f \in Begun : Fits(job.items, f.lo, f.hi, job.capability) /\ f.attempt <= MaxRetries
    /\ \A f \in frames : \A i \in Span(f) : Earned(f, calls[i])
    /\ \A f \in InProgress : \A i \in Span(f) : call.at = "waiting" => Earned(f, calls[i] - 1)
    /\ CallsAreBounded

=============================================================================
