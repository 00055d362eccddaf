--------------------------- MODULE MCJobLifecycle ---------------------------
(***************************************************************************)
(* JobLifecycle on small instances: two contract tables between which the  *)
(* open pairs of TableAssumption range, and symmetry in the jobs.  *)
(***************************************************************************)
EXTENDS JobLifecycle, TLC

\* What the code and its tests establish, and a job whose cancel was requested may
\* still finish or fail.
WideTable ==
    KnownTransitions \cup
    {<<"cancel_requested", t>> : t \in {"completed", "completed_with_errors", "failed"}}

JobSymmetry == Permutations(Jobs)
=============================================================================
