------------------------------ MODULE JobTable ------------------------------
(***************************************************************************)
(* The vocabulary of a job: the states of a job and of its items, and the  *)
(* transition table that assert_job_transition consults.  The table itself *)
(* lives in the vibeocr.runtime_contracts package, outside this            *)
(* repository, so it is a constant here; TableAssumption says what the     *)
(* registry, the executor and their tests establish about it and leaves    *)
(* every other pair open.                                                  *)
(***************************************************************************)
EXTENDS Naturals, FiniteSets

CONSTANTS
    Jobs,            \* the job ids the supervisor may hand out
    Items,           \* the input files a job may consist of
    JobTransitions,  \* the pairs <<from, to>> the contract table allows
    NoJob            \* an id that is no job

OpenJobStates == {"accepted", "queued", "running", "cancel_requested"}
TerminalJobStates == {"completed", "completed_with_errors", "failed", "cancelled"}
JobStates == OpenJobStates \cup TerminalJobStates

OpenItemStates == {"queued", "running"}
TerminalItemStates == {"succeeded", "failed", "cancelled"}
ItemStates == OpenItemStates \cup TerminalItemStates

\* The pairs the code relies on and the tests exercise.
KnownTransitions ==
    {<<"accepted", "queued">>, <<"queued", "running">>, <<"queued", "cancelled">>,
     <<"queued", "failed">>, <<"queued", "cancel_requested">>,
     <<"running", "completed">>, <<"running", "completed_with_errors">>,
     <<"running", "failed">>, <<"running", "cancel_requested">>,
     <<"cancel_requested", "cancelled">>}

\* The pairs the tests show to be refused.
RefusedTransitions ==
    {<<"accepted", "cancel_requested">>, <<"running", "cancelled">>}

ASSUME TableAssumption ==
    /\ JobTransitions \subseteq OpenJobStates \X JobStates
    /\ KnownTransitions \subseteq JobTransitions
    /\ JobTransitions \cap RefusedTransitions = {}

ASSUME IdsAssumption == NoJob \notin Jobs /\ IsFiniteSet(Items)
=============================================================================
