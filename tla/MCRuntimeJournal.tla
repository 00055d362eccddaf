-------------------------- MODULE MCRuntimeJournal --------------------------
(* What is told of runtime operations: the journal of one operation of a   *)
(* few events, compacted; and the status of the runtime, told by one       *)
(* thread while something goes wrong or the service drains, or by two      *)
(* while neither does.                                                     *)
EXTENDS RuntimeStatus, RuntimeJournal, TLC

VARIABLE scene \* what this behaviour is about

First == CHOOSE q \in Pollers : TRUE

MCInit ==
  /\ JournalInit /\ StatusInit
  /\ scene \in {"journal", "one poller", "two pollers"}
  /\ scene = "journal" => active = Nothing

InJournal ==
  /\ scene = "journal" /\ JournalNext
  /\ UNCHANGED <<scene, vars, telling>>

InStatus ==
  /\ scene # "journal" /\ StatusNext
  /\ IF scene = "two pollers" THEN UNCHANGED <<mishaps, draining>>
     ELSE /\ draining' => mishaps' = 0
          /\ \A q \in Pollers \ {First} : poll'[q].pc = "idle"
  /\ UNCHANGED <<scene, journal>>

MCNext == InJournal \/ InStatus

MCSpec == MCInit /\ [][MCNext]_<<scene, vars, telling, journal>>
=============================================================================
