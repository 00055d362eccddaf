------------------------- MODULE JobLifecycleProofs -------------------------
(***************************************************************************)
(* Theorems of JobLifecycle for any jobs, items, threads and any contract  *)
(* table that satisfies TableAssumption.                                   *)
(***************************************************************************)
EXTENDS JobLifecycle, FiniteSetTheorems, TLAPS

USE DEF NoThread, recordVars, execVars, cancelVars, retryVars, deleteVars, moduleVars

LEMMA CardItems ==
    ASSUME NEW S \in SUBSET Items
    PROVE  Cardinality(S) \in Nat
  BY IdsAssumption, FS_Subset, FS_CardinalityType

\* CommitAll keeps the types of the three variables it writes.
LEMMA CommitAllType ==
    ASSUME TypeOK, NEW j \in Jobs, NEW S \in SUBSET Items,
           NEW target \in TerminalItemStates, CommitAll(j, S, target)
    PROVE  /\ item' \in [Jobs -> [Items -> ItemStates \cup {"none"}]]
           /\ outcomes' \in [Jobs -> [Items -> Nat]]
           /\ progress' \in [Jobs -> Nat]
  <1>1. item' \in [Jobs -> [Items -> ItemStates \cup {"none"}]]
    BY DEF TypeOK, CommitAll, ItemStates
  <1>2. outcomes' \in [Jobs -> [Items -> Nat]]
    BY DEF TypeOK, CommitAll
  <1>3. Cardinality(S) \in Nat /\ Cardinality(ItemsOf(j)) \in Nat
    BY CardItems DEF ItemsOf
  <1>4. progress' \in [Jobs -> Nat]
    BY <1>3, SMTT(30) DEF TypeOK, CommitAll, Min2
  <1>5. QED
    BY <1>1, <1>2, <1>4

LEMMA ExecType ==
    ASSUME TypeOK, NEW j \in Jobs, ExecStep(j)
    PROVE  TypeOK'
  <1> UNCHANGED <<cancelVars, retryVars, deleteVars, moduleVars>>
    BY DEF ExecStep
  <1>L. ASSUME NEW pc \in ExecPcs, Look(j, pc) PROVE TypeOK'
    BY <1>L DEF Look, Goto, TypeOK
  <1>M. ASSUME NEW t \in JobStates, NEW pc \in ExecPcs, Move(j, t, pc) PROVE TypeOK'
    <2>1. /\ state' \in [Jobs -> JobStates \cup {"absent"}]
          /\ epc' \in [Jobs -> ExecPcs]
      <3>1. CASE CanTransition(state[j], t)
        BY <1>M, <3>1 DEF Move, Goto, TypeOK
      <3>2. CASE ~CanTransition(state[j], t)
        BY <1>M, <3>2 DEF Move, Goto, TypeOK, ExecPcs
      <3>3. QED
        BY <3>1, <3>2
    <2>2. UNCHANGED <<item, outcomes, progress, cancelAt, source, purged, staged,
                      todo, cur, got, holder>>
      BY <1>M DEF Move
    <2>3. QED
      BY <2>1, <2>2 DEF TypeOK
  <1>C. ASSUME NEW S \in SUBSET Items, NEW target \in TerminalItemStates,
               CommitAll(j, S, target), NEW pc \in ExecPcs, Goto(j, pc),
               got' \in [Jobs -> SUBSET Items],
               UNCHANGED <<state, cancelAt, source, purged, staged, todo, cur, holder>>
        PROVE  TypeOK'
    <2>1. /\ item' \in [Jobs -> [Items -> ItemStates \cup {"none"}]]
          /\ outcomes' \in [Jobs -> [Items -> Nat]]
          /\ progress' \in [Jobs -> Nat]
      BY <1>C, CommitAllType
    <2>2. epc' \in [Jobs -> ExecPcs]
      BY <1>C DEF Goto, TypeOK
    <2>3. QED
      BY <1>C, <2>1, <2>2 DEF TypeOK
  <1> USE DEF TypeOK, Goto, ExecPcs
  <1>1. CASE ExecEnter(j)
    BY <1>1, <1>L DEF ExecEnter
  <1>2. CASE ExecReadQueued(j)
    BY <1>2, <1>L DEF ExecReadQueued
  <1>3. CASE ExecRun(j)
    BY <1>3, <1>M DEF ExecRun, JobStates, OpenJobStates
  <1>4. CASE ExecReadCancel(j)
    BY <1>4, <1>L DEF ExecReadCancel
  <1>5. CASE ExecCancelAtStart(j)
    BY <1>5, <1>M DEF ExecCancelAtStart, JobStates, TerminalJobStates
  <1>6. CASE ExecPlan(j)
    BY <1>6, <1>L DEF ExecPlan
  <1>7. CASE ExecLoop(j)
    BY <1>7, <1>L DEF ExecLoop
  <1>8. ASSUME NEW C \in SUBSET Items, ExecAcquire(j, C) PROVE TypeOK'
    BY <1>8 DEF ExecAcquire
  <1>9. CASE ExecAcquireCancelled(j)
    BY <1>9, <1>L DEF ExecAcquireCancelled
  <1>10. ASSUME NEW S \in SUBSET Items, ExecCall(j, S) PROVE TypeOK'
    BY <1>10 DEF ExecCall
  <1>11. CASE ExecAbandon(j)
    BY <1>11, SMTT(30) DEF ExecAbandon
  <1>12. CASE ExecFailItems(j)
    BY <1>12, <1>C, ZenonT(60) DEF ExecFailItems, TerminalItemStates
  <1>13. CASE ExecNextPayload(j)
    <2>1. UNCHANGED <<recordVars, todo, cur, holder>>
      BY <1>13 DEF ExecNextPayload
    <2>2. CASE got[j] = {} \/ cancelAt[j]
      <3>1. got' = [got EXCEPT ![j] = {}] /\ epc' = [epc EXCEPT ![j] = "infer"]
        BY <1>13, <2>2 DEF ExecNextPayload
      <3>2. QED
        BY <2>1, <3>1
    <2>3. CASE ~(got[j] = {} \/ cancelAt[j])
      <3>1. got' = got /\ epc' = [epc EXCEPT ![j] = "committing"]
        BY <1>13, <2>3, SMTT(30) DEF ExecNextPayload
      <3>2. QED
        BY <2>1, <3>1
    <2>4. QED
      BY <2>2, <2>3
  <1>14. ASSUME NEW i \in Items, NEW t \in {"succeeded", "failed"}, ExecCommit(j, i, t)
         PROVE  TypeOK'
    BY <1>14, <1>C, ZenonT(60) DEF ExecCommit, TerminalItemStates
  <1>15. CASE ExecRelease(j)
    BY <1>15 DEF ExecRelease, ReleaseLease
  <1>16. CASE ExecFinalCancel(j)
    BY <1>16, <1>C, ZenonT(60) DEF ExecFinalCancel, CancelOpenItems, ItemsIn, TerminalItemStates
  <1>17. CASE ExecFinal(j)
    BY <1>17, <1>L DEF ExecFinal
  <1>18. CASE ExecCancelRequested(j)
    BY <1>18, <1>M DEF ExecCancelRequested, JobStates, OpenJobStates
  <1>19. CASE ExecCancelled(j)
    BY <1>19, <1>M DEF ExecCancelled, JobStates, TerminalJobStates
  <1>20. CASE ExecFinish(j)
    BY <1>20, <1>M DEF ExecFinish, Verdict, JobStates, TerminalJobStates
  <1>21. CASE ExecRaised(j)
    BY <1>21 DEF ExecRaised, JobStates, TerminalJobStates
  <1>22. QED
    BY <1>1, <1>2, <1>3, <1>4, <1>5, <1>6, <1>7, <1>8, <1>9, <1>10, <1>11, <1>12,
       <1>13, <1>14, <1>15, <1>16, <1>17, <1>18, <1>19, <1>20, <1>21 DEF ExecStep

LEMMA CancelType ==
    ASSUME TypeOK, CancelStep
    PROVE  TypeOK'
  <1> USE DEF TypeOK, CancelReturn, Threads
  <1> UNCHANGED <<execVars, retryVars, deleteVars, draining, maintenance, preloads>>
    BY DEF CancelStep
  <1>1. ASSUME NEW c \in Cancellers, NEW j \in Jobs, CancelBegin(c, j) PROVE TypeOK'
    BY <1>1 DEF CancelBegin, CancelModeFor
  <1>2. ASSUME NEW c \in Threads, CancelMark(c) PROVE TypeOK'
    <2>1. CASE purged[cjob[c]] \/ Terminal(cjob[c])
      BY ZenonT(40), <1>2, <2>1 DEF CancelMark
    <2>2. CASE ~(purged[cjob[c]] \/ Terminal(cjob[c]))
      <3>1. /\ cancelAt' = [cancelAt EXCEPT ![cjob[c]] = TRUE]
            /\ rlock' = c /\ cpc' = [cpc EXCEPT ![c] = "marked"]
            /\ UNCHANGED <<state, item, outcomes, progress, source, purged, staged,
                           drainTodo, cjob, cmode>>
        BY <1>2, <2>2 DEF CancelMark
      <3>2. QED
        BY ZenonT(40), <3>1
    <2>3. QED
      BY <2>1, <2>2
  <1>3. ASSUME NEW c \in Threads, CancelLook(c) PROVE TypeOK'
    BY <1>3 DEF CancelLook
  <1>4. ASSUME NEW c \in Threads, CancelMove(c) PROVE TypeOK'
    BY ZenonT(40), <1>4 DEF CancelMove, JobStates, OpenJobStates, TerminalJobStates
  <1>5. ASSUME NEW j \in Jobs, DrainVisit(j) PROVE TypeOK'
    BY <1>5 DEF DrainVisit
  <1>6. QED
    BY <1>1, <1>2, <1>3, <1>4, <1>5 DEF CancelStep

LEMMA ModuleType ==
    ASSUME TypeOK, ModuleStep
    PROVE  TypeOK'
  <1> USE DEF TypeOK
  <1>1. ASSUME NEW j \in Jobs, NEW S \in SUBSET Items, NEW B \in SUBSET Items,
               Submit(j, S, B)
        PROVE  TypeOK'
    <2>1. Cardinality(B) \in Nat
      BY CardItems
    <2>2. /\ state' \in [Jobs -> JobStates \cup {"absent"}]
          /\ epc' \in [Jobs -> ExecPcs]
          /\ progress' \in [Jobs -> Nat]
      BY <1>1, <2>1 DEF Submit, AdmissionProgress, JobStates, OpenJobStates, ExecPcs
    <2>3. /\ item' \in [Jobs -> [Items -> ItemStates \cup {"none"}]]
          /\ outcomes' \in [Jobs -> [Items -> Nat]]
      BY <1>1 DEF Submit, ItemStates, OpenItemStates, TerminalItemStates
    <2>4. /\ staged' \in [Jobs -> SUBSET Items]
          /\ todo' \in [Jobs -> SUBSET Items]
      BY <1>1 DEF Submit
    <2>5. QED
      BY <1>1, <2>2, <2>3, <2>4 DEF Submit
  <1>2. ASSUME NEW s \in Jobs, RetryBegin(s) PROVE TypeOK'
    BY <1>2 DEF RetryBegin
  <1>3. ASSUME NEW n \in Jobs, RetryCreate(n) PROVE TypeOK'
    BY <1>3 DEF RetryCreate, JobStates, OpenJobStates, ItemStates, OpenItemStates
  <1>4. CASE RetryClone
    BY <1>4 DEF RetryClone, ItemsOf, JobStates, OpenJobStates, ExecPcs
  <1>5. CASE RetryFail
    BY <1>5 DEF RetryFail
  <1>6. ASSUME NEW j \in Jobs, DeleteRelease(j) PROVE TypeOK'
    BY <1>6 DEF DeleteRelease
  <1>7. CASE DeletePurge
    BY <1>7 DEF DeletePurge, Terminal
  <1>8. CASE DrainBegin
    BY <1>8 DEF DrainBegin
  <1>9. CASE MaintenanceBegin
    BY <1>9 DEF MaintenanceBegin
  <1>10. CASE MaintenanceEnd
    BY ZenonT(40), <1>10 DEF MaintenanceEnd
  <1>11. CASE PreloadBegin
    BY <1>11 DEF PreloadBegin
  <1>12. CASE PreloadEnd
    BY <1>12 DEF PreloadEnd, PreloadHeld
  <1>13. QED
    BY <1>1, <1>2, <1>3, <1>4, <1>5, <1>6, <1>7, <1>8, <1>9, <1>10, <1>11, <1>12
       DEF ModuleStep

LEMMA InitType ==
    ASSUME Init
    PROVE  TypeOK
  <1>1. /\ outcomes \in [Jobs -> [Items -> Nat]]
        /\ item \in [Jobs -> [Items -> ItemStates \cup {"none"}]]
    BY DEF Init
  <1>2. /\ cpc \in [Threads -> {"idle", "request", "marked", "moving"}]
        /\ cjob \in [Threads -> Jobs \cup {NoJob}]
        /\ cmode \in [Threads -> {"queued_only", "cooperative"}]
    BY DEF Init
  <1>3. QED
    BY <1>1, <1>2 DEF Init, TypeOK, ExecPcs

\* Every variable keeps its type.
THEOREM TypeCorrect == Spec => []TypeOK
  <1>1. Init => TypeOK
    BY InitType
  <1>2. TypeOK /\ [Next]_vars => TypeOK'
    <2> SUFFICES ASSUME TypeOK, [Next]_vars PROVE TypeOK'
      OBVIOUS
    <2>1. CASE UNCHANGED vars
      BY <2>1 DEF vars, TypeOK
    <2>2. QED
      BY <2>1, ExecType, CancelType, ModuleType DEF Next
  <1>3. QED
    BY <1>1, <1>2, PTL DEF Spec

-----------------------------------------------------------------------------
(* How one step changes job states and items.                                *)

\* The contract table never leaves a terminal state nor starts from no job.
LEMMA TableLeavesOpenOnly ==
    ASSUME NEW a, NEW b, CanTransition(a, b)
    PROVE  a \in OpenJobStates /\ b \in JobStates
  BY TableAssumption DEF CanTransition

\* In one step an item of job j keeps its state and outcomes, or goes from open to
\* terminal with one outcome more.
ItemsAdvance(j) ==
    \A i \in Items :
      \/ item'[j][i] = item[j][i] /\ outcomes'[j][i] = outcomes[j][i]
      \/ /\ item[j][i] \in OpenItemStates
         /\ item'[j][i] \in TerminalItemStates
         /\ outcomes'[j][i] = outcomes[j][i] + 1

LEMMA CommitAdvances ==
    ASSUME TypeOK, NEW j \in Jobs, NEW S \in SUBSET Items,
           NEW target \in TerminalItemStates, CommitAll(j, S, target),
           \A i \in S : item[j][i] \in OpenItemStates
    PROVE  /\ ItemsAdvance(j)
           /\ \A k \in Jobs \ {j} : item'[k] = item[k] /\ outcomes'[k] = outcomes[k]
           /\ \A i \in Items : i \notin S => item'[j][i] = item[j][i]
  BY DEF TypeOK, CommitAll, ItemsAdvance

\* What a step of worker thread j may touch.
ExecTouches(j) ==
    /\ UNCHANGED <<source, purged, staged, cancelAt,
                   cancelVars, retryVars, deleteVars, moduleVars>>
    /\ epc[j] # "none" /\ epc'[j] # "none"
    /\ state'[j] = state[j] \/ CanTransition(state[j], state'[j])
    /\ \A k \in Jobs \ {j} :
         /\ state'[k] = state[k] /\ epc'[k] = epc[k]
         /\ todo'[k] = todo[k] /\ cur'[k] = cur[k] /\ got'[k] = got[k]
         /\ item'[k] = item[k] /\ outcomes'[k] = outcomes[k]
    /\ ItemsAdvance(j)

\* The part of WorkIsQueued about one job.
WorkOf(j) ==
    /\ epc[j] \in ExecPcs \ {"toCancelReq", "toCancelled", "finish", "raised", "done"} =>
         \A i \in todo[j] \cup cur[j] \cup got[j] : item[j][i] = "queued"
    /\ epc[j] = "none" => todo[j] = {} /\ cur[j] = {} /\ got[j] = {}
    /\ todo[j] \cap cur[j] = {} /\ todo[j] \cap got[j] = {} /\ cur[j] \cap got[j] = {}

LEMMA ExecShape ==
    ASSUME TypeOK, WorkIsQueued, NEW j \in Jobs, ExecStep(j)
    PROVE  ExecTouches(j) /\ WorkOf(j)'
  <1> DEFINE Good == ExecTouches(j) /\ WorkOf(j)'
  <1>0. WorkOf(j) /\ UNCHANGED <<cancelVars, retryVars, deleteVars, moduleVars>>
    BY DEF ExecStep, WorkIsQueued, WorkOf
  <1>L. ASSUME NEW pc \in ExecPcs \ {"none"}, Look(j, pc),
               epc[j] \in ExecPcs \ {"none", "toCancelReq", "toCancelled", "finish", "raised", "done"}
        PROVE  Good
    BY <1>0, <1>L DEF Look, Goto, TypeOK, WorkOf, ExecTouches, ItemsAdvance, ExecPcs
  <1>M. ASSUME NEW t \in JobStates, NEW pc \in ExecPcs \ {"none"}, Move(j, t, pc),
               epc[j] \in ExecPcs \ {"none"},
               epc[j] \in {"toCancelReq", "toCancelled", "finish", "raised", "done"} =>
                 pc \in {"toCancelReq", "toCancelled", "finish", "raised", "done"}
        PROVE  Good
    <2>1. /\ state'[j] = state[j] \/ CanTransition(state[j], state'[j])
          /\ \A k \in Jobs \ {j} : state'[k] = state[k] /\ epc'[k] = epc[k]
          /\ epc'[j] \in {pc, "raised"}
      BY <1>M DEF Move, Goto, TypeOK
    <2>2. UNCHANGED <<item, outcomes, source, purged, staged, cancelAt, todo, cur, got>>
      BY <1>M DEF Move
    <2>3. WorkOf(j)'
      BY <1>0, <1>M, <2>1, <2>2 DEF WorkOf, ExecPcs
    <2>4. ExecTouches(j)
      BY <1>0, <1>M, <2>1, <2>2 DEF ExecTouches, ItemsAdvance, ExecPcs
    <2>5. QED
      BY <2>3, <2>4
  <1>1. CASE ExecEnter(j) \/ ExecReadQueued(j) \/ ExecReadCancel(j) \/ ExecPlan(j)
    BY <1>1, <1>L DEF ExecEnter, ExecReadQueued, ExecReadCancel, ExecPlan, ExecPcs
  <1>2. CASE ExecLoop(j) \/ ExecAcquireCancelled(j) \/ ExecFinal(j)
    BY <1>2, <1>L DEF ExecLoop, ExecAcquireCancelled, ExecFinal, ExecPcs
  <1>3. CASE ExecRun(j) \/ ExecCancelAtStart(j)
    BY <1>3, <1>M DEF ExecRun, ExecCancelAtStart, ExecPcs,
                      JobStates, OpenJobStates, TerminalJobStates
  <1>4. CASE ExecCancelRequested(j) \/ ExecCancelled(j) \/ ExecFinish(j)
    BY <1>4, <1>M DEF ExecCancelRequested, ExecCancelled, ExecFinish, Verdict, ExecPcs,
                      JobStates, OpenJobStates, TerminalJobStates
  <1>5. ASSUME NEW C \in SUBSET Items, ExecAcquire(j, C) PROVE Good
    BY <1>0, <1>5 DEF ExecAcquire, Goto, TypeOK, WorkOf, ExecTouches, ItemsAdvance, ExecPcs
  <1>6. ASSUME NEW S \in SUBSET Items, ExecCall(j, S) PROVE Good
    BY <1>0, <1>6 DEF ExecCall, Goto, TypeOK, WorkOf, ExecTouches, ItemsAdvance, ExecPcs
  <1>7. CASE ExecAbandon(j) \/ ExecNextPayload(j)
    BY <1>0, <1>7 DEF ExecAbandon, ExecNextPayload, Goto, TypeOK, WorkOf, ExecTouches,
                      ItemsAdvance, ExecPcs
  <1>8. CASE ExecRelease(j)
    BY <1>0, <1>8 DEF ExecRelease, ReleaseLease, Goto, TypeOK, WorkOf, ExecTouches,
                      ItemsAdvance, ExecPcs
  <1>9. CASE ExecRaised(j)
    BY <1>0, <1>9 DEF ExecRaised, Goto, TypeOK, WorkOf, ExecTouches, ItemsAdvance, ExecPcs
  <1>10. CASE ExecFailItems(j)
    <2> DEFINE S == {i \in got[j] : item[j][i] \in OpenItemStates}
    <2>1. S \in SUBSET Items /\ CommitAll(j, S, "failed") /\ "failed" \in TerminalItemStates
      BY <1>10 DEF ExecFailItems, TypeOK, TerminalItemStates
    <2>2. /\ ItemsAdvance(j)
          /\ \A k \in Jobs \ {j} : item'[k] = item[k] /\ outcomes'[k] = outcomes[k]
          /\ \A i \in Items : i \notin S => item'[j][i] = item[j][i]
      BY <2>1, CommitAdvances
    <2> HIDE DEF S
    <2>3. S \subseteq got[j]
      BY DEF S
    <2>4. QED
      BY <1>0, <1>10, <2>2, <2>3
         DEF ExecFailItems, Goto, TypeOK, WorkOf, ExecTouches, ExecPcs
  <1>11. ASSUME NEW i \in Items, NEW t \in {"succeeded", "failed"}, ExecCommit(j, i, t)
         PROVE  Good
    <2>1. {i} \in SUBSET Items /\ t \in TerminalItemStates /\ i \in got[j]
          /\ item[j][i] \in OpenItemStates
      BY <1>0, <1>11 DEF ExecCommit, WorkOf, TerminalItemStates, OpenItemStates, ExecPcs
    <2>2. CommitAll(j, {i}, t)
      BY <1>11 DEF ExecCommit
    <2>3. /\ ItemsAdvance(j)
          /\ \A k \in Jobs \ {j} : item'[k] = item[k] /\ outcomes'[k] = outcomes[k]
          /\ \A x \in Items : x # i => item'[j][x] = item[j][x]
      BY <2>1, <2>2, CommitAdvances
    <2>4. QED
      BY <1>0, <1>11, <2>1, <2>3 DEF ExecCommit, Goto, TypeOK, WorkOf, ExecTouches, ExecPcs
  <1>12. CASE ExecFinalCancel(j)
    <2> DEFINE S == ItemsIn(j, OpenItemStates)
    <2>1. S \in SUBSET Items /\ CommitAll(j, S, "cancelled") /\ "cancelled" \in TerminalItemStates
          /\ \A i \in S : item[j][i] \in OpenItemStates
      BY <1>12 DEF ExecFinalCancel, CancelOpenItems, ItemsIn, TerminalItemStates
    <2>2. /\ ItemsAdvance(j)
          /\ \A k \in Jobs \ {j} : item'[k] = item[k] /\ outcomes'[k] = outcomes[k]
      BY <2>1, CommitAdvances
    <2>3. QED
      BY <1>0, <1>12, <2>2 DEF ExecFinalCancel, Goto, TypeOK, WorkOf, ExecTouches, ExecPcs
  <1>13. QED
    BY <1>1, <1>2, <1>3, <1>4, <1>5, <1>6, <1>7, <1>8, <1>9, <1>10, <1>11, <1>12
       DEF ExecStep

\* Every job moves along the table or stays, and its items advance.
JobsAdvance ==
    \A k \in Jobs :
      /\ state'[k] = state[k] \/ CanTransition(state[k], state'[k])
      /\ ItemsAdvance(k)

LEMMA AdvanceKeepsFinal ==
    ASSUME TypeOK, JobsAdvance, NEW k \in Jobs
    PROVE  /\ Terminal(k) => state'[k] = state[k]
           /\ state'[k] \in OpenJobStates => state[k] \in OpenJobStates
           /\ state'[k] = "absent" <=> state[k] = "absent"
           /\ \A i \in Items : item[k][i] \in TerminalItemStates => item'[k][i] = item[k][i]
           /\ \A i \in Items : item'[k][i] = "none" <=> item[k][i] = "none"
  <1>1. /\ Terminal(k) => state'[k] = state[k]
        /\ state'[k] \in OpenJobStates => state[k] \in OpenJobStates
        /\ state'[k] = "absent" <=> state[k] = "absent"
    BY TableLeavesOpenOnly
       DEF TypeOK, JobsAdvance, Terminal, JobStates, OpenJobStates, TerminalJobStates
  <1>2. /\ \A i \in Items : item[k][i] \in TerminalItemStates => item'[k][i] = item[k][i]
        /\ \A i \in Items : item'[k][i] = "none" <=> item[k][i] = "none"
    BY DEF JobsAdvance, ItemsAdvance, OpenItemStates, TerminalItemStates
  <1>3. QED
    BY <1>1, <1>2

\* Three of the properties survive any such step.
LEMMA AdvanceKeepsProperties ==
    ASSUME TypeOK, JobsAdvance, UNCHANGED <<source, maintenance, preloads>>,
           OneOutcomePerItem, MaintenanceExcludesWork, RetryOfUnsuccessfulItems
    PROVE  OneOutcomePerItem' /\ MaintenanceExcludesWork' /\ RetryOfUnsuccessfulItems'
  <1>1. OneOutcomePerItem'
    BY DEF OneOutcomePerItem, JobsAdvance, ItemsAdvance, OpenItemStates, TerminalItemStates
  <1>2. MaintenanceExcludesWork'
    BY AdvanceKeepsFinal DEF MaintenanceExcludesWork, Open
  <1>3. RetryOfUnsuccessfulItems'
    <2> SUFFICES ASSUME NEW n \in Jobs, source[n] # NoJob
                 PROVE  /\ Terminal(source[n])'
                        /\ (ItemsOf(n) \subseteq ItemsIn(source[n], {"failed", "cancelled"}))'
      BY DEF RetryOfUnsuccessfulItems
    <2>1. source[n] \in Jobs /\ Terminal(source[n])
          /\ ItemsOf(n) \subseteq ItemsIn(source[n], {"failed", "cancelled"})
      BY DEF RetryOfUnsuccessfulItems, TypeOK
    <2>2. Terminal(source[n])'
      BY <2>1, AdvanceKeepsFinal DEF Terminal
    <2>3. \A i \in Items : item'[n][i] = "none" <=> item[n][i] = "none"
      BY AdvanceKeepsFinal
    <2>4. \A i \in Items : item[source[n]][i] \in {"failed", "cancelled"} =>
                             item'[source[n]][i] = item[source[n]][i]
      BY <2>1, AdvanceKeepsFinal DEF TerminalItemStates
    <2>5. QED
      BY <2>1, <2>2, <2>3, <2>4 DEF ItemsOf, ItemsIn
  <1>4. QED
    BY <1>1, <1>2, <1>3

-----------------------------------------------------------------------------
(* The invariant, group of actions by group of actions.                      *)

LEMMA ExecKeepsIInv ==
    ASSUME IInv, NEW j \in Jobs, ExecStep(j)
    PROVE  IInv'
  <1>1. TypeOK /\ WorkIsQueued /\ UnbornJobs /\ RetryChecksHold
        /\ OneOutcomePerItem /\ MaintenanceExcludesWork /\ RetryOfUnsuccessfulItems
    BY DEF IInv
  <1>2. ExecTouches(j) /\ WorkOf(j)'
    BY <1>1, ExecShape
  <1>3. JobsAdvance
    BY <1>2 DEF ExecTouches, JobsAdvance, ItemsAdvance
  <1>4. TypeOK'
    BY <1>1, ExecType
  <1>5. OneOutcomePerItem' /\ MaintenanceExcludesWork' /\ RetryOfUnsuccessfulItems'
    BY <1>1, <1>2, <1>3, AdvanceKeepsProperties DEF ExecTouches
  <1>6. UnbornJobs'
    BY <1>1, <1>2, <1>3, AdvanceKeepsFinal DEF UnbornJobs, ExecTouches
  <1>7. WorkIsQueued'
    BY <1>1, <1>2 DEF WorkIsQueued, WorkOf, ExecTouches
  <1>8. RetryChecksHold'
    <2>1. UNCHANGED <<rpc, rsrc, rjob, maintenance>> /\ epc[j] # "none"
      BY <1>2 DEF ExecTouches
    <2>2. rpc # "idle" => Terminal(rsrc)'
      BY <1>1, <1>3, <2>1, AdvanceKeepsFinal DEF RetryChecksHold, Terminal
    <2>3. rpc = "created" => state'[rjob] = state[rjob] /\ epc'[rjob] = epc[rjob]
                              /\ item'[rjob] = item[rjob]
      BY <1>1, <1>2, <2>1 DEF RetryChecksHold, ExecTouches
    <2>4. QED
      BY <1>1, <2>1, <2>2, <2>3 DEF RetryChecksHold, ItemsOf
  <1>9. QED
    BY <1>4, <1>5, <1>6, <1>7, <1>8 DEF IInv

LEMMA CancelKeepsIInv ==
    ASSUME IInv, CancelStep
    PROVE  IInv'
  <1>1. TypeOK /\ WorkIsQueued /\ UnbornJobs /\ RetryChecksHold
        /\ OneOutcomePerItem /\ MaintenanceExcludesWork /\ RetryOfUnsuccessfulItems
    BY DEF IInv
  <1>2. /\ UNCHANGED <<execVars, retryVars, maintenance, preloads, item, outcomes, source>>
        /\ \A k \in Jobs : state'[k] = state[k] \/ CanTransition(state[k], state'[k])
    BY <1>1 DEF CancelStep, CancelBegin, CancelMark, CancelLook, CancelMove, DrainVisit, TypeOK
  <1>3. JobsAdvance
    BY <1>2 DEF JobsAdvance, ItemsAdvance
  <1>4. TypeOK'
    BY <1>1, CancelType
  <1>5. OneOutcomePerItem' /\ MaintenanceExcludesWork' /\ RetryOfUnsuccessfulItems'
    BY <1>1, <1>2, <1>3, AdvanceKeepsProperties
  <1>6. UnbornJobs' /\ WorkIsQueued'
    BY <1>1, <1>2, <1>3, AdvanceKeepsFinal DEF UnbornJobs, WorkIsQueued
  <1>7. RetryChecksHold'
    BY <1>1, <1>2, <1>3, AdvanceKeepsFinal DEF RetryChecksHold, Terminal, ItemsOf
  <1>8. QED
    BY <1>4, <1>5, <1>6, <1>7 DEF IInv

\* The module operations that neither create nor move a job.
LEMMA QuietKeepsIInv ==
    ASSUME IInv, TypeOK', UNCHANGED <<state, item, outcomes, source, execVars>>,
           maintenance' => preloads' = 0 /\ \A j \in Jobs : ~Open(j),
           rpc' = "checked" => ~maintenance' /\ rsrc' \in Jobs /\ Terminal(rsrc'),
           rpc' = "created" => rpc = "created" /\ UNCHANGED <<rsrc, rjob, maintenance>>
    PROVE  IInv'
  <1>1. TypeOK /\ WorkIsQueued /\ UnbornJobs /\ RetryChecksHold
        /\ OneOutcomePerItem /\ MaintenanceExcludesWork /\ RetryOfUnsuccessfulItems
    BY DEF IInv
  <1>2. UnbornJobs' /\ WorkIsQueued' /\ OneOutcomePerItem'
    BY <1>1 DEF UnbornJobs, WorkIsQueued, OneOutcomePerItem
  <1>3. RetryOfUnsuccessfulItems'
    BY <1>1 DEF RetryOfUnsuccessfulItems, Terminal, ItemsOf, ItemsIn
  <1>4. MaintenanceExcludesWork'
    BY DEF MaintenanceExcludesWork, Open
  <1>5. RetryChecksHold'
    BY <1>1 DEF RetryChecksHold, Terminal, ItemsOf, TypeOK
  <1>6. QED
    BY <1>2, <1>3, <1>4, <1>5 DEF IInv

\* Submit and RetryCreate give an unused id its record.
LEMMA CreationKeepsProperties ==
    ASSUME IInv, NEW j \in Jobs, state[j] = "absent", ~maintenance,
           state'[j] \in OpenJobStates,
           \A k \in Jobs \ {j} : /\ state'[k] = state[k] /\ item'[k] = item[k]
                                 /\ outcomes'[k] = outcomes[k] /\ source'[k] = source[k]
                                 /\ epc'[k] = epc[k],
           \A i \in Items : outcomes'[j][i] = IF item'[j][i] \in TerminalItemStates THEN 1 ELSE 0,
           source'[j] # NoJob =>
             /\ source'[j] \in Jobs /\ Terminal(source'[j])
             /\ \A i \in Items : item'[j][i] # "none" => item[source'[j]][i] \in {"failed", "cancelled"},
           UNCHANGED <<maintenance, preloads>>
    PROVE  /\ UnbornJobs' /\ OneOutcomePerItem' /\ MaintenanceExcludesWork'
           /\ RetryOfUnsuccessfulItems'
  <1>1. TypeOK /\ UnbornJobs /\ OneOutcomePerItem /\ RetryOfUnsuccessfulItems
    BY DEF IInv
  <1>2. UnbornJobs'
    BY <1>1 DEF UnbornJobs, OpenJobStates
  <1>3. OneOutcomePerItem'
    BY <1>1 DEF OneOutcomePerItem
  <1>4. MaintenanceExcludesWork'
    BY DEF MaintenanceExcludesWork
  <1>5. RetryOfUnsuccessfulItems'
    <2> SUFFICES ASSUME NEW n \in Jobs, source'[n] # NoJob
                 PROVE  /\ Terminal(source[n])'
                        /\ (ItemsOf(n) \subseteq ItemsIn(source[n], {"failed", "cancelled"}))'
      BY DEF RetryOfUnsuccessfulItems
    <2>1. /\ source'[n] \in Jobs /\ Terminal(source'[n])
          /\ \A i \in Items : item'[n][i] # "none" => item[source'[n]][i] \in {"failed", "cancelled"}
      <3>1. CASE n = j
        BY <3>1
      <3>2. CASE n # j
        BY <1>1, <3>2 DEF RetryOfUnsuccessfulItems, ItemsOf, ItemsIn, TypeOK
      <3>3. QED
        BY <3>1, <3>2
    <2>2. source'[n] # j
      BY <2>1 DEF Terminal, TerminalJobStates
    <2>3. QED
      BY <2>1, <2>2 DEF Terminal, ItemsOf, ItemsIn
  <1>6. QED
    BY <1>2, <1>3, <1>4, <1>5

LEMMA SubmitKeepsIInv ==
    ASSUME IInv, NEW j \in Jobs, NEW S \in SUBSET Items, NEW B \in SUBSET Items,
           Submit(j, S, B)
    PROVE  IInv'
  <1>1. TypeOK /\ WorkIsQueued /\ UnbornJobs /\ RetryChecksHold
    BY DEF IInv
  <1>2. TypeOK'
    BY <1>1, ModuleType DEF ModuleStep
  <1>3. state[j] = "absent" /\ rpc = "idle" /\ ~maintenance /\ epc[j] = "none" /\ source[j] = NoJob
    BY <1>1 DEF Submit, MayAdmit, ModuleLockFree, UnbornJobs
  <1>4. UnbornJobs' /\ OneOutcomePerItem' /\ MaintenanceExcludesWork' /\ RetryOfUnsuccessfulItems'
    <2>1. /\ state'[j] \in OpenJobStates
          /\ \A k \in Jobs \ {j} : /\ state'[k] = state[k] /\ item'[k] = item[k]
                                   /\ outcomes'[k] = outcomes[k] /\ source'[k] = source[k]
                                   /\ epc'[k] = epc[k]
          /\ source'[j] = NoJob
          /\ UNCHANGED <<maintenance, preloads>>
      BY <1>1, <1>3 DEF Submit, TypeOK, OpenJobStates
    <2>2. \A i \in Items : outcomes'[j][i] = IF item'[j][i] \in TerminalItemStates THEN 1 ELSE 0
      BY <1>1 DEF Submit, TypeOK, TerminalItemStates
    <2>3. QED
      BY <1>3, <2>1, <2>2, CreationKeepsProperties
  <1>5. WorkIsQueued'
    <2>1. WorkOf(j)'
      BY <1>1, <1>3 DEF Submit, TypeOK, WorkIsQueued, WorkOf
    <2>2. \A k \in Jobs \ {j} : WorkOf(k)'
      BY <1>1 DEF Submit, TypeOK, WorkIsQueued, WorkOf
    <2>3. QED
      BY <2>1, <2>2 DEF WorkIsQueued, WorkOf
  <1>6. RetryChecksHold'
    BY <1>3 DEF Submit, RetryChecksHold
  <1>7. QED
    BY <1>2, <1>4, <1>5, <1>6 DEF IInv

LEMMA RetryCreateKeepsIInv ==
    ASSUME IInv, NEW n \in Jobs, RetryCreate(n)
    PROVE  IInv'
  <1>1. TypeOK /\ WorkIsQueued /\ UnbornJobs /\ RetryChecksHold /\ OneOutcomePerItem
    BY DEF IInv
  <1>2. TypeOK'
    BY <1>1, ModuleType DEF ModuleStep
  <1>3. /\ state[n] = "absent" /\ rsrc \in Jobs /\ Terminal(rsrc) /\ ~maintenance
        /\ epc[n] = "none" /\ rsrc # n
    BY <1>1 DEF RetryCreate, RetryChecksHold, UnbornJobs, Terminal, TerminalJobStates
  <1>4. /\ item'[n] = [i \in Items |-> IF i \in Retryable(rsrc) THEN "queued" ELSE "none"]
        /\ source'[n] = rsrc /\ state'[n] = "accepted"
        /\ \A k \in Jobs \ {n} : state'[k] = state[k] /\ item'[k] = item[k] /\ source'[k] = source[k]
        /\ UNCHANGED <<outcomes, execVars, maintenance, preloads>>
        /\ rpc' = "created" /\ rsrc' = rsrc /\ rjob' = n
    BY <1>1 DEF RetryCreate, TypeOK
  <1>5. UnbornJobs' /\ OneOutcomePerItem' /\ MaintenanceExcludesWork' /\ RetryOfUnsuccessfulItems'
    <2>1. \A i \in Items : outcomes'[n][i] = IF item'[n][i] \in TerminalItemStates THEN 1 ELSE 0
      BY <1>1, <1>3, <1>4 DEF UnbornJobs, OneOutcomePerItem, TerminalItemStates
    <2>2. \A i \in Items : item'[n][i] # "none" => item[rsrc][i] \in {"failed", "cancelled"}
      BY <1>4 DEF Retryable, ItemsIn
    <2>3. state'[n] \in OpenJobStates
      BY <1>4 DEF OpenJobStates
    <2>4. QED
      BY <1>3, <1>4, <2>1, <2>2, <2>3, CreationKeepsProperties
  <1>6. WorkIsQueued'
    <2>1. WorkOf(n)'
      BY <1>1, <1>3, <1>4 DEF WorkIsQueued, WorkOf
    <2>2. \A k \in Jobs \ {n} : WorkOf(k)'
      BY <1>1, <1>4 DEF WorkIsQueued, WorkOf
    <2>3. QED
      BY <2>1, <2>2 DEF WorkIsQueued, WorkOf
  <1>7. RetryChecksHold'
    BY <1>3, <1>4 DEF RetryChecksHold, Terminal, ItemsOf
  <1>8. QED
    BY <1>2, <1>5, <1>6, <1>7 DEF IInv

LEMMA RetryCloneKeepsIInv ==
    ASSUME IInv, RetryClone
    PROVE  IInv'
  <1>1. TypeOK /\ WorkIsQueued /\ UnbornJobs /\ RetryChecksHold
        /\ OneOutcomePerItem /\ MaintenanceExcludesWork /\ RetryOfUnsuccessfulItems
    BY DEF IInv
  <1>2. TypeOK'
    BY <1>1, ModuleType DEF ModuleStep
  <1>3. /\ rjob \in Jobs /\ epc[rjob] = "none" /\ state[rjob] # "absent"
        /\ \A i \in ItemsOf(rjob) : item[rjob][i] = "queued"
    BY <1>1 DEF RetryClone, RetryChecksHold
  <1>4. /\ UNCHANGED <<item, outcomes, source, cur, got, maintenance, preloads>>
        /\ \A k \in Jobs : state'[k] = state[k] \/ CanTransition(state[k], state'[k])
        /\ \A k \in Jobs \ {rjob} : epc'[k] = epc[k] /\ todo'[k] = todo[k]
        /\ epc'[rjob] = "start" /\ todo'[rjob] = ItemsOf(rjob) /\ rpc' = "idle"
    BY <1>1, <1>3 DEF RetryClone, TypeOK
  <1>5. JobsAdvance
    BY <1>4 DEF JobsAdvance, ItemsAdvance
  <1>6. OneOutcomePerItem' /\ MaintenanceExcludesWork' /\ RetryOfUnsuccessfulItems'
    BY <1>1, <1>4, <1>5, AdvanceKeepsProperties
  <1>7. UnbornJobs'
    BY <1>1, <1>3, <1>4, <1>5, AdvanceKeepsFinal DEF UnbornJobs
  <1>8. WorkIsQueued'
    BY <1>1, <1>3, <1>4 DEF WorkIsQueued
  <1>9. RetryChecksHold'
    BY <1>4 DEF RetryChecksHold
  <1>10. QED
    BY <1>2, <1>6, <1>7, <1>8, <1>9 DEF IInv

LEMMA ModuleKeepsIInv ==
    ASSUME IInv, ModuleStep
    PROVE  IInv'
  <1>1. TypeOK /\ MaintenanceExcludesWork /\ RetryChecksHold
    BY DEF IInv
  <1>2. TypeOK'
    BY <1>1, ModuleType
  <1>3. ASSUME NEW j \in Jobs, NEW S \in SUBSET Items, NEW B \in SUBSET Items,
               Submit(j, S, B)
        PROVE  IInv'
    BY <1>3, SubmitKeepsIInv
  <1>4. ASSUME NEW n \in Jobs, RetryCreate(n) PROVE IInv'
    BY <1>4, RetryCreateKeepsIInv
  <1>5. CASE RetryClone
    BY <1>5, RetryCloneKeepsIInv
  <1>6. ASSUME NEW s \in Jobs, RetryBegin(s) PROVE IInv'
    BY <1>1, <1>2, <1>6, QuietKeepsIInv
       DEF RetryBegin, RetrySource, MayAdmit, MaintenanceExcludesWork
  <1>7. CASE RetryFail
    BY <1>1, <1>2, <1>7, QuietKeepsIInv DEF RetryFail, MaintenanceExcludesWork
  <1>8. ASSUME NEW j \in Jobs, DeleteRelease(j) PROVE IInv'
    BY <1>1, <1>2, <1>8, QuietKeepsIInv
       DEF DeleteRelease, MaintenanceExcludesWork, RetryChecksHold
  <1>9. CASE DeletePurge
    BY <1>1, <1>2, <1>9, QuietKeepsIInv
       DEF DeletePurge, MaintenanceExcludesWork, RetryChecksHold
  <1>10. CASE DrainBegin
    BY <1>1, <1>2, <1>10, QuietKeepsIInv
       DEF DrainBegin, DrainMayBegin, ModuleLockFree, MaintenanceExcludesWork
  <1>11. CASE MaintenanceBegin
    BY <1>1, <1>2, <1>11, QuietKeepsIInv
       DEF MaintenanceBegin, NoBlockers, ModuleLockFree
  <1>12. CASE MaintenanceEnd
    BY <1>1, <1>2, <1>12, QuietKeepsIInv DEF MaintenanceEnd, ModuleLockFree
  <1>13. CASE PreloadBegin
    BY <1>1, <1>2, <1>13, QuietKeepsIInv DEF PreloadBegin, ModuleLockFree
  <1>14. CASE PreloadEnd
    BY SMTT(30), <1>1, <1>2, <1>14, QuietKeepsIInv
       DEF PreloadEnd, PreloadHeld, ModuleLockFree, MaintenanceExcludesWork, TypeOK
  <1>15. QED
    BY <1>3, <1>4, <1>5, <1>6, <1>7, <1>8, <1>9, <1>10, <1>11, <1>12, <1>13, <1>14
       DEF ModuleStep

-----------------------------------------------------------------------------
(* The verdict.                                                              *)

\* The part of NothingIsLeft about one job.
LeftOf(j) ==
    /\ ~cancelAt[j] /\ epc[j] \in Beginning =>
         SettledOrListed(j) /\ cur[j] = {} /\ got[j] = {}
    /\ ~cancelAt[j] /\ epc[j] = "infer" => SettledOrListed(j) /\ got[j] = {}
    /\ ~cancelAt[j] /\ epc[j] \in {"calling", "commit", "committing"} => SettledOrListed(j)
    /\ (~cancelAt[j] /\ epc[j] = "final") \/ epc[j] = "finish" =>
         \A i \in Items : item[j][i] \in {"none", "succeeded", "failed"}

LEMMA ExecLeavesNothing ==
    ASSUME TypeOK, WorkIsQueued, NEW j \in Jobs, ExecStep(j), LeftOf(j)
    PROVE  LeftOf(j)'
  <1>0. /\ cancelAt' = cancelAt
        /\ epc[j] \in ExecPcs \ {"toCancelReq", "toCancelled", "finish", "raised", "done"} =>
             \A i \in todo[j] \cup cur[j] \cup got[j] : item[j][i] = "queued"
    BY ExecShape DEF ExecTouches, WorkIsQueued
  <1> USE DEF LeftOf, SettledOrListed, Beginning, Goto, TypeOK
  <1>L. ASSUME NEW pc, Look(j, pc),
               pc \in {"raised", "done"} \/ (epc[j] \in Beginning /\ pc \in Beginning)
        PROVE  LeftOf(j)'
    BY <1>0, <1>L DEF Look
  <1>M. ASSUME NEW t, NEW pc, Move(j, t, pc),
               \/ pc \in {"toCancelled", "done"}
               \/ epc[j] \in Beginning /\ pc \in Beginning
        PROVE  LeftOf(j)'
    BY <1>0, <1>M DEF Move
  <1>1. CASE ExecEnter(j) \/ ExecReadQueued(j) \/ ExecReadCancel(j) \/ ExecPlan(j)
    BY <1>1, <1>L DEF ExecEnter, ExecReadQueued, ExecReadCancel, ExecPlan
  <1>2. CASE ExecLoop(j) \/ ExecAcquireCancelled(j)
    BY <1>0, <1>2 DEF ExecLoop, ExecAcquireCancelled, Look
  <1>3. CASE ExecFinal(j)
    BY <1>0, <1>3 DEF ExecFinal, HonourCancel, Look
  <1>4. CASE ExecRun(j) \/ ExecCancelAtStart(j)
    BY <1>4, <1>M DEF ExecRun, ExecCancelAtStart
  <1>5. CASE ExecCancelRequested(j) \/ ExecCancelled(j) \/ ExecFinish(j)
    BY <1>5, <1>M DEF ExecCancelRequested, ExecCancelled, ExecFinish
  <1>6. ASSUME NEW C \in SUBSET Items, ExecAcquire(j, C) PROVE LeftOf(j)'
    BY <1>0, <1>6 DEF ExecAcquire
  <1>7. ASSUME NEW S \in SUBSET Items, ExecCall(j, S) PROVE LeftOf(j)'
    BY <1>0, <1>7 DEF ExecCall
  <1>8. CASE ExecAbandon(j) \/ ExecNextPayload(j)
    BY <1>0, <1>8 DEF ExecAbandon, ExecNextPayload
  <1>9. CASE ExecRelease(j)
    BY <1>0, <1>9 DEF ExecRelease
  <1>10. CASE ExecRaised(j) \/ ExecFinalCancel(j)
    BY <1>0, <1>10 DEF ExecRaised, ExecFinalCancel
  <1>11. CASE ExecFailItems(j)
    <2>1. \A i \in got[j] : item[j][i] \in OpenItemStates
      BY <1>0, <1>11 DEF ExecFailItems, ExecPcs, OpenItemStates
    <2>2. \A i \in Items : item'[j][i] = IF i \in got[j] THEN "failed" ELSE item[j][i]
      BY <1>11, <2>1 DEF ExecFailItems, CommitAll
    <2>3. QED
      BY <1>0, <1>11, <2>2 DEF ExecFailItems
  <1>12. ASSUME NEW i \in Items, NEW t \in {"succeeded", "failed"}, ExecCommit(j, i, t)
         PROVE  LeftOf(j)'
    <2>1. \A x \in Items : item'[j][x] = IF x = i THEN t ELSE item[j][x]
      BY <1>12 DEF ExecCommit, CommitAll
    <2>2. QED
      BY <1>0, <1>12, <2>1 DEF ExecCommit
  <1>13. QED
    BY <1>1, <1>2, <1>3, <1>4, <1>5, <1>6, <1>7, <1>8, <1>9, <1>10, <1>11, <1>12
       DEF ExecStep

\* The part of VerdictMatchesItems about one job.
VerdictOf(j) ==
    /\ state[j] = "completed" => \A i \in Items : item[j][i] \in {"none", "succeeded"}
    /\ state[j] = "completed_with_errors" =>
         /\ \A i \in Items : item[j][i] \in {"none", "succeeded", "failed"}
         /\ \E i \in Items : item[j][i] = "succeeded"
         /\ \E i \in Items : item[j][i] = "failed"

LEMMA VerdictByItem == VerdictMatchesItems <=> \A j \in Jobs : VerdictOf(j)
  BY DEF VerdictMatchesItems, VerdictOf, ItemsIn, ItemsOf

\* Items and verdict stay once they are there, so only a step that gives a verdict counts.
LEMMA VerdictStays ==
    ASSUME TypeOK, NEW j \in Jobs, VerdictOf(j),
           \A i \in Items : \/ item'[j][i] = item[j][i]
                            \/ item[j][i] \in OpenItemStates,
           state'[j] = state[j] \/ state'[j] \notin {"completed", "completed_with_errors"}
    PROVE  VerdictOf(j)'
  BY DEF VerdictOf, OpenItemStates

LEMMA ExecGivesVerdict ==
    ASSUME TypeOK, WorkIsQueued, NEW j \in Jobs, ExecStep(j), LeftOf(j), VerdictOf(j)
    PROVE  VerdictOf(j)'
  <1>0. \A i \in Items : item'[j][i] = item[j][i] \/ item[j][i] \in OpenItemStates
    BY ExecShape DEF ExecTouches, ItemsAdvance
  <1>1. CASE ExecFinish(j)
    <2>1. item' = item /\ \A i \in Items : item[j][i] \in {"none", "succeeded", "failed"}
      BY <1>1 DEF ExecFinish, Move, LeftOf
    <2>2. state'[j] \in {state[j], Verdict(j)}
      BY <1>1 DEF ExecFinish, Move, TypeOK
    <2>3. CASE state'[j] = state[j]
      BY <1>0, <2>3, VerdictStays
    <2>4. CASE state'[j] = Verdict(j)
      BY <2>1, <2>4 DEF Verdict, VerdictOf, ItemsIn
    <2>5. QED
      BY <2>2, <2>3, <2>4
  <1>2. CASE ~ExecFinish(j)
    <2>1. state'[j] = state[j] \/ state'[j] \in {"running", "cancelled", "cancel_requested", "failed"}
      BY <1>2 DEF ExecStep, ExecEnter, ExecReadQueued, ExecRun, ExecReadCancel,
            ExecCancelAtStart, ExecPlan, ExecLoop, ExecAcquire, ExecAcquireCancelled, ExecCall,
            ExecAbandon, ExecFailItems, ExecNextPayload, ExecCommit, ExecRelease,
            ExecFinalCancel, ExecFinal, ExecCancelRequested, ExecCancelled, ExecRaised,
            Look, Move, TypeOK
    <2>2. QED
      BY <1>0, <2>1, VerdictStays
  <1>3. QED
    BY <1>1, <1>2

LEMMA VerdictStep ==
    ASSUME IInv, NothingIsLeft, VerdictMatchesItems, [Next]_vars
    PROVE  NothingIsLeft' /\ VerdictMatchesItems'
  <1>1. TypeOK /\ WorkIsQueued /\ UnbornJobs /\ RetryChecksHold
    BY DEF IInv
  <1>2. \A k \in Jobs : LeftOf(k) /\ VerdictOf(k)
    BY VerdictByItem DEF NothingIsLeft, LeftOf
  <1>3. SUFFICES ASSUME NEW k \in Jobs PROVE LeftOf(k)' /\ VerdictOf(k)'
    <2>1. VerdictMatchesItems' <=> \A k \in Jobs : VerdictOf(k)'
      BY DEF VerdictMatchesItems, VerdictOf, ItemsIn, ItemsOf
    <2>2. QED
      BY <2>1 DEF NothingIsLeft, LeftOf
  <1>4. ASSUME UNCHANGED <<epc, todo, cur, got, item>>, cancelAt[k] => cancelAt'[k],
               state'[k] = state[k] \/ state'[k] \in {"cancelled", "cancel_requested"},
               cancelAt'[k] \in BOOLEAN
        PROVE  LeftOf(k)' /\ VerdictOf(k)'
    BY <1>1, <1>2, <1>4, VerdictStays DEF LeftOf, SettledOrListed
  <1>5. ASSUME NEW j \in Jobs, ExecStep(j) PROVE LeftOf(k)' /\ VerdictOf(k)'
    <2>1. CASE k = j
      BY <1>1, <1>2, <1>5, <2>1, ExecLeavesNothing, ExecGivesVerdict
    <2>2. CASE k # j
      BY <1>1, <1>2, <1>5, <2>2, ExecShape DEF ExecTouches, LeftOf, VerdictOf, SettledOrListed
    <2>3. QED
      BY <2>1, <2>2
  <1>6. CASE CancelStep
    <2>1. UNCHANGED <<epc, todo, cur, got, item>>
      BY <1>6 DEF CancelStep, CancelBegin, CancelMark, CancelLook, CancelMove, DrainVisit
    <2>2. cancelAt'[k] \in BOOLEAN /\ (cancelAt[k] => cancelAt'[k])
      <3>1. cancelAt' = cancelAt \/ \E c \in Threads : cancelAt' = [cancelAt EXCEPT ![cjob[c]] = TRUE]
        BY <1>6 DEF CancelStep, CancelBegin, CancelMark, CancelLook, CancelMove, DrainVisit
      <3>2. cancelAt \in [Jobs -> BOOLEAN]
        BY <1>1 DEF TypeOK
      <3>3. CASE cancelAt' = cancelAt
        BY <3>2, <3>3
      <3>4. CASE \E c \in Threads : cancelAt' = [cancelAt EXCEPT ![cjob[c]] = TRUE]
        <4>1. PICK c \in Threads : cancelAt' = [cancelAt EXCEPT ![cjob[c]] = TRUE]
          BY <3>4
        <4>2. cancelAt'[k] = IF k = cjob[c] THEN TRUE ELSE cancelAt[k]
          BY <3>2, <4>1
        <4>3. QED
          BY <3>2, <4>2
      <3>5. QED
        BY <3>1, <3>3, <3>4
    <2>3. state'[k] = state[k] \/ state'[k] \in {"cancelled", "cancel_requested"}
      BY <1>1, <1>6
         DEF CancelStep, CancelBegin, CancelMark, CancelLook, CancelMove, DrainVisit, TypeOK
    <2>4. QED
      BY <1>4, <2>1, <2>2, <2>3
  <1>7. ASSUME NEW j \in Jobs, NEW S \in SUBSET Items, NEW B \in SUBSET Items,
               Submit(j, S, B)
        PROVE  LeftOf(k)' /\ VerdictOf(k)'
    <2>1. CASE k = j
      BY <1>1, <1>7, <2>1 DEF Submit, UnbornJobs, WorkIsQueued, LeftOf, VerdictOf,
                              SettledOrListed, Beginning, TypeOK
    <2>2. CASE k # j
      BY <1>1, <1>2, <1>7, <2>2 DEF Submit, LeftOf, VerdictOf, SettledOrListed, TypeOK
    <2>3. QED
      BY <2>1, <2>2
  <1>8. ASSUME NEW n \in Jobs, RetryCreate(n) PROVE LeftOf(k)' /\ VerdictOf(k)'
    <2>1. CASE k = n
      BY <1>1, <1>8, <2>1 DEF RetryCreate, UnbornJobs, LeftOf, VerdictOf, Beginning, TypeOK
    <2>2. CASE k # n
      BY <1>1, <1>2, <1>8, <2>2 DEF RetryCreate, LeftOf, VerdictOf, SettledOrListed, TypeOK
    <2>3. QED
      BY <2>1, <2>2
  <1>9. CASE RetryClone
    <2>1. VerdictOf(k)'
      BY <1>1, <1>2, <1>9, VerdictStays DEF RetryClone, TypeOK
    <2>2. CASE k = rjob
      BY <1>1, <1>9, <2>1, <2>2 DEF RetryClone, RetryChecksHold, WorkIsQueued, ItemsOf, LeftOf,
                                    SettledOrListed, Beginning, TypeOK
    <2>3. CASE k # rjob
      BY <1>2, <1>9, <2>1, <2>3 DEF RetryClone, LeftOf, SettledOrListed, TypeOK
    <2>4. QED
      BY <2>2, <2>3, <2>1, <1>1
  <1>10. ASSUME UNCHANGED <<epc, todo, cur, got, item, cancelAt, state>>
         PROVE  LeftOf(k)' /\ VerdictOf(k)'
    BY <1>2, <1>10 DEF LeftOf, VerdictOf, SettledOrListed
  <1>11. CASE ModuleStep
    BY <1>7, <1>8, <1>9, <1>10, <1>11
       DEF ModuleStep, RetryBegin, RetryFail, DeleteRelease, DeletePurge, DrainBegin,
           MaintenanceBegin, MaintenanceEnd, PreloadBegin, PreloadEnd
  <1>12. QED
    BY <1>5, <1>6, <1>10, <1>11 DEF Next, vars

-----------------------------------------------------------------------------
(* The theorems.                                                             *)

LEMMA IInvInit ==
    ASSUME Init
    PROVE  IInv
  <1>1. TypeOK
    BY InitType
  <1>2. UnbornJobs /\ WorkIsQueued /\ RetryChecksHold
    BY DEF Init, UnbornJobs, WorkIsQueued, RetryChecksHold, ExecPcs
  <1>3. OneOutcomePerItem
    BY DEF Init, OneOutcomePerItem, TerminalItemStates
  <1>4. MaintenanceExcludesWork /\ RetryOfUnsuccessfulItems
    BY DEF Init, MaintenanceExcludesWork, RetryOfUnsuccessfulItems
  <1>5. QED
    BY <1>1, <1>2, <1>3, <1>4 DEF IInv

LEMMA StepKeepsIInv ==
    ASSUME IInv, [Next]_vars
    PROVE  IInv'
  <1>1. CASE UNCHANGED vars
    <2>1. TypeOK'
      BY <1>1 DEF vars, TypeOK, IInv
    <2>2. QED
      BY <1>1, <2>1, QuietKeepsIInv
         DEF vars, IInv, MaintenanceExcludesWork, RetryChecksHold
  <1>2. QED
    BY <1>1, ExecKeepsIInv, CancelKeepsIInv, ModuleKeepsIInv DEF Next

\* The inductive invariant holds in every reachable state.
THEOREM Invariance == Spec => []IInv
  <1>1. Init => IInv
    BY IInvInit
  <1>2. IInv /\ [Next]_vars => IInv'
    BY StepKeepsIInv
  <1>3. QED
    BY <1>1, <1>2, PTL DEF Spec

\* Each item has exactly one outcome once it is terminal (commit_item_success,
\* commit_item_failure, commit_item_cancelled), for any number of jobs and threads.
THEOREM OutcomesAreUnique == Spec => []OneOutcomePerItem
  <1>1. IInv => OneOutcomePerItem
    BY DEF IInv
  <1>2. QED
    BY <1>1, Invariance, PTL

\* run_runtime_maintenance never overlaps an open job or a preload.
THEOREM MaintenanceIsExclusive == Spec => []MaintenanceExcludesWork
  <1>1. IInv => MaintenanceExcludesWork
    BY DEF IInv
  <1>2. QED
    BY <1>1, Invariance, PTL

\* create_retry takes only the failed and cancelled items of a finished job.
THEOREM RetriesAreSound == Spec => []RetryOfUnsuccessfulItems
  <1>1. IInv => RetryOfUnsuccessfulItems
    BY DEF IInv
  <1>2. QED
    BY <1>1, Invariance, PTL

\* Terminal jobs and terminal items never change state again.
THEOREM FinalityHolds == Spec => TerminalIsFinal
  <1> DEFINE Final ==
        \A j \in Jobs :
          /\ Terminal(j) => state'[j] = state[j]
          /\ \A i \in Items : item[j][i] \in TerminalItemStates => item'[j][i] = item[j][i]
  <1>1. ASSUME IInv, [Next]_vars PROVE Final
    <2>1. TypeOK /\ WorkIsQueued /\ UnbornJobs /\ RetryChecksHold
      BY <1>1 DEF IInv
    <2>2. ASSUME JobsAdvance PROVE Final
      BY <2>1, <2>2, AdvanceKeepsFinal
    <2>3. ASSUME NEW j \in Jobs, ExecStep(j) PROVE Final
      BY <2>1, <2>2, <2>3, ExecShape DEF ExecTouches, JobsAdvance, ItemsAdvance
    <2>4. CASE CancelStep
      <3>1. /\ UNCHANGED <<item, outcomes>>
            /\ \A k \in Jobs : state'[k] = state[k] \/ CanTransition(state[k], state'[k])
        BY <2>1, <2>4
           DEF CancelStep, CancelBegin, CancelMark, CancelLook, CancelMove, DrainVisit, TypeOK
      <3>2. QED
        BY <2>2, <3>1 DEF JobsAdvance, ItemsAdvance
    <2>5. ASSUME NEW j \in Jobs, state[j] = "absent",
                 \A k \in Jobs \ {j} : state'[k] = state[k] /\ item'[k] = item[k]
          PROVE  Final
      BY <2>1, <2>5 DEF UnbornJobs, Terminal, TerminalJobStates, TerminalItemStates
    <2>6. ASSUME NEW j \in Jobs, NEW S \in SUBSET Items, NEW B \in SUBSET Items,
                 Submit(j, S, B)
          PROVE  Final
      BY <2>1, <2>5, <2>6 DEF Submit, TypeOK
    <2>7. ASSUME NEW n \in Jobs, RetryCreate(n) PROVE Final
      BY <2>1, <2>5, <2>7 DEF RetryCreate, TypeOK
    <2>8. CASE RetryClone
      <3>1. /\ UNCHANGED <<item, outcomes>>
            /\ \A k \in Jobs : state'[k] = state[k] \/ CanTransition(state[k], state'[k])
        BY <2>1, <2>8 DEF RetryClone, TypeOK
      <3>2. QED
        BY <2>2, <3>1 DEF JobsAdvance, ItemsAdvance
    <2>9. ASSUME UNCHANGED <<state, item>> PROVE Final
      BY <2>9
    <2>10. CASE ModuleStep
      BY <2>6, <2>7, <2>8, <2>9, <2>10
         DEF ModuleStep, RetryBegin, RetryFail, DeleteRelease, DeletePurge, DrainBegin,
             MaintenanceBegin, MaintenanceEnd, PreloadBegin, PreloadEnd
    <2>11. QED
      BY <1>1, <2>3, <2>4, <2>9, <2>10 DEF Next, vars
  <1>2. IInv /\ [Next]_vars => [Final]_vars
    BY <1>1
  <1>3. QED
    BY <1>2, Invariance, PTL DEF Spec, TerminalIsFinal

\* A verdict is the truth about the items: completed only if every item succeeded, with
\* errors only if all are settled and both kinds occur.
THEOREM VerdictsAreTrue == Spec => []VerdictMatchesItems
  <1> DEFINE Inv == NothingIsLeft /\ VerdictMatchesItems
  <1>1. Init => Inv
    BY DEF Init, NothingIsLeft, VerdictMatchesItems, Beginning
  <1>2. IInv /\ Inv /\ [Next]_vars => Inv'
    BY VerdictStep
  <1>3. QED
    BY <1>1, <1>2, Invariance, PTL DEF Spec

\* What a client is told of a job, its verdict and the outcomes of its items, is the
\* truth (registry.py, paddle_executor.py).
THEOREM OutcomesHold == Spec => []OutcomesAreTrue
  BY VerdictsAreTrue, OutcomesAreUnique, PTL DEF OutcomesAreTrue

=============================================================================
