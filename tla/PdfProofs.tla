------------------------------ MODULE PdfProofs ------------------------------
(***************************************************************************)
(* OCR of a PDF in runs that do not overwrite, for any pages, requests,    *)
(* batches, loads, failed writes, failed saves and crashes: what was       *)
(* reported as done is on disk, nothing that was saved is lost, and no     *)
(* page gets a second text layer, but for the pages and the files that the *)
(* histories of the model name.  The threads that call the child process   *)
(* are led to it.  And whatever pages are inserted, deleted and moved,     *)
(* each keeps its own text.                                                *)
(***************************************************************************)
EXTENDS PdfOcr, PdfSession, PdfClient, DataLemmas

\* Runs do not overwrite.
Careful == Overwrites \subseteq {FALSE}

LEMMA AbsentIsNone ==
  /\ Absent \notin Layers /\ Absent \notin FileType /\ Absent \notin SidecarType
  /\ Empty \notin FileType /\ Absent # Empty
BY PdfAssumption DEF Layers, FileType, SidecarType

LEMMA TextsTyped == \A d : Texts(d) \in SUBSET Pages
BY DEF Texts

LEMMA Typed ==
  ASSUME TypeOK
  PROVE  /\ Recovered \in FileType /\ Recovered.layers \in Layers /\ file.layers \in Layers
         /\ ses.doc # Absent => ses.doc \in Layers
         /\ marker \in {Absent, Empty} => Recovered = file
         /\ Recovered \in {file, marker}
         /\ OnDisk \subseteq Pages /\ Shown \subseteq Pages
         /\ ses \in SesType /\ run \in RunType /\ faults \in FaultsType
<1>1. /\ Recovered \in FileType /\ Recovered \in {file, marker}
      /\ marker \in {Absent, Empty} => Recovered = file
  BY DEF TypeOK, Recovered
<1>2. Recovered.layers \in Layers /\ file.layers \in Layers
  BY <1>1 DEF TypeOK, FileType
<1>3. ses.doc # Absent => ses.doc \in Layers
  BY DEF TypeOK, SesType
<1>4. OnDisk \subseteq Pages /\ Shown \subseteq Pages
  BY TextsTyped DEF OnDisk, Shown
<1> QED BY <1>1, <1>2, <1>3, <1>4 DEF TypeOK

LEMMA TypeStep == TypeOK /\ MarkerStands /\ [Next]_vars => TypeOK'
<1> SUFFICES ASSUME TypeOK, MarkerStands, [Next]_vars PROVE TypeOK'
  OBVIOUS
<1> USE DEF Goto
<1>0. /\ NoSes \in SesType /\ NoRun \in RunType
      /\ \A r \in RunType : Ended(r) \in RunType /\ BatchOver(r) \in RunType
      /\ \A r \in RunType, pc \in Pcs : [r EXCEPT !.pc = pc] \in RunType
  BY ZenonT(60) DEF NoSes, NoRun, SesType, RunType, Ended, BatchOver, Pcs
<1>1. CASE Open
  <2>1. [NoSes EXCEPT !.state = "open", !.doc = Recovered.layers,
                      !.blind = Texts(Recovered.layers)] \in SesType
    BY Typed, TextsTyped DEF NoSes, SesType
  <2> QED BY <1>1, <2>1, Typed DEF Open, TypeOK
<1>2. CASE Examine
  <2>1. PICK p \in Pages : ses' = [ses EXCEPT !.look = {[page |-> p, has |-> ses.doc[p] > 0]}]
    BY <1>2 DEF Examine
  <2>2. [page |-> p, has |-> ses.doc[p] > 0] \in [page : Pages, has : BOOLEAN]
    OBVIOUS
  <2>3. ses' \in SesType
    BY <2>1, <2>2 DEF TypeOK, SesType
  <2>4. faults' \in FaultsType
    BY <1>2 DEF Examine, TypeOK, FaultsType
  <2> QED BY <1>2, <2>3, <2>4 DEF Examine, TypeOK
<1>3. CASE TellModel
  <2>1. PICK l \in ses.look : \E b :
          ses' = IF l.has THEN [ses EXCEPT !.look = {}, !.has = @ \cup {l.page}, !.blind = @ \ b]
                 ELSE [ses EXCEPT !.look = {}, !.has = @ \ {l.page},
                                  !.blind = @ \cup ({l.page} \cap Shown)]
    BY <1>3 DEF TellModel
  <2>2. l.page \in Pages /\ Shown \subseteq Pages
    BY Typed DEF SesType
  <2>3. ses' \in SesType
    <3>1. PICK b :
            ses' \in {[ses EXCEPT !.look = {}, !.has = @ \cup {l.page}, !.blind = @ \ b],
                     [ses EXCEPT !.look = {}, !.has = @ \ {l.page},
                                 !.blind = @ \cup ({l.page} \cap Shown)]}
      BY <2>1
    <3>2. /\ [ses EXCEPT !.look = {}, !.has = @ \cup {l.page}, !.blind = @ \ b] \in SesType
          /\ [ses EXCEPT !.look = {}, !.has = @ \ {l.page},
                         !.blind = @ \cup ({l.page} \cap Shown)] \in SesType
      BY <2>2, Typed DEF SesType
    <3> QED BY <3>1, <3>2
  <2> QED BY <1>3, <2>3 DEF TellModel, TypeOK
<1>4. CASE Cancel
  <2>1. ses' \in SesType /\ run' \in RunType
    BY <1>4 DEF Cancel, TypeOK, SesType, RunType
  <2> QED BY <1>4, <2>1 DEF Cancel, TypeOK
<1>5. CASE Close \/ CloseDoc
  <2>1. ses' \in SesType
    BY <1>0, <1>5, ZenonT(60) DEF Close, CloseDoc, TypeOK, SesType
  <2> QED BY <1>5, <2>1 DEF Close, CloseDoc, TypeOK
<1>6. CASE StartRun
  <2>1. PICK want \in Requests, over \in Overwrites :
          LET pending == IF over THEN want ELSE want \ Restorable(file) IN
          run' = [NoRun EXCEPT !.pc = IF pending = {} THEN "idle" ELSE "batch",
                               !.overwrite = over,
                               !.pending = pending,
                               !.ocr = want \ pending]
    BY <1>6, ZenonT(60) DEF StartRun
  <2>2. PICK p \in SUBSET Pages, next \in {"idle", "batch"} :
          run' = [NoRun EXCEPT !.pc = next, !.overwrite = over, !.pending = p,
                               !.ocr = want \ p]
    <3>1. (IF over THEN want ELSE want \ Restorable(file)) \in SUBSET Pages
      BY PdfAssumption
    <3> QED BY <2>1, <3>1, ZenonT(60)
  <2>3. run' \in RunType
    BY <2>2, PdfAssumption DEF NoRun, RunType, Pcs
  <2>4. ses' \in SesType
    BY <1>6 DEF StartRun, TypeOK, SesType
  <2>5. faults' \in FaultsType
    BY <1>6 DEF StartRun, TypeOK, FaultsType
  <2> QED BY <1>6, <2>3, <2>4, <2>5, SMTT(30) DEF StartRun, TypeOK
<1>7. CASE NextBatch
  <2>1. FirstBatch(run.pending) \in SUBSET Pages
    BY DEF FirstBatch, TypeOK, RunType
  <2>2. run' \in RunType
    BY <1>0, <1>7, <2>1, ZenonT(60) DEF NextBatch, TypeOK, RunType, Pcs
  <2> QED BY <1>7, <2>2 DEF NextBatch, TypeOK
<1>8. CASE RenderAndRecognise \/ CallRaises \/ RunRaises
  <2>1. run \in RunType /\ BatchOver(run) \in RunType
    BY <1>0 DEF TypeOK
  <2>2. [run EXCEPT !.pc = "write", !.text = run.batch \ Blanks,
                    !.todo = run.batch \ Blanks] \in RunType
    BY <2>1 DEF RunType, Pcs
  <2>3. run' \in RunType
    BY <1>0, <1>8, <2>1, <2>2 DEF RenderAndRecognise, CallRaises, RunRaises
  <2>4. ses' \in SesType
    BY <1>8 DEF RenderAndRecognise, CallRaises, RunRaises, TypeOK, SesType
  <2> QED BY <1>8, <2>3, <2>4 DEF RenderAndRecognise, CallRaises, RunRaises, TypeOK
<1>9. CASE WriteBegin
  <2>1. Skipped \in SUBSET Pages /\ ses.doc \in Layers
    BY <1>9, Typed DEF WriteBegin, Skipped, TypeOK, RunType
  <2>2. run' \in RunType
    BY <1>9, <2>1 DEF WriteBegin, TypeOK, RunType, Pcs
  <2>3. PICK gone : ses' = [ses EXCEPT !.doc = [p \in Pages |-> IF p \in gone THEN 0 ELSE @[p]],
                                       !.has = @ \ gone]
    BY <1>9, ZenonT(60) DEF WriteBegin
  <2>4. PICK d \in Layers : ses' = [ses EXCEPT !.doc = d, !.has = @ \ gone]
    <3>1. [p \in Pages |-> IF p \in gone THEN 0 ELSE ses.doc[p]] \in Layers
      BY <2>1 DEF Layers
    <3> QED BY <2>3, <3>1
  <2>5. ses' \in SesType
    BY <2>4 DEF TypeOK, SesType
  <2>6. faults' \in FaultsType
    BY <1>9, <2>1 DEF WriteBegin, TypeOK, FaultsType
  <2> QED BY <1>9, <2>2, <2>5, <2>6 DEF WriteBegin, TypeOK
<1>10. CASE WritePage \/ WriteBreaks
  <2>1. ses.doc \in Layers /\ run.todo \subseteq Pages /\ Shown \subseteq Pages
    BY <1>10, Typed DEF WritePage, WriteBreaks, MarkerStands, RunType
  <2>2. PICK p \in Pages :
          /\ \/ ses' \in {[ses EXCEPT !.doc[p] = @ + 1, !.has = @ \cup {p}, !.blind = @ \ {p}],
                           [ses EXCEPT !.doc[p] = @ + 1, !.blind = @ \cup {p}]}
             \/ ses' = [ses EXCEPT !.has = @ \ {p}, !.blind = @ \cup ({p} \cap Shown)]
             \/ ses' = ses
          /\ run' \in {[run EXCEPT !.todo = @ \ {p}, !.results = @ \cup {p}],
                       [run EXCEPT !.pc = "broken"]}
    BY <1>10 DEF WritePage, WriteBreaks
  <2>3. ses' \in SesType
    <3>1. PICK d : d = [ses.doc EXCEPT ![p] = @ + 1]
      OBVIOUS
    <3>2. d \in Layers
      BY <2>1, <3>1 DEF Layers
    <3>3. /\ [ses EXCEPT !.doc = d, !.has = @ \cup {p}, !.blind = @ \ {p}] \in SesType
          /\ [ses EXCEPT !.doc = d, !.blind = @ \cup {p}] \in SesType
          /\ [ses EXCEPT !.has = @ \ {p}, !.blind = @ \cup ({p} \cap Shown)] \in SesType
          /\ ses \in SesType
      BY <2>1, <3>2, Typed DEF SesType
    <3> QED BY <2>2, <3>1, <3>3
  <2>4. run' \in RunType
    <3>1. /\ [run EXCEPT !.todo = @ \ {p}, !.results = @ \cup {p}] \in RunType
          /\ [run EXCEPT !.pc = "broken"] \in RunType
      BY Typed DEF RunType, Pcs
    <3> QED BY <2>2, <3>1
  <2>5. faults' \in FaultsType
    <3>1. PICK q \in Pages :
            faults' \in {Doubled(q), [faults EXCEPT !.lacking = @ \cup {q}],
                        [Doubled(q) EXCEPT !.saves = @ + 1, !.lacking = @ \cup {q}],
                        [faults EXCEPT !.saves = @ + 1]}
      BY <1>10 DEF WritePage, WriteBreaks
    <3>2. Doubled(q) \in FaultsType
      BY Typed DEF Doubled, FaultsType
    <3>3. ASSUME NEW f \in FaultsType
          PROVE  /\ [f EXCEPT !.lacking = @ \cup {q}] \in FaultsType
                 /\ [f EXCEPT !.saves = @ + 1] \in FaultsType
                 /\ [f EXCEPT !.saves = @ + 1, !.lacking = @ \cup {q}] \in FaultsType
      <4>1. f.saves + 1 \in Nat /\ f.lacking \cup {q} \in SUBSET Pages
        BY DEF FaultsType
      <4> QED BY <4>1 DEF FaultsType
    <3> QED BY <3>1, <3>2, <3>3, Typed
  <2> QED BY <1>10, <2>3, <2>4, <2>5 DEF WritePage, WriteBreaks, TypeOK
<1>11. CASE WriteEnd
  <2>1. run' \in RunType
    BY <1>11 DEF WriteEnd, TypeOK, RunType, Pcs, Saving
  <2> QED BY <1>11, <2>1 DEF WriteEnd, TypeOK
<1>12. CASE FinalSave \/ CreateMarker \/ Mark \/ AppendText \/ AppendEnd
  <2>1. run' \in RunType
    <3>1. run \in RunType
          /\ {"packing", "marking", "naming", "appending", "torn", "unmarking"} \subseteq Pcs
      BY DEF TypeOK, Pcs, Saving
    <3> QED BY <1>0, <1>12, <3>1 DEF FinalSave, CreateMarker, Mark, AppendText, AppendEnd
  <2>2. NoText \in Layers
    BY DEF NoText, Layers
  <2>3. file' \in FileType /\ marker' \in FileType \cup {Absent, Empty}
    BY <1>12, <2>2, Typed DEF FinalSave, CreateMarker, Mark, AppendText, AppendEnd, TypeOK, FileType
  <2> QED BY <1>12, <2>1, <2>3 DEF FinalSave, CreateMarker, Mark, AppendText, AppendEnd, TypeOK
<1>13. ASSUME NEW r \in RunType PROVE Saved(r) \in RunType
  BY <1>0, ZenonT(60) DEF Saved, RunType, Pcs
<1>14. CASE Unmark
  BY <1>13, <1>14 DEF Unmark, TypeOK
<1>15. ASSUME SaveFault \/ UNCHANGED faults PROVE faults' \in FaultsType
  <2>1. PICK stale \in BOOLEAN : stale = Stale
    BY Typed DEF Stale, FaultsType
  <2>2. faults' \in {faults, [faults EXCEPT !.saves = @ + 1, !.stale = stale]}
    BY <1>15, <2>1 DEF SaveFault
  <2>3. faults.saves + 1 \in Nat
    BY Typed DEF FaultsType
  <2>4. [faults EXCEPT !.saves = @ + 1, !.stale = stale] \in FaultsType
    BY <2>3, Typed DEF FaultsType
  <2> QED BY <2>2, <2>4, Typed
<1>16. CASE AppendFails
  <2>1. run' \in RunType
    BY <1>0, <1>16 DEF AppendFails, TypeOK, Pcs, Saving
  <2>2. faults' \in FaultsType
    BY <1>15, <1>16 DEF AppendFails
  <2>3. file' \in FileType /\ marker' \in FileType \cup {Absent, Empty}
    BY <1>16, Typed DEF AppendFails, TypeOK
  <2> QED BY <1>16, <2>1, <2>2, <2>3 DEF AppendFails, TypeOK
<1>17. CASE Pack
  <2>1. run' \in RunType
    BY <1>17 DEF Pack, TypeOK, RunType, SesType, Pcs, Saving
  <2> QED BY <1>17, <2>1 DEF Pack, TypeOK
<1>18. CASE Swap
  <2>1. run.packed \in Layers
    BY <1>18 DEF Swap, MarkerStands, TypeOK, RunType
  <2>2. file' \in FileType
    BY <1>18, <2>1 DEF Swap, TypeOK, FileType
  <2>3. ses' \in SesType
    BY <1>18, <2>1 DEF Swap, TypeOK, SesType
  <2>4. marker' \in FileType \cup {Absent, Empty}
    <3>1. NoText \in Layers
      BY DEF NoText, Layers
    <3> QED BY <1>18, <3>1 DEF Swap, TypeOK, FileType
  <2>5. faults' \in FaultsType
    BY <1>18, Typed DEF Swap, Stale, FaultsType
  <2>6. run' \in RunType
    <3>1. [Saved(run) EXCEPT !.packed = Absent] \in RunType
      BY <1>13, Typed DEF RunType
    <3> QED BY <1>18, <3>1 DEF Swap
  <2> QED BY <1>18, <2>2, <2>3, <2>4, <2>5, <2>6 DEF Swap, TypeOK
<1>19. CASE PackFails
  <2>1. run' \in RunType
    BY <1>0, <1>19 DEF PackFails, TypeOK, Pcs
  <2>2. ses' \in SesType
    BY <1>19, Typed DEF PackFails, TypeOK, SesType
  <2>3. faults' \in FaultsType
    BY <1>15, <1>19 DEF PackFails
  <2> QED BY <1>19, <2>1, <2>2, <2>3 DEF PackFails, TypeOK
<1>20. CASE Respond
  BY <1>0, <1>20 DEF Respond, TypeOK, Pcs
<1>21. CASE Checkpoint
  <2>1. run' \in RunType
    <3>1. BatchOver(run) \in RunType /\ run \in RunType
      BY <1>0 DEF TypeOK
    <3> QED BY <1>21, <3>1 DEF Checkpoint, RunType
  <2>2. \A old \in SidecarType : Checkpointed(old) \in SidecarType
    BY DEF Checkpointed, SidecarType, TypeOK, RunType
  <2>3. Fresh \in SidecarType /\ (Grown(file) => sidecar \in SidecarType)
    BY DEF Fresh, Grown, SidecarType, TypeOK, FileType
  <2>4. sidecar' \in SidecarType \cup {Absent}
    BY <1>21, <2>2, <2>3 DEF Checkpoint, Write, TypeOK
  <2>5. faults' \in FaultsType
    BY <1>15, <1>21 DEF Checkpoint, Write
  <2> QED BY <1>21, <2>1, <2>4, <2>5 DEF Checkpoint, Write, TypeOK
<1>22. CASE Refresh \/ Complete
  <2>1. run' \in RunType
    BY <1>0, <1>22 DEF Refresh, Complete, TypeOK, Pcs
  <2>2. sidecar' \in SidecarType \cup {Absent}
    BY <1>22 DEF Refresh, Complete, Write, Fresh, TypeOK, SidecarType, FileType
  <2>3. faults' \in FaultsType
    BY <1>15, <1>22 DEF Refresh, Complete, Write
  <2> QED BY <1>22, <2>1, <2>2, <2>3 DEF Refresh, Complete, Write, TypeOK
<1>23. CASE ChildDies \/ AllDie
  <2>1. faults' \in FaultsType
    BY <1>23, Typed DEF ChildDies, AllDie, Crash, FaultsType
  <2> QED BY <1>0, <1>23, <2>1 DEF ChildDies, AllDie, TypeOK
<1>24. CASE UNCHANGED vars
  BY <1>24 DEF vars, TypeOK
<1> QED BY <1>1, <1>2, <1>3, <1>4, <1>5, <1>6, <1>7, <1>8, <1>9, <1>10, <1>11, <1>12, <1>14,
          <1>16, <1>17, <1>18, <1>19, <1>20, <1>21, <1>22, <1>23, <1>24 DEF Next

LEMMA InitHolds == Init => IInv
<1> SUFFICES ASSUME Init PROVE IInv
  OBVIOUS
<1>1. /\ file \in FileType /\ file.layers \in Layers /\ \A p \in Pages : file.layers[p] <= 1
      /\ NoSes \in SesType /\ NoRun \in RunType
  BY DEF Init, FileType, Layers, NoSes, NoRun, SesType, RunType, Pcs
<1>2. marker = Absent /\ sidecar = Absent /\ ses = NoSes /\ run = NoRun /\ Recovered = file
  BY DEF Init, Recovered
<1>3. TypeOK
  BY <1>1, <1>2 DEF Init, TypeOK, FaultsType
<1>4. run.pc = "idle" /\ ses.state = "none" /\ ses.doc = Absent /\ run.ocr = {}
      /\ run.overwrite = FALSE /\ ~run.saved
  BY <1>2 DEF NoSes, NoRun
<1>5. MarkerStands /\ ModelKnows /\ TextIsKept /\ BatchIsSaved /\ ToldIsOnDisk
  BY <1>2, <1>4 DEF MarkerStands, ModelKnows, TextIsKept, BatchIsSaved, ToldIsOnDisk, Saving,
     Called, Shown, InText
<1>6. EachPageOnce
  BY <1>1, <1>2, <1>4 DEF EachPageOnce, LayeredOnce
<1> QED BY <1>3, <1>5, <1>6 DEF IInv

\* A marker is made by the append that it protects.  Once it stands longer, the file is
\* stale.
LEMMA MarkerStep == TypeOK /\ MarkerStands /\ [Next]_vars => MarkerStands'
<1> SUFFICES ASSUME TypeOK, MarkerStands, [Next]_vars PROVE MarkerStands'
  OBVIOUS
<1> USE DEF MarkerStands, Saving, Goto
<1>0. /\ ses \in SesType /\ run \in RunType /\ file \in FileType /\ Recovered \in FileType
      /\ Absent \notin FileType /\ Empty \notin FileType
      /\ file.size \in Nat /\ ~(file.size > file.size) /\ file.size + 1 > file.size
  BY AbsentIsNone, Typed DEF TypeOK, FileType
\* The marker and the file are left alone, and no save begins.
<1>a. ASSUME UNCHANGED <<file, marker>>, faults.stale => faults'.stale,
             run'.pc \notin Saving \cup {"writing"},
             run.pc \notin {"torn", "unmarking"} \/ (run'.pc = "idle" /\ ses'.state = "none"),
             run.pc = "idle" /\ ses.state = "none" => run'.pc = "idle" /\ ses'.state = "none"
      PROVE  MarkerStands'
  BY <1>a DEF Recovered
<1>1. CASE Open
  <2>1. run' = run /\ run.pc = "idle" /\ file' = Recovered /\ marker' = Absent
    BY <1>1 DEF Open
  <2> QED BY <2>1 DEF Recovered
<1>2. CASE Examine \/ TellModel
  <2>1. UNCHANGED <<file, marker, run>> /\ ses'.state = ses.state /\ ses'.doc = ses.doc
    BY <1>0, <1>2 DEF Examine, TellModel, SesType
  <2>2. faults'.stale = faults.stale
    BY <1>2, Typed DEF Examine, TellModel, FaultsType
  <2> QED BY <2>1, <2>2 DEF Recovered, Called
<1>3. CASE Cancel
  <2>1. /\ UNCHANGED <<file, marker, faults>> /\ ses'.state = ses.state /\ ses'.doc = ses.doc
        /\ run'.pc = run.pc /\ run'.packed = run.packed
    BY <1>0, <1>3 DEF Cancel, SesType, RunType
  <2> QED BY <2>1 DEF Recovered, Called
<1>4. CASE Close \/ CloseDoc
  <2>1. /\ UNCHANGED <<file, marker, faults, run>> /\ ses.state # "none"
        /\ \/ ses'.state = "closing" /\ ses'.doc = ses.doc
           \/ ses'.state = "closed" /\ ses'.doc = Absent /\ run.pc # "writing"
           \/ ses' = NoSes /\ run.pc \notin Saving \cup {"writing"}
    BY <1>0, <1>4 DEF Close, CloseDoc, Locked, SesType
  <2> QED BY <2>1 DEF Recovered, Called, NoSes
<1>5. CASE StartRun
  <2>1. run'.pc \in {"idle", "batch"}
    BY <1>5, ZenonT(60) DEF StartRun, NoRun
  <2>2. /\ ses'.state = "open" /\ ses.state = "open" /\ run.pc = "idle"
        /\ UNCHANGED <<file, marker>> /\ faults'.stale = faults.stale
    BY <1>0, <1>5, Typed DEF StartRun, Called, SesType, FaultsType
  <2> QED BY <1>a, <2>1, <2>2
<1>6. CASE NextBatch \/ RenderAndRecognise \/ CallRaises \/ RunRaises
  <2>1. run'.pc \in {"idle", "final", "render", "write", "batch"}
    <3>1. Ended(run).pc = "idle" /\ NoRun.pc = "idle" /\ BatchOver(run).pc = "batch"
      BY <1>0 DEF Ended, NoRun, BatchOver, RunType
    <3>2. CASE NextBatch
      BY <1>0, <3>1, <3>2 DEF NextBatch, RunType
    <3>3. CASE RenderAndRecognise \/ CallRaises \/ RunRaises
      BY <1>0, <3>1, <3>3 DEF RenderAndRecognise, CallRaises, RunRaises, RunType
    <3> QED BY <1>6, <3>2, <3>3
  <2>2. run.pc \in {"batch", "render", "write", "broken"} /\ UNCHANGED <<file, marker, faults>>
    BY <1>6 DEF NextBatch, RenderAndRecognise, CallRaises, RunRaises
  <2> QED BY <1>a, <2>1, <2>2
<1>7. CASE WriteBegin \/ WritePage \/ WriteBreaks
  <2>1. run.pc \in {"write", "writing"} /\ run'.pc \in {"writing", "broken"}
    BY <1>0, <1>7, ZenonT(60) DEF WriteBegin, WritePage, WriteBreaks, RunType
  <2>2. UNCHANGED <<file, marker>> /\ faults'.stale = faults.stale
    BY <1>7, Typed DEF WriteBegin, WritePage, WriteBreaks, Doubled, FaultsType
  <2>3. ses'.state = ses.state /\ ses.state # "none"
    BY <1>0, <1>7 DEF WriteBegin, WritePage, WriteBreaks, Called, SesType
  <2>4. ses'.doc # Absent
    <3>1. ses.doc \in Layers
      BY <1>7, Typed DEF WriteBegin, WritePage, WriteBreaks
    <3>2. CASE WriteBegin
      <4>1. PICK gone :
              ses' = [ses EXCEPT !.doc = [p \in Pages |-> IF p \in gone THEN 0 ELSE @[p]],
                                 !.has = @ \ gone]
        BY <3>2, ZenonT(60) DEF WriteBegin
      <4>2. ses'.doc = [p \in Pages |-> IF p \in gone THEN 0 ELSE ses.doc[p]]
        BY <1>0, <4>1 DEF SesType
      <4> QED BY <3>1, <4>2, AbsentIsNone DEF Layers
    <3>3. CASE WritePage \/ WriteBreaks
      <4>1. \/ ses'.doc = ses.doc
            \/ \E p \in Pages : ses'.doc = [ses.doc EXCEPT ![p] = @ + 1]
        BY <1>0, <3>3 DEF WritePage, WriteBreaks, SesType
      <4>2. \A p \in Pages : [ses.doc EXCEPT ![p] = @ + 1] \in Layers
        BY <3>1 DEF Layers
      <4> QED BY <3>1, <4>1, <4>2, AbsentIsNone
    <3> QED BY <1>7, <3>2, <3>3
  <2> QED BY <2>1, <2>2, <2>3, <2>4 DEF Recovered
<1>8. CASE WriteEnd
  <2>1. run.pc = "writing" /\ run'.pc \in {"respond", "marking"}
        /\ UNCHANGED <<file, marker, faults, ses>>
    BY <1>0, <1>8 DEF WriteEnd, RunType
  <2> QED BY <2>1 DEF Recovered, Called
<1>9. CASE FinalSave
  <2>1. /\ run.pc = "final" /\ UNCHANGED <<file, marker, faults, ses>>
        /\ \/ run'.pc = "idle"
           \/ run'.pc \in {"packing", "marking"} /\ ses.state = "open" /\ ses.doc # Absent
    BY <1>0, <1>9 DEF FinalSave, Called, Ended, NoRun, RunType
  <2> QED BY <2>1 DEF Recovered, Called
<1>10. CASE CreateMarker \/ Mark
  <2>1. /\ run.pc \in {"marking", "naming"} /\ UNCHANGED <<file, faults, ses>>
        /\ \/ run'.pc = "naming" /\ marker' = Empty
           \/ run'.pc = "appending" /\ marker' = file
    BY <1>0, <1>10 DEF CreateMarker, Mark, RunType
  <2> QED BY <1>0, <2>1 DEF Recovered, Called
<1>11. CASE AppendText \/ AppendEnd
  <2>1. /\ UNCHANGED <<marker, faults, ses>>
        /\ \/ run.pc = "appending" /\ run'.pc = "torn" /\ file'.size = file.size + 1
           \/ run.pc = "torn" /\ run'.pc = "unmarking" /\ file'.size = file.size
    BY <1>0, <1>11 DEF AppendText, AppendEnd, RunType
  <2>2. marker \in FileType /\ file'.size > marker.size
    BY <1>0, <2>1
  <2> QED BY <2>1, <2>2 DEF Called
<1>12. Saved(run).pc \in {"idle", "refresh", "respond"} /\ Ended(run).pc = "idle"
  BY <1>0 DEF Saved, Ended, NoRun, RunType
<1>13. CASE Unmark
  <2>1. run'.pc \in {"idle", "refresh", "respond"} /\ marker' = Absent
    BY <1>12, <1>13 DEF Unmark
  <2> QED BY <2>1 DEF Recovered
<1>14. CASE AppendFails
  <2>1. /\ run.pc \in Saving /\ ses' = ses
        /\ run'.pc = "idle" \/ (run'.pc = "packing" /\ run'.packed = run.packed)
    BY <1>0, <1>12, <1>14 DEF AppendFails, RunType
  <2>2. ~faults'.stale => Recovered' = file'
    <3>1. SaveFault => faults'.stale = Stale
      BY Typed DEF SaveFault, FaultsType
    <3>2. CASE run.pc = "marking" /\ UNCHANGED <<file, marker, faults>>
      BY <3>2 DEF Recovered
    <3>3. CASE SaveFault
      BY <3>1, <3>3 DEF Stale
    <3>4. CASE file' = Recovered /\ marker' = Absent
      BY <3>4 DEF Recovered
    <3> QED BY <1>14, <3>2, <3>3, <3>4 DEF AppendFails
  <2> QED BY <2>1, <2>2 DEF Called
<1>15. CASE Pack
  <2>1. /\ UNCHANGED <<file, marker, faults, ses>> /\ run.pc = "packing" /\ ses.doc # Absent
        /\ run'.pc = "swapping" /\ run'.packed = ses.doc
    BY <1>0, <1>15 DEF Pack, RunType
  <2> QED BY <2>1 DEF Recovered, Called
<1>16. CASE Swap
  <2>1. [Saved(run) EXCEPT !.packed = Absent].pc = Saved(run).pc
    BY <1>0 DEF Saved, Ended, NoRun, RunType
  <2>2. run'.pc \in {"idle", "refresh", "respond"}
    BY <1>12, <1>16, <2>1 DEF Swap
  <2>3. faults'.stale = Stale /\ ses'.state = ses.state /\ run.pc = "swapping"
    BY <1>0, <1>16, Typed DEF Swap, FaultsType, SesType
  <2> QED BY <2>2, <2>3 DEF Stale
<1>17. CASE PackFails
  <2>1. /\ run.pc \in {"packing", "swapping"} /\ run'.pc \in {"idle", "respond"}
        /\ UNCHANGED <<file, marker>>
    BY <1>0, <1>12, <1>17 DEF PackFails, RunType
  <2>2. faults.stale => faults'.stale
    BY <1>17, Typed DEF PackFails, SaveFault, Stale, FaultsType
  <2> QED BY <1>a, <2>1, <2>2
<1>18. CASE Respond \/ Checkpoint \/ Refresh \/ Complete
  <2>1. run.pc \in {"respond", "checkpoint", "refresh", "complete"}
        /\ run'.pc \in {"checkpoint", "batch", "complete", "idle"} /\ UNCHANGED <<file, marker>>
    BY <1>0, <1>18 DEF Respond, Checkpoint, Refresh, Complete, Write, BatchOver, Ended, NoRun,
       RunType
  <2>2. faults.stale => faults'.stale
    BY <1>18, Typed DEF Respond, Checkpoint, Refresh, Complete, Write, SaveFault, Stale,
       FaultsType
  <2> QED BY <1>a, <2>1, <2>2
<1>19. CASE ChildDies \/ AllDie
  <2>1. /\ UNCHANGED <<file, marker>> /\ ses' = NoSes /\ faults'.stale = faults.stale
        /\ run'.pc = "idle" \/ (run' = run /\ run.pc \notin Saving \cup {"writing"})
        /\ run.pc = "idle" => run'.pc = "idle"
    BY <1>12, <1>19, Typed DEF ChildDies, AllDie, Crash, NoRun, FaultsType
  <2> QED BY <1>a, <2>1 DEF NoSes
<1>20. CASE UNCHANGED vars
  BY <1>20 DEF vars, Recovered, Called
<1> QED BY <1>1, <1>2, <1>3, <1>4, <1>5, <1>6, <1>7, <1>8, <1>9, <1>10, <1>11, <1>13, <1>14,
          <1>15, <1>16, <1>17, <1>18, <1>19, <1>20 DEF Next

\* What went wrong is not forgotten.
Remembered == /\ faults.stale => faults'.stale
              /\ faults.lacking \subseteq faults'.lacking
              /\ faults.doubled \subseteq faults'.doubled

LEMMA FaultsStay == TypeOK /\ [Next]_vars => Remembered
<1> SUFFICES ASSUME TypeOK, [Next]_vars PROVE Remembered
  OBVIOUS
<1> USE DEF Remembered
<1>0. faults \in FaultsType
  BY Typed
<1>1. CASE UNCHANGED faults
  BY <1>1
<1>2. CASE SaveFault
  BY <1>0, <1>2 DEF SaveFault, Stale, FaultsType
<1>3. CASE Examine \/ StartRun \/ WriteBegin \/ Swap \/ ChildDies \/ AllDie
  BY <1>0, <1>3 DEF Examine, StartRun, WriteBegin, Swap, ChildDies, AllDie, Crash, Stale,
     FaultsType
<1>4. CASE WritePage \/ WriteBreaks
  <2>1. PICK q \in Pages :
          faults' \in {Doubled(q), [faults EXCEPT !.lacking = @ \cup {q}],
                      [Doubled(q) EXCEPT !.saves = @ + 1, !.lacking = @ \cup {q}],
                      [faults EXCEPT !.saves = @ + 1]}
    BY <1>4 DEF WritePage, WriteBreaks
  <2>2. /\ Doubled(q).stale = faults.stale /\ Doubled(q).lacking = faults.lacking
        /\ faults.doubled \subseteq Doubled(q).doubled /\ Doubled(q) \in FaultsType
    BY <1>0, Typed DEF Doubled, FaultsType
  <2> QED BY <1>0, <2>1, <2>2 DEF FaultsType
<1>5. \/ UNCHANGED faults \/ SaveFault
      \/ Examine \/ StartRun \/ WriteBegin \/ Swap \/ ChildDies \/ AllDie
      \/ WritePage \/ WriteBreaks
  BY ZenonT(60) DEF Next, vars, Open, TellModel, Cancel, Close, CloseDoc, NextBatch,
     RenderAndRecognise, CallRaises, RunRaises, WriteEnd, FinalSave, CreateMarker, Mark,
     AppendText, AppendEnd, Unmark, AppendFails, Pack, PackFails, Respond, Checkpoint, Refresh,
     Complete, Write
<1> QED BY <1>1, <1>2, <1>3, <1>4, <1>5

\* What a step does to the file, unless it is stale.
LEMMA FileSteps ==
  ASSUME TypeOK, MarkerStands, [Next]_vars, ~faults'.stale
  PROVE  \/ file' = file /\ Recovered' = Recovered
         \/ Open /\ file' = Recovered /\ Recovered' = Recovered
         \/ AppendFails /\ file' = Recovered /\ Recovered' = Recovered
         \/ AppendText /\ file'.layers = NoText /\ Recovered' = Recovered
         \/ AppendEnd /\ file'.layers = ses.doc /\ Recovered' = Recovered
         \/ Unmark /\ file' = file /\ Recovered' = file
         \/ Swap /\ file'.layers = run.packed /\ Recovered' = file'
<1>0. /\ file \in FileType /\ Absent \notin FileType /\ Empty \notin FileType
      /\ file.size \in Nat /\ ~(file.size > file.size) /\ file.size + 1 > file.size
  BY AbsentIsNone, Typed DEF TypeOK, FileType
<1>1. ~faults.stale
  BY FaultsStay DEF Remembered
<1>2. CASE UNCHANGED <<file, marker>>
  BY <1>2 DEF Recovered
<1>3. CASE Open
  BY <1>3 DEF Open, Recovered
<1>4. CASE CreateMarker \/ Mark
  <2>1. file' = file /\ marker' \in {Empty, file} /\ run.pc \in {"marking", "naming"}
    BY <1>4 DEF CreateMarker, Mark
  <2>2. Recovered = file
    BY <1>1, <2>1 DEF MarkerStands
  <2> QED BY <1>0, <2>1, <2>2 DEF Recovered
<1>5. CASE AppendText
  BY <1>0, <1>5 DEF AppendText, MarkerStands, Recovered
<1>6. CASE AppendEnd
  BY <1>0, <1>6 DEF AppendEnd, MarkerStands, Recovered
<1>7. CASE Unmark
  BY <1>7 DEF Unmark, Recovered
<1>8. CASE AppendFails
  <2>1. CASE file' = file /\ marker' \in {Empty, file} /\ run.pc = "naming"
    <3>1. Recovered = file
      BY <1>1, <2>1 DEF MarkerStands
    <3> QED BY <1>0, <2>1, <3>1 DEF Recovered
  <2>2. CASE file' = Recovered /\ marker' = Absent
    BY <1>8, <2>2 DEF Recovered
  <2>3. CASE file' = Recovered /\ SaveFault
    <3>1. Recovered' = file'
      BY <2>3, Typed DEF SaveFault, Stale, FaultsType
    <3> QED BY <1>8, <2>3, <3>1
  <2> QED BY <1>2, <1>8, <2>1, <2>2, <2>3 DEF AppendFails
<1>9. CASE Swap
  <2>1. Recovered' = file'
    BY <1>9, Typed DEF Swap, Stale, FaultsType
  <2> QED BY <1>9, <2>1 DEF Swap
<1>10. \/ UNCHANGED <<file, marker>>
       \/ Open \/ CreateMarker \/ Mark \/ AppendText \/ AppendEnd \/ Unmark \/ AppendFails \/ Swap
  BY ZenonT(60) DEF Next, vars, Examine, TellModel, Cancel, Close, CloseDoc, StartRun, NextBatch,
     RenderAndRecognise, CallRaises, RunRaises, WriteBegin, WritePage, WriteBreaks, WriteEnd,
     FinalSave, Pack, PackFails, Respond, Checkpoint, Refresh, Complete, Write, ChildDies, AllDie
<1> QED BY <1>2, <1>3, <1>4, <1>5, <1>6, <1>7, <1>8, <1>9, <1>10

\* Nothing that is on disk is lost.
LEMMA DiskStep ==
  TypeOK /\ MarkerStands /\ TextIsKept /\ [Next]_vars /\ ~faults'.stale => OnDisk \subseteq OnDisk'
<1> SUFFICES ASSUME TypeOK, MarkerStands, TextIsKept, [Next]_vars, ~faults'.stale
             PROVE  OnDisk \subseteq OnDisk'
  OBVIOUS
<1>1. ~faults.stale
  BY FaultsStay DEF Remembered
<1>2. CASE Recovered' = Recovered
  BY <1>2 DEF OnDisk
<1>3. CASE Unmark /\ Recovered' = file
  BY <1>1, <1>3 DEF Unmark, TextIsKept, OnDisk
<1>4. CASE Swap /\ file'.layers = run.packed /\ Recovered' = file'
  BY <1>1, <1>4 DEF Swap, TextIsKept, OnDisk
<1> QED BY <1>2, <1>3, <1>4, FileSteps

\* What a step does to the document.
LEMMA DocSteps ==
  ASSUME TypeOK, MarkerStands, ~run.overwrite, [Next]_vars
  PROVE  \/ ses'.doc = ses.doc
         \/ ses'.doc = Absent /\ run'.pc # "writing" /\ ses'.state # "open"
         \/ ses'.doc = Absent /\ PackFails
         \/ Open /\ ses'.doc = Recovered.layers
         \/ (WritePage \/ WriteBreaks) /\ \E p \in run.todo :
              ses'.doc = [ses.doc EXCEPT ![p] = @ + 1]
         \/ Swap /\ ses'.doc = run.packed
         \/ PackFails /\ ses'.doc = file.layers
<1>0. ses \in SesType /\ run \in RunType
  BY Typed
<1>1. CASE Open
  BY <1>1 DEF Open, NoSes
<1>2. CASE \/ Examine \/ TellModel \/ Cancel \/ Close \/ StartRun \/ NextBatch
           \/ RenderAndRecognise \/ CallRaises \/ RunRaises \/ WriteEnd \/ FinalSave
  BY <1>0, <1>2 DEF Examine, TellModel, Cancel, Close, StartRun, NextBatch, RenderAndRecognise,
     CallRaises, RunRaises, WriteEnd, FinalSave, SesType
<1>3. CASE CloseDoc
  BY <1>0, <1>3 DEF CloseDoc, Locked, NoSes, SesType
<1>4. CASE WriteBegin
  <2>1. Skipped = run.todo \cap ses.has /\ ses.doc \in Layers
    BY <1>4, Typed DEF WriteBegin, Skipped
  <2>2. PICK gone : /\ gone = {}
                    /\ ses' = [ses EXCEPT !.doc = [p \in Pages |-> IF p \in gone THEN 0 ELSE @[p]],
                                          !.has = @ \ gone]
    BY <1>4, <2>1, ZenonT(60) DEF WriteBegin
  <2>3. ses'.doc = [p \in Pages |-> IF p \in gone THEN 0 ELSE ses.doc[p]]
    BY <1>0, <2>2 DEF SesType
  <2> QED BY <2>1, <2>2, <2>3 DEF Layers
<1>5. CASE WritePage \/ WriteBreaks
  <2>1. PICK p \in run.todo : \/ ses'.doc = ses.doc
                              \/ ses'.doc = [ses.doc EXCEPT ![p] = @ + 1]
    BY <1>0, <1>5 DEF WritePage, WriteBreaks, Least, SesType
  <2> QED BY <1>5, <2>1
<1>6. CASE CreateMarker \/ Mark \/ AppendText \/ AppendEnd \/ Unmark \/ AppendFails \/ Pack
  BY <1>6 DEF CreateMarker, Mark, AppendText, AppendEnd, Unmark, AppendFails, Pack
<1>7. CASE Swap
  BY <1>0, <1>7 DEF Swap, SesType
<1>8. CASE PackFails
  BY <1>0, <1>8 DEF PackFails, SesType
<1>9. CASE Respond
  <2>1. run'.pc # "writing"
    BY <1>0, <1>9 DEF Respond, BatchOver, RunType
  <2> QED BY <1>9, <2>1 DEF Respond, NoSes
<1>10. CASE Checkpoint \/ Refresh \/ Complete \/ UNCHANGED vars
  BY <1>10 DEF Checkpoint, Refresh, Complete, Write, vars
<1>11. CASE ChildDies \/ AllDie
  <2>1. run'.pc # "writing"
    BY <1>0, <1>11 DEF ChildDies, AllDie, Ended, NoRun
  <2> QED BY <1>11, <2>1 DEF ChildDies, AllDie, NoSes
<1> QED BY <1>1, <1>2, <1>3, <1>4, <1>5, <1>6, <1>7, <1>8, <1>9, <1>10, <1>11 DEF Next

\* The steps that a request at work, or the next, may see meanwhile.
Beside == Examine \/ TellModel \/ Cancel \/ Close \/ CloseDoc \/ UNCHANGED vars

LEMMA PhaseSteps ==
  ASSUME TypeOK, [Next]_vars, run'.pc \in {"writing", "unmarking", "swapping"}
  PROVE  \/ /\ Beside /\ run'.pc = run.pc /\ run'.packed = run.packed /\ run'.batch = run.batch
            /\ run'.todo = run.todo /\ run'.results = run.results /\ run'.saved = run.saved
            /\ UNCHANGED <<file, marker>>
         \/ WriteBegin \/ WritePage
         \/ AppendEnd /\ run'.pc = "unmarking"
         \/ Pack /\ run'.pc = "swapping" /\ run'.packed = ses.doc /\ ses.doc # Absent
<1> USE DEF Goto
<1>0. /\ run \in RunType /\ Ended(run).pc = "idle" /\ BatchOver(run).pc = "batch"
      /\ Saved(run).pc \in {"idle", "refresh", "respond"} /\ NoRun.pc = "idle"
  BY Typed DEF Ended, BatchOver, Saved, NoRun, RunType
<1>1. CASE Beside
  BY <1>0, <1>1 DEF Beside, Examine, TellModel, Cancel, Close, CloseDoc, vars, RunType
<1>2. CASE Open \/ StartRun
  BY <1>0, <1>2, ZenonT(60) DEF Open, StartRun, NoRun
<1>3. CASE NextBatch \/ RenderAndRecognise \/ CallRaises \/ RunRaises
  <2>1. CASE NextBatch
    BY <1>0, <2>1 DEF NextBatch, RunType
  <2>2. CASE RenderAndRecognise \/ CallRaises \/ RunRaises
    BY <1>0, <2>2 DEF RenderAndRecognise, CallRaises, RunRaises, RunType
  <2> QED BY <1>3, <2>1, <2>2
<1>4. CASE WriteBegin \/ WritePage
  BY <1>4
<1>5. CASE WriteBreaks \/ WriteEnd \/ FinalSave \/ CreateMarker \/ Mark \/ AppendText
  BY <1>0, <1>5 DEF WriteBreaks, WriteEnd, FinalSave, CreateMarker, Mark, AppendText, RunType
<1>6. CASE AppendEnd \/ Pack
  BY <1>0, <1>6 DEF AppendEnd, Pack, RunType
<1>7. CASE Unmark \/ AppendFails \/ PackFails
  BY <1>0, <1>7 DEF Unmark, AppendFails, PackFails, RunType
<1>8. CASE Swap
  <2>1. [Saved(run) EXCEPT !.packed = Absent].pc = Saved(run).pc
    BY <1>0 DEF Saved, Ended, NoRun, RunType
  <2> QED BY <1>0, <1>8, <2>1 DEF Swap
<1>9. CASE Respond \/ Checkpoint \/ Refresh \/ Complete
  <2>1. run'.pc \in {"checkpoint", "batch", "complete", "idle"}
    BY <1>0, <1>9 DEF Respond, Checkpoint, Refresh, Complete, BatchOver, RunType
  <2> QED BY <2>1
<1>10. CASE ChildDies \/ AllDie
  BY <1>0, <1>10 DEF ChildDies, AllDie, Saving
<1> QED BY <1>1, <1>2, <1>3, <1>4, <1>5, <1>6, <1>7, <1>8, <1>9, <1>10 DEF Next, Beside

\* A page that is written had no layer, or the model had not been told of it.
LEMMA OnceStep ==
  TypeOK /\ MarkerStands /\ TextIsKept /\ ModelKnows /\ EachPageOnce /\ [Next]_vars
    => EachPageOnce'
<1> SUFFICES ASSUME TypeOK, MarkerStands, TextIsKept, ModelKnows, EachPageOnce, [Next]_vars,
                    ~faults'.stale
             PROVE  /\ LayeredOnce(file.layers)' /\ LayeredOnce(Recovered.layers)'
                    /\ LayeredOnce(ses.doc)' /\ (run'.pc = "swapping" => LayeredOnce(run.packed)')
  BY DEF EachPageOnce
<1> DEFINE Once(d) == d # Absent => \A p \in Pages \ faults'.doubled : d[p] <= 1
<1>0. /\ ~faults.stale /\ faults.doubled \subseteq faults'.doubled
  BY FaultsStay DEF Remembered
<1>1. \A d : LayeredOnce(d) => Once(d)
  BY <1>0 DEF LayeredOnce
<1>2. /\ Once(file.layers) /\ Once(Recovered.layers) /\ Once(ses.doc)
      /\ run.pc = "swapping" => Once(run.packed)
  BY <1>0, <1>1 DEF EachPageOnce
<1>3. Once(NoText)
  BY DEF NoText
<1> SUFFICES /\ Once(file'.layers) /\ Once(Recovered'.layers) /\ Once(ses'.doc)
             /\ run'.pc = "swapping" => Once(run'.packed)
  BY DEF LayeredOnce
<1> HIDE DEF Once
<1>4. Once(file'.layers) /\ Once(Recovered'.layers)
  BY <1>2, <1>3, FileSteps DEF Swap
<1>5. Once(ses'.doc)
  <2>1. CASE (WritePage \/ WriteBreaks) /\ \E p \in run.todo : ses'.doc = [ses.doc EXCEPT ![p] = @ + 1]
    <3>1. PICK p \in Pages :
            /\ p \in run.todo
            /\ ses'.doc = ses.doc
                 \/ (ses'.doc = [ses.doc EXCEPT ![p] = @ + 1]
                      /\ faults'.doubled = faults.doubled \cup ({p} \cap ses.blind \cap Shown))
      <4>1. ASSUME NEW p \in Pages
            PROVE  /\ Doubled(p).doubled = faults.doubled \cup ({p} \cap ses.blind \cap Shown)
                   /\ [Doubled(p) EXCEPT !.saves = @ + 1, !.lacking = @ \cup {p}].doubled
                         = Doubled(p).doubled
        BY Typed DEF Doubled, FaultsType
      <4> QED BY <2>1, <4>1, Typed DEF WritePage, WriteBreaks, Least, SesType
    <3>2. CASE ses'.doc = ses.doc
      BY <1>2, <3>2
    <3>3. CASE p \in faults'.doubled /\ ses'.doc = [ses.doc EXCEPT ![p] = @ + 1]
      <4>1. ses.doc \in Layers /\ ses.doc # Absent
        BY <2>1, Typed DEF WritePage, WriteBreaks, MarkerStands
      <4> QED BY <1>2, <3>3, <4>1 DEF Once, Layers
    <3>4. CASE p \notin faults'.doubled /\ ses'.doc = [ses.doc EXCEPT ![p] = @ + 1]
               /\ faults'.doubled = faults.doubled \cup ({p} \cap ses.blind \cap Shown)
      <4>1. ses.doc \in Layers /\ ses.doc # Absent /\ run.pc = "writing"
        BY <2>1, Typed DEF WritePage, WriteBreaks, MarkerStands
      <4>2. p \notin Shown
        BY <1>0, <3>1, <3>4, <4>1 DEF ModelKnows
      <4>3. ses.doc[p] = 0
        BY <4>1, <4>2 DEF Shown, Texts, Layers
      <4> QED BY <1>2, <3>4, <4>1, <4>3 DEF Once, Layers
    <3> QED BY <3>1, <3>2, <3>3, <3>4
  <2>2. Once(Absent)
    BY DEF Once
  <2> QED BY <1>2, <2>1, <2>2, DocSteps DEF TextIsKept, Swap
<1>6. run'.pc = "swapping" => Once(run'.packed)
  BY <1>2, PhaseSteps, Typed DEF WriteBegin, WritePage, RunType
<1> QED BY <1>4, <1>5, <1>6

\* What the steps that write do to the session and the run.
LEMMA BeginWrites ==
  ASSUME TypeOK, ~run.overwrite, WriteBegin
  PROVE  /\ Shown' = Shown /\ ses'.doc = ses.doc /\ ses'.has = ses.has /\ ses'.blind = ses.blind
         /\ Called /\ ses.doc # Absent /\ run.pc = "write" /\ run'.pc = "writing"
         /\ run'.todo = run.todo \ ses.has /\ run'.results = run.todo \cap ses.has
         /\ run'.saved = run.saved /\ UNCHANGED <<file, marker>>
         /\ faults'.lacking = faults.lacking \cup ((run.todo \cap ses.has) \ Shown)
<1>0. ses \in SesType /\ run \in RunType /\ faults \in FaultsType
  BY Typed
<1>1. Skipped = run.todo \cap ses.has /\ ses.doc \in Layers /\ ses.doc # Absent
  BY Typed DEF WriteBegin, Skipped
<1>2. PICK gone : /\ gone = {}
                  /\ ses' = [ses EXCEPT !.doc = [p \in Pages |-> IF p \in gone THEN 0 ELSE @[p]],
                                        !.has = @ \ gone]
  BY <1>1, ZenonT(60) DEF WriteBegin
<1>3. /\ ses'.doc = [p \in Pages |-> IF p \in gone THEN 0 ELSE ses.doc[p]]
      /\ ses'.has = ses.has \ gone /\ ses'.blind = ses.blind
  BY <1>0, <1>2 DEF SesType
<1>4. ses'.doc = ses.doc /\ ses'.has = ses.has
  BY <1>1, <1>2, <1>3 DEF Layers
<1>5. /\ run'.todo = run.todo \ ses.has /\ run'.results = run.todo \cap ses.has
      /\ run'.pc = "writing" /\ run'.saved = run.saved
  BY <1>0, <1>1 DEF WriteBegin, RunType
<1>6. faults'.lacking = faults.lacking \cup ((run.todo \cap ses.has) \ Shown)
  BY <1>0, <1>1 DEF WriteBegin, Shown, FaultsType
<1>7. Called /\ run.pc = "write" /\ UNCHANGED <<file, marker>>
  BY DEF WriteBegin
<1> QED BY <1>1, <1>3, <1>4, <1>5, <1>6, <1>7 DEF Shown

LEMMA PageWrites ==
  ASSUME TypeOK, MarkerStands, WritePage
  PROVE  /\ run.pc = "writing" /\ run'.pc = "writing" /\ run'.saved = run.saved
         /\ UNCHANGED <<file, marker>>
         /\ \E p \in run.todo :
              /\ run'.todo = run.todo \ {p} /\ run'.results = run.results \cup {p}
              /\ \/ /\ Shown' = Shown \cup {p} /\ ses'.has = ses.has \cup {p}
                    /\ ses'.blind = ses.blind \ {p}
                 \/ /\ Shown' = Shown /\ ses'.has = ses.has \ {p}
                    /\ ses'.blind = ses.blind \cup ({p} \cap Shown) /\ p \in faults'.lacking
<1>0. ses \in SesType /\ run \in RunType /\ faults \in FaultsType
  BY Typed
<1>1. PICK p \in run.todo :
        /\ p \in Pages /\ run' = [run EXCEPT !.todo = @ \ {p}, !.results = @ \cup {p}]
        /\ \/ ses' = [ses EXCEPT !.doc[p] = @ + 1, !.has = @ \cup {p}, !.blind = @ \ {p}]
           \/ /\ ses' = [ses EXCEPT !.has = @ \ {p}, !.blind = @ \cup ({p} \cap Shown)]
              /\ faults' = [faults EXCEPT !.lacking = @ \cup {p}]
  BY DEF WritePage, Least
<1>2. /\ run.pc = "writing" /\ run'.pc = "writing" /\ run'.saved = run.saved
      /\ UNCHANGED <<file, marker>>
      /\ run'.todo = run.todo \ {p} /\ run'.results = run.results \cup {p}
  BY <1>0, <1>1 DEF WritePage, RunType
<1>3. CASE ses' = [ses EXCEPT !.doc[p] = @ + 1, !.has = @ \cup {p}, !.blind = @ \ {p}]
  <2>1. /\ ses'.doc = [ses.doc EXCEPT ![p] = @ + 1] /\ ses'.has = ses.has \cup {p}
        /\ ses'.blind = ses.blind \ {p}
    BY <1>0, <1>3 DEF SesType
  <2>2. ses.doc \in Layers /\ ses.doc # Absent /\ ses'.doc \in Layers
    BY <1>1, <1>2, <2>1, Typed DEF MarkerStands, Layers
  <2>3. Texts(ses'.doc) = Texts(ses.doc) \cup {p}
    BY <1>1, <2>1, <2>2 DEF Texts, Layers
  <2>4. Shown' = Shown \cup {p}
    BY <2>2, <2>3, AbsentIsNone DEF Shown
  <2> QED BY <1>2, <2>1, <2>4
<1>4. CASE /\ ses' = [ses EXCEPT !.has = @ \ {p}, !.blind = @ \cup ({p} \cap Shown)]
           /\ faults' = [faults EXCEPT !.lacking = @ \cup {p}]
  <2>1. /\ ses'.doc = ses.doc /\ ses'.has = ses.has \ {p}
        /\ ses'.blind = ses.blind \cup ({p} \cap Shown) /\ p \in faults'.lacking
    BY <1>0, <1>4 DEF SesType, FaultsType
  <2> QED BY <1>2, <2>1 DEF Shown
<1> QED BY <1>1, <1>3, <1>4

LEMMA PageBreaks ==
  ASSUME TypeOK, MarkerStands, WriteBreaks
  PROVE  /\ run'.pc = "broken" /\ UNCHANGED <<file, marker>> /\ ses'.has = ses.has
         /\ \/ Shown' = Shown /\ ses'.blind = ses.blind
            \/ \E p \in Pages : Shown' = Shown \cup {p} /\ ses'.blind = ses.blind \cup {p}
<1>0. ses \in SesType /\ run \in RunType
  BY Typed
<1>1. run'.pc = "broken" /\ UNCHANGED <<file, marker>> /\ ses.doc # Absent /\ ses.doc \in Layers
  BY <1>0, Typed DEF WriteBreaks, MarkerStands, RunType
<1>2. CASE UNCHANGED ses
  BY <1>1, <1>2 DEF Shown
<1>3. CASE ~UNCHANGED ses
  <2>1. PICK p \in Pages : ses' = [ses EXCEPT !.doc[p] = @ + 1, !.blind = @ \cup {p}]
    BY <1>3 DEF WriteBreaks
  <2>2. /\ ses'.doc = [ses.doc EXCEPT ![p] = @ + 1] /\ ses'.has = ses.has
        /\ ses'.blind = ses.blind \cup {p}
    BY <1>0, <2>1 DEF SesType
  <2>3. ses'.doc \in Layers
    BY <1>1, <2>2 DEF Layers
  <2>4. Texts(ses'.doc) = Texts(ses.doc) \cup {p}
    BY <1>1, <2>2 DEF Texts, Layers
  <2>5. Shown' = Shown \cup {p}
    BY <1>1, <2>3, <2>4, AbsentIsNone DEF Shown
  <2> QED BY <1>1, <2>2, <2>5
<1> QED BY <1>2, <1>3

LEMMA ModelTold ==
  ASSUME TypeOK, TellModel
  PROVE  /\ Shown' = Shown /\ ses'.doc = ses.doc /\ run' = run /\ Called
         /\ \E p \in Pages :
              \/ /\ ses'.has = ses.has \cup {p}
                 /\ ses'.blind = ses.blind
                                   \ ({p} \ (IF run.pc = "writing" THEN run.todo ELSE {}))
              \/ /\ ses'.has = ses.has \ {p}
                 /\ ses'.blind = ses.blind \cup ({p} \cap Shown)
<1>0. ses \in SesType
  BY Typed
<1>1. PICK l \in ses.look :
        ses' = IF l.has
               THEN [ses EXCEPT !.look = {}, !.has = @ \cup {l.page},
                       !.blind = @ \ ({l.page} \ (IF run.pc = "writing" THEN run.todo ELSE {}))]
               ELSE [ses EXCEPT !.look = {}, !.has = @ \ {l.page},
                       !.blind = @ \cup ({l.page} \cap Shown)]
  BY DEF TellModel
<1>2. l.page \in Pages
  BY <1>0 DEF SesType
<1>3. ses'.doc = ses.doc
  BY <1>0, <1>1 DEF SesType
<1>4. \/ /\ ses'.has = ses.has \cup {l.page}
         /\ ses'.blind = ses.blind
                           \ ({l.page} \ (IF run.pc = "writing" THEN run.todo ELSE {}))
      \/ /\ ses'.has = ses.has \ {l.page}
         /\ ses'.blind = ses.blind \cup ({l.page} \cap Shown)
  BY <1>0, <1>1 DEF SesType
<1> QED BY <1>2, <1>3, <1>4 DEF TellModel, Called, Shown

\* What the page model is told of, and what it is known not to be told.
LEMMA KnowsStep ==
  TypeOK /\ MarkerStands /\ TextIsKept /\ ModelKnows /\ [Next]_vars => ModelKnows'
<1> SUFFICES ASSUME TypeOK, MarkerStands, TextIsKept, ModelKnows, [Next]_vars, ~faults'.stale
             PROVE  /\ Called' => Shown' \subseteq ses'.has \cup ses'.blind
                    /\ run'.pc = "writing" => run'.todo \cap Shown' \subseteq ses'.blind
  BY DEF ModelKnows
<1> USE DEF Goto
<1>0. /\ ses \in SesType /\ run \in RunType /\ Shown \subseteq Pages /\ ~run.overwrite
      /\ ~faults.stale
      /\ Called => Shown \subseteq ses.has \cup ses.blind
      /\ run.pc = "writing" => run.todo \cap Shown \subseteq ses.blind
  BY FaultsStay, Typed DEF Remembered, ModelKnows, TextIsKept
<1>1. Called' => Shown' \subseteq ses'.has \cup ses'.blind
  <2> SUFFICES ASSUME ses'.state = "open" PROVE Shown' \subseteq ses'.has \cup ses'.blind
    BY DEF Called
  <2>1. CASE Open
    BY <2>1 DEF Open, NoSes, Shown
  <2>2. CASE TellModel
    BY <1>0, <2>2, ModelTold
  <2>3. CASE \/ Examine \/ Cancel \/ Close \/ StartRun \/ NextBatch \/ RenderAndRecognise
             \/ CallRaises \/ RunRaises \/ WriteEnd \/ FinalSave \/ CreateMarker \/ Mark
             \/ AppendText \/ AppendEnd \/ Unmark \/ AppendFails \/ Pack \/ Checkpoint \/ Refresh
             \/ Complete \/ UNCHANGED vars
    <3>1. /\ ses'.doc = ses.doc /\ ses'.has = ses.has /\ ses'.blind = ses.blind
          /\ ses'.state = ses.state \/ ses'.state = "closing"
      <4>1. CASE Examine \/ Cancel \/ Close \/ StartRun \/ CallRaises
        BY <1>0, <4>1 DEF Examine, Cancel, Close, StartRun, CallRaises, SesType
      <4>2. CASE UNCHANGED ses
        BY <4>2
      <4> QED BY <2>3, <4>1, <4>2 DEF NextBatch, RenderAndRecognise, RunRaises, WriteEnd, FinalSave,
             CreateMarker, Mark, AppendText, AppendEnd, Unmark, AppendFails, Pack, Checkpoint,
             Refresh, Complete, Write, vars
    <3> QED BY <1>0, <3>1 DEF Called, Shown
  <2>4. CASE CloseDoc \/ Respond \/ ChildDies \/ AllDie
    <3>1. ses' \in {[ses EXCEPT !.state = "closed", !.doc = Absent], NoSes, ses}
      BY <2>4 DEF CloseDoc, Respond, ChildDies, AllDie
    <3>2. [ses EXCEPT !.state = "closed", !.doc = Absent].state = "closed" /\ NoSes.state = "none"
      BY <1>0 DEF NoSes, SesType
    <3>3. ses' = ses
      BY <3>1, <3>2
    <3> QED BY <1>0, <3>3 DEF Called, Shown
  <2>5. CASE WriteBegin
    BY <1>0, <2>5, BeginWrites
  <2>6. CASE WritePage \/ WriteBreaks
    <3>1. Called
      BY <1>0, <2>6 DEF WritePage, WriteBreaks, Called, SesType
    <3>2. CASE WritePage
      BY <1>0, <3>1, <3>2, PageWrites
    <3>3. CASE WriteBreaks
      BY <1>0, <3>1, <3>3, PageBreaks
    <3> QED BY <2>6, <3>2, <3>3
  <2>7. CASE Swap
    <3>1. /\ ses'.doc = run.packed /\ ses'.has = ses.has /\ ses'.blind = ses.blind
          /\ ses'.state = ses.state /\ run.pc = "swapping"
      BY <1>0, <2>7 DEF Swap, SesType
    <3>2. Called /\ ses.doc = run.packed
      BY <3>1 DEF Called, MarkerStands, Saving
    <3> QED BY <1>0, <3>1, <3>2 DEF Shown
  <2>8. CASE PackFails
    <3>1. /\ ses'.doc \in {file.layers, Absent} /\ ses'.has = ses.has /\ ses'.blind = ses.blind
          /\ ses'.state = ses.state /\ run.pc \in {"packing", "swapping"}
      BY <1>0, <2>8 DEF PackFails, SesType
    <3>2. Called /\ ses.doc # Absent /\ Recovered = file
      BY <1>0, <3>1 DEF Called, MarkerStands, Saving
    <3>3. Texts(file.layers) \subseteq Shown
      BY <1>0, <3>2 DEF TextIsKept, OnDisk, Shown
    <3> QED BY <1>0, <3>1, <3>2, <3>3 DEF Shown
  <2> QED BY <2>1, <2>2, <2>3, <2>4, <2>5, <2>6, <2>7, <2>8 DEF Next
<1>2. ASSUME run'.pc = "writing" PROVE run'.todo \cap Shown' \subseteq ses'.blind
  <2>1. CASE Beside /\ run'.pc = run.pc /\ run'.todo = run.todo
    <3>1. CASE Examine \/ Cancel \/ Close \/ UNCHANGED vars
      <4>1. ses'.doc = ses.doc /\ ses'.blind = ses.blind
        BY <1>0, <3>1 DEF Examine, Cancel, Close, vars, SesType
      <4> QED BY <1>0, <1>2, <2>1, <4>1 DEF Shown
    <3>2. CASE TellModel
      BY <1>0, <1>2, <2>1, <3>2, ModelTold
    <3>3. CASE CloseDoc
      BY <1>2, <3>3 DEF CloseDoc, Locked
    <3> QED BY <2>1, <3>1, <3>2, <3>3 DEF Beside
  <2>2. CASE WriteBegin
    BY <1>0, <2>2, BeginWrites
  <2>3. CASE WritePage
    BY <1>0, <2>3, PageWrites
  <2> QED BY <1>2, <2>1, <2>2, <2>3, PhaseSteps
<1> QED BY <1>1, <1>2

\* What is saved has all the text that is on disk.
LEMMA KeptStep ==
  ASSUME Careful
  PROVE  TypeOK /\ MarkerStands /\ TextIsKept /\ [Next]_vars => TextIsKept'
<1> SUFFICES ASSUME TypeOK, MarkerStands, TextIsKept, [Next]_vars PROVE TextIsKept'
  OBVIOUS
<1> USE DEF Goto
<1>0. /\ ses \in SesType /\ run \in RunType /\ ~run.overwrite
  BY Typed DEF TextIsKept
<1>1. ~run'.overwrite
  <2>1. CASE StartRun
    <3>1. PICK over \in Overwrites : run'.overwrite = over
      BY <2>1 DEF StartRun, NoRun
    <3> QED BY <3>1 DEF Careful
  <2>2. run'.overwrite \in {run.overwrite, FALSE} \/ StartRun
    <3>1. /\ Ended(run).overwrite = FALSE /\ NoRun.overwrite = FALSE
          /\ BatchOver(run).overwrite = run.overwrite
          /\ Saved(run).overwrite \in {run.overwrite, FALSE}
          /\ [Saved(run) EXCEPT !.packed = Absent].overwrite = Saved(run).overwrite
      BY <1>0 DEF Ended, NoRun, BatchOver, Saved, RunType
    <3>2. CASE Open \/ Examine \/ TellModel \/ Cancel \/ Close \/ CloseDoc \/ NextBatch
      BY <1>0, <3>1, <3>2 DEF Open, Examine, TellModel, Cancel, Close, CloseDoc, NextBatch, RunType
    <3>3. CASE RenderAndRecognise \/ CallRaises \/ RunRaises \/ WriteBegin \/ WriteEnd \/ FinalSave
      BY <1>0, <3>1, <3>3, ZenonT(60) DEF RenderAndRecognise, CallRaises, RunRaises, WriteBegin,
         WriteEnd, FinalSave, RunType
    <3>4. CASE WritePage \/ WriteBreaks
      BY <1>0, <3>4 DEF WritePage, WriteBreaks, RunType
    <3>5. CASE CreateMarker \/ Mark \/ AppendText \/ AppendEnd \/ Unmark \/ AppendFails \/ Pack
               \/ PackFails
      BY <1>0, <3>1, <3>5 DEF CreateMarker, Mark, AppendText, AppendEnd, Unmark, AppendFails, Pack,
         PackFails, RunType
    <3>6. CASE Swap
      BY <3>1, <3>6 DEF Swap
    <3>7. CASE Respond \/ Checkpoint \/ Refresh \/ Complete \/ ChildDies \/ AllDie
               \/ UNCHANGED vars
      <4>1. [BatchOver(run) EXCEPT !.ocr = @ \cup run.results].overwrite = run.overwrite
        BY <1>0 DEF BatchOver, RunType
      <4> QED BY <1>0, <3>1, <3>7, <4>1 DEF Respond, Checkpoint, Refresh, Complete, ChildDies,
             AllDie, vars, RunType
    <3> QED BY <3>2, <3>3, <3>4, <3>5, <3>6, <3>7 DEF Next
  <2> QED BY <1>0, <2>1, <2>2
<1> SUFFICES ASSUME ~faults'.stale
             PROVE  /\ ses'.doc # Absent => OnDisk' \subseteq Texts(ses'.doc)
                    /\ run'.pc = "swapping" => OnDisk' \subseteq Texts(run'.packed)
                    /\ run'.pc = "unmarking" => /\ OnDisk' \subseteq Texts(file'.layers)
                                                /\ ses'.doc # Absent => ses'.doc = file'.layers
  BY <1>1 DEF TextIsKept, OnDisk, Texts
<1>2. /\ ~faults.stale
      /\ ses.doc # Absent => OnDisk \subseteq Texts(ses.doc)
      /\ run.pc = "swapping" => OnDisk \subseteq Texts(run.packed)
      /\ run.pc = "unmarking" => /\ OnDisk \subseteq Texts(file.layers)
                                 /\ ses.doc # Absent => ses.doc = file.layers
  BY FaultsStay DEF Remembered, TextIsKept
<1>3. \/ Recovered' = Recovered /\ OnDisk' = OnDisk
      \/ Unmark /\ OnDisk' = Texts(file.layers)
      \/ Swap /\ OnDisk' = Texts(run.packed)
  BY FileSteps DEF OnDisk
<1>4. ASSUME ses'.doc # Absent PROVE OnDisk' \subseteq Texts(ses'.doc)
  <2>1. CASE Unmark
    <3>1. ses' = ses /\ run.pc = "unmarking" /\ OnDisk' = Texts(file.layers)
      BY <2>1 DEF Unmark, OnDisk, Recovered
    <3> QED BY <1>2, <1>4, <3>1
  <2>2. CASE Swap
    <3>1. ses'.doc = run.packed /\ run.pc = "swapping"
      BY <1>0, <2>2 DEF Swap, SesType
    <3>2. OnDisk' = Texts(run.packed) \/ OnDisk' = OnDisk
      BY <1>3, <2>2 DEF Unmark, Swap
    <3> QED BY <1>2, <3>1, <3>2
  <2>3. CASE Open
    BY <1>3, <2>3 DEF Open, Unmark, Swap, NoSes, OnDisk
  <2>4. CASE PackFails
    <3>1. ses'.doc = file.layers \/ ses'.doc = Absent
      BY <1>0, <2>4 DEF PackFails, SesType
    <3>2. Recovered = file /\ UNCHANGED <<file, marker>>
      BY <1>2, <2>4 DEF PackFails, MarkerStands
    <3> QED BY <1>4, <3>1, <3>2 DEF OnDisk, Recovered
  <2>5. CASE WritePage \/ WriteBreaks
    <3>1. ses.doc \in Layers /\ ses.doc # Absent /\ OnDisk' = OnDisk
      BY <2>5, Typed DEF WritePage, WriteBreaks, MarkerStands, OnDisk, Recovered
    <3>2. ses'.doc = ses.doc \/ \E p \in Pages : ses'.doc = [ses.doc EXCEPT ![p] = @ + 1]
      BY <1>0, <2>5 DEF WritePage, WriteBreaks, SesType
    <3>3. \A p \in Pages : Texts(ses.doc) \subseteq Texts([ses.doc EXCEPT ![p] = @ + 1])
      BY <3>1 DEF Texts, Layers
    <3> QED BY <1>2, <3>1, <3>2, <3>3
  <2>6. CASE ses'.doc = ses.doc /\ ~Unmark /\ ~Swap
    BY <1>2, <1>3, <1>4, <2>6
  <2> QED BY <1>0, <1>4, <2>1, <2>2, <2>3, <2>4, <2>5, <2>6, DocSteps
<1>5. ASSUME run'.pc \in {"unmarking", "swapping"}
      PROVE  /\ run'.pc = "swapping" => OnDisk' \subseteq Texts(run'.packed)
             /\ run'.pc = "unmarking" => /\ OnDisk' \subseteq Texts(file'.layers)
                                         /\ ses'.doc # Absent => ses'.doc = file'.layers
  <2>1. CASE /\ Beside /\ run'.pc = run.pc /\ run'.packed = run.packed
             /\ UNCHANGED <<file, marker>>
    <3>1. ses'.doc \in {ses.doc, Absent} /\ OnDisk' = OnDisk
      <4>1. OnDisk' = OnDisk
        BY <2>1 DEF OnDisk, Recovered
      <4>2. CASE Examine \/ Cancel \/ Close \/ UNCHANGED vars
        BY <1>0, <4>1, <4>2 DEF Examine, Cancel, Close, vars, SesType
      <4>3. CASE CloseDoc
        BY <1>0, <4>1, <4>3 DEF CloseDoc, NoSes, SesType
      <4>4. CASE TellModel
        BY <4>1, <4>4, ModelTold
      <4> QED BY <2>1, <4>2, <4>3, <4>4 DEF Beside
    <3> QED BY <1>2, <2>1, <3>1
  <2>2. CASE AppendEnd /\ run'.pc = "unmarking"
    <3>1. file'.layers = ses.doc /\ ses.doc # Absent /\ ses' = ses
      BY <2>2 DEF AppendEnd
    <3>2. OnDisk' = OnDisk
      BY <1>3, <2>2 DEF AppendEnd, Unmark, Swap
    <3> QED BY <1>2, <2>2, <3>1, <3>2
  <2>3. CASE Pack /\ run'.pc = "swapping" /\ run'.packed = ses.doc /\ ses.doc # Absent
    <3>1. OnDisk' = OnDisk
      BY <2>3 DEF Pack, OnDisk, Recovered
    <3> QED BY <1>2, <2>3, <3>1
  <2>4. CASE WriteBegin \/ WritePage
    BY <1>0, <1>5, <2>4, BeginWrites, PageWrites
  <2> QED BY <1>5, <2>1, <2>2, <2>3, <2>4, PhaseSteps
<1> QED BY <1>4, <1>5

\* The text of a batch gets to the disk before the batch counts as saved.
LEMMA BatchStep ==
  TypeOK /\ MarkerStands /\ TextIsKept /\ BatchIsSaved /\ [Next]_vars => BatchIsSaved'
<1> SUFFICES ASSUME TypeOK, MarkerStands, TextIsKept, BatchIsSaved, [Next]_vars
             PROVE  BatchIsSaved'
  OBVIOUS
<1> USE DEF Goto
<1> DEFINE Has(ps, d) == ps \subseteq Texts(d) \cup faults'.lacking
           Next1 == /\ run'.pc = "final" => run'.batch = {}
                    /\ run'.pc \in {"render", "write", "writing"} => ~run'.saved
                    /\ run'.pc \in Saving /\ run'.batch # {} => ~run'.saved
           Next2 == /\ run'.pc = "writing" => Has(run'.results, ses'.doc)
                    /\ run'.pc \in Saving \ {"unmarking", "swapping"} /\ run'.batch # {}
                         /\ ses'.doc # Absent => Has(run'.results, ses'.doc)
                    /\ run'.pc = "swapping" /\ run'.batch # {} => Has(run'.results, run'.packed)
                    /\ run'.pc = "unmarking" /\ run'.batch # {} => Has(run'.results, file'.layers)
                    /\ run'.pc = "checkpoint" \/ (run'.pc = "respond" /\ run'.saved) =>
                         Has(run'.results, Recovered'.layers)
           Goal == Next1 /\ (~faults'.stale => Next2)
<1>s. SUFFICES Goal
  BY DEF BatchIsSaved, Final, InText, Texts
<1>0. /\ ses \in SesType /\ run \in RunType /\ ~run.overwrite
      /\ (faults.stale => faults'.stale) /\ faults.lacking \subseteq faults'.lacking
      /\ Ended(run).pc = "idle" /\ NoRun.pc = "idle" /\ BatchOver(run).pc = "batch"
  BY FaultsStay, Typed DEF Remembered, TextIsKept, Ended, NoRun, BatchOver, RunType
<1>i. /\ run.pc = "final" => run.batch = {}
      /\ run.pc \in {"render", "write", "writing"} => ~run.saved
      /\ run.pc \in Saving /\ run.batch # {} => ~run.saved
      /\ ~faults'.stale =>
           /\ run.pc = "writing" => Has(run.results, ses.doc)
           /\ run.pc \in Saving \ {"unmarking", "swapping"} /\ run.batch # {} /\ ses.doc # Absent =>
                Has(run.results, ses.doc)
           /\ run.pc = "swapping" /\ run.batch # {} => Has(run.results, run.packed)
           /\ run.pc = "unmarking" /\ run.batch # {} => Has(run.results, file.layers)
           /\ run.pc = "checkpoint" \/ (run.pc = "respond" /\ run.saved) =>
                Has(run.results, Recovered.layers)
  BY <1>0 DEF BatchIsSaved, Final, InText
<1> HIDE DEF Has
<1> USE DEF Saving
\* Between two batches nothing is promised.
<1>1. ASSUME run'.pc \in {"idle", "batch", "refresh", "complete", "broken"} PROVE Goal
  BY <1>1
<1>2. CASE Open \/ StartRun \/ CallRaises \/ RunRaises \/ WriteBreaks \/ Checkpoint \/ Refresh
           \/ Complete \/ AllDie
  <2>1. [BatchOver(run) EXCEPT !.ocr = @ \cup run.results].pc = "batch"
    BY <1>0 DEF BatchOver, RunType
  <2>2. run'.pc \in {"idle", "batch", "refresh", "complete", "broken"}
    <3>1. CASE Open \/ StartRun
      BY <3>1, ZenonT(60) DEF Open, StartRun, NoRun
    <3>2. CASE CallRaises \/ RunRaises \/ WriteBreaks \/ Checkpoint \/ Refresh \/ Complete \/ AllDie
      BY <1>0, <2>1, <3>2 DEF CallRaises, RunRaises, WriteBreaks, Checkpoint, Refresh, Complete,
         AllDie, RunType
    <3> QED BY <1>2, <3>1, <3>2
  <2> QED BY <1>1, <2>2
<1>3. CASE Beside \/ ChildDies
  <2>1. CASE run'.pc = "idle"
    BY <1>1, <2>1
  <2>2. CASE run'.pc # "idle"
    <3>1. /\ run'.pc = run.pc /\ run'.batch = run.batch /\ run'.saved = run.saved
          /\ run'.results = run.results /\ run'.packed = run.packed /\ UNCHANGED <<file, marker>>
      BY <1>0, <1>3, <2>2 DEF Beside, Examine, TellModel, Cancel, Close, CloseDoc, ChildDies, vars,
         RunType
    <3>2. Recovered' = Recovered
      BY <3>1 DEF Recovered
    <3>3. \/ ses'.doc = ses.doc
          \/ ses'.doc = Absent /\ run'.pc # "writing"
      <4>1. CASE Examine \/ Cancel \/ Close \/ UNCHANGED vars
        BY <1>0, <4>1 DEF Examine, Cancel, Close, vars, SesType
      <4>2. CASE TellModel
        BY <4>2, ModelTold
      <4>3. CASE CloseDoc
        BY <1>0, <4>3 DEF CloseDoc, Locked, NoSes, SesType
      <4>4. CASE ChildDies
        BY <1>0, <2>2, <4>4 DEF ChildDies, NoSes
      <4> QED BY <1>3, <4>1, <4>2, <4>3, <4>4 DEF Beside
    <3> QED BY <1>i, <3>1, <3>2, <3>3
  <2> QED BY <2>1, <2>2
<1>4. CASE NextBatch
  <2>1. \/ run'.pc = "idle"
        \/ run'.pc = "final" /\ run'.batch = {}
        \/ run'.pc = "render" /\ ~run'.saved
    BY <1>0, <1>4 DEF NextBatch, RunType
  <2> QED BY <2>1
<1>5. CASE RenderAndRecognise
  <2>1. run'.pc = "batch" \/ (run'.pc = "write" /\ run'.saved = run.saved /\ run.pc = "render")
    BY <1>0, <1>5, ZenonT(60) DEF RenderAndRecognise, RunType
  <2> QED BY <1>i, <2>1
<1>6. CASE WriteBegin
  <2>1. /\ run'.pc = "writing" /\ run'.results = run.todo \cap ses.has /\ ses'.doc = ses.doc
        /\ run'.saved = run.saved /\ run.pc = "write" /\ ses.doc # Absent
        /\ faults'.lacking = faults.lacking \cup ((run.todo \cap ses.has) \ Shown)
    BY <1>0, <1>6, BeginWrites
  <2>2. Has(run.todo \cap ses.has, ses.doc)
    BY <2>1 DEF Has, Shown
  <2> QED BY <1>i, <2>1, <2>2
<1>7. CASE WritePage
  <2>1. PICK p \in run.todo : /\ run'.results = run.results \cup {p}
                              /\ \/ Shown' = Shown \cup {p}
                                 \/ Shown' = Shown /\ p \in faults'.lacking
    BY <1>7, PageWrites
  <2>2. run.pc = "writing" /\ run'.pc = "writing" /\ run'.saved = run.saved
    BY <1>7, PageWrites
  <2>3. Shown = Texts(ses.doc) /\ Shown' = Texts(ses'.doc)
    BY <1>7, <2>2, MarkerStep DEF MarkerStands, Shown, Texts
  <2>4. ~faults'.stale => Has(run'.results, ses'.doc)
    BY <1>i, <2>1, <2>2, <2>3 DEF Has
  <2> QED BY <1>i, <2>2, <2>4
<1>8. CASE WriteEnd
  <2>1. CASE run.results = {}
    <3>1. run'.pc = "respond" /\ run'.results = {}
      BY <1>0, <1>8, <2>1 DEF WriteEnd, RunType
    <3> QED BY <3>1 DEF Has
  <2>2. CASE run.results # {}
    <3>1. /\ run.pc = "writing" /\ run'.pc = "marking" /\ run'.batch = run.batch
          /\ run'.results = run.results /\ run'.saved = run.saved /\ ses' = ses
      BY <1>0, <1>8, <2>2 DEF WriteEnd, RunType
    <3> QED BY <1>i, <3>1
  <2> QED BY <2>1, <2>2
<1>9. CASE FinalSave
  <2>1. run'.pc = "idle" \/ (run'.pc \in {"packing", "marking"} /\ run'.batch = {})
    BY <1>0, <1>9, <1>i DEF FinalSave, RunType
  <2> QED BY <2>1
<1>10. CASE CreateMarker \/ Mark \/ AppendText
  <2>1. /\ run.pc \in {"marking", "naming", "appending"}
        /\ run'.pc \in {"naming", "appending", "torn"}
        /\ run'.batch = run.batch /\ run'.results = run.results /\ run'.saved = run.saved
        /\ ses' = ses
    BY <1>0, <1>10 DEF CreateMarker, Mark, AppendText, RunType
  <2> QED BY <1>i, <2>1
<1>11. CASE AppendEnd
  <2>1. /\ run.pc = "torn" /\ run'.pc = "unmarking" /\ ses.doc # Absent
        /\ run'.batch = run.batch /\ run'.results = run.results /\ run'.saved = run.saved
        /\ file'.layers = ses.doc
    BY <1>0, <1>11 DEF AppendEnd, RunType
  <2> QED BY <1>i, <2>1
<1>12. CASE Unmark \/ Swap
  <2>0. /\ [Saved(run) EXCEPT !.packed = Absent].pc = Saved(run).pc
        /\ [Saved(run) EXCEPT !.packed = Absent].results = Saved(run).results
        /\ Saved(run) \in RunType
    BY <1>0 DEF Saved, Ended, NoRun, RunType, Pcs
  <2>1. CASE Final
    <3>1. Saved(run).pc \in {"idle", "refresh"}
      BY <1>0, <2>1 DEF Saved, RunType
    <3>2. run'.pc \in {"idle", "refresh"}
      BY <1>12, <2>0, <3>1 DEF Unmark, Swap
    <3> QED BY <1>1, <3>2
  <2>2. CASE ~Final
    <3>1. Saved(run).pc = "respond" /\ Saved(run).results = run.results
      BY <1>0, <2>2 DEF Saved, RunType
    <3>2. run'.pc = "respond" /\ run'.results = run.results
      BY <1>12, <2>0, <3>1 DEF Unmark, Swap
    <3>3. ~faults'.stale => Has(run.results, Recovered'.layers)
      <4>1. CASE Unmark
        <5>1. run.pc = "unmarking" /\ Recovered' = file
          BY <4>1 DEF Unmark, Recovered
        <5> QED BY <1>i, <2>2, <5>1 DEF Final
      <4>2. CASE Swap
        <5>1. run.pc = "swapping" /\ file'.layers = run.packed
              /\ (~faults'.stale => Recovered' = file')
          <6>1. faults'.stale = Stale
            BY <4>2, Typed DEF Swap, FaultsType
          <6>2. ~faults'.stale => Recovered' = file'
            BY <6>1 DEF Stale
          <6>3. run.pc = "swapping" /\ file'.layers = run.packed
            BY <4>2 DEF Swap
          <6> QED BY <6>2, <6>3
        <5> QED BY <1>i, <2>2, <5>1 DEF Final
      <4> QED BY <1>12, <4>1, <4>2
    <3> QED BY <3>2, <3>3
  <2> QED BY <2>1, <2>2
<1>13. CASE AppendFails
  <2>1. CASE Final
    BY <1>0, <1>1, <1>13, <2>1 DEF AppendFails
  <2>2. CASE ~Final
    <3>1. /\ run.pc \in {"marking", "naming", "appending", "torn", "unmarking"}
          /\ run'.pc = "packing" /\ ses' = ses
          /\ run'.batch = run.batch /\ run'.results = run.results /\ run'.saved = run.saved
      BY <1>0, <1>13, <2>2 DEF AppendFails, RunType
    <3>2. ~faults'.stale /\ run.pc = "unmarking" /\ ses.doc # Absent => ses.doc = file.layers
      BY <1>0 DEF TextIsKept
    <3> QED BY <1>i, <2>2, <3>1, <3>2 DEF Final
  <2> QED BY <2>1, <2>2
<1>14. CASE Pack
  <2>1. /\ run.pc = "packing" /\ run'.pc = "swapping" /\ ses.doc # Absent
        /\ run'.batch = run.batch /\ run'.results = run.results /\ run'.saved = run.saved
        /\ run'.packed = ses.doc
    BY <1>0, <1>14 DEF Pack, RunType
  <2> QED BY <1>i, <2>1
<1>15. CASE PackFails
  <2>1. CASE Final
    BY <1>0, <1>1, <1>15, <2>1 DEF PackFails
  <2>2. CASE ~Final
    <3>1. run'.pc = "respond" /\ run'.saved = run.saved /\ run.pc \in {"packing", "swapping"}
      BY <1>0, <1>15, <2>2 DEF PackFails, RunType
    <3> QED BY <1>i, <2>2, <3>1 DEF Final
  <2> QED BY <2>1, <2>2
<1>16. CASE Respond
  <2>1. \/ run'.pc = "batch"
        \/ run'.pc = "checkpoint" /\ run.pc = "respond" /\ run.saved
             /\ run'.results = run.results
    BY <1>0, <1>16 DEF Respond, RunType
  <2>2. Recovered' = Recovered
    BY <1>16 DEF Respond, Recovered
  <2> QED BY <1>i, <2>1, <2>2
<1> QED BY <1>2, <1>3, <1>4, <1>5, <1>6, <1>7, <1>8, <1>9, <1>10, <1>11, <1>12, <1>13,
          <1>14, <1>15, <1>16 DEF Next, Beside

\* What is told is on disk by then, and stays there.
LEMMA ToldStep ==
  TypeOK /\ MarkerStands /\ TextIsKept /\ TextIsKept' /\ BatchIsSaved /\ ToldIsOnDisk /\ [Next]_vars
    => ToldIsOnDisk'
<1> DEFINE Kept == OnDisk \cup faults.lacking
<1> SUFFICES ASSUME TypeOK, MarkerStands, TextIsKept, TextIsKept', BatchIsSaved, ToldIsOnDisk,
                    [Next]_vars, ~faults'.stale
             PROVE  /\ run'.ocr \subseteq Kept'
                    /\ sidecar' # Absent => sidecar'.pages \subseteq Kept'
  BY DEF ToldIsOnDisk, InText, OnDisk, Texts
<1> USE DEF Goto
<1>0. /\ ses \in SesType /\ run \in RunType /\ sidecar \in SidecarType \cup {Absent}
      /\ Kept \subseteq Kept' /\ ~faults.stale
      /\ run.ocr \subseteq Kept /\ (sidecar # Absent => sidecar.pages \subseteq Kept)
  BY DiskStep, FaultsStay DEF Remembered, TypeOK, ToldIsOnDisk, InText, OnDisk
<1> HIDE DEF Kept
<1>1. /\ Ended(run).ocr = run.ocr /\ NoRun.ocr = {} /\ BatchOver(run).ocr = run.ocr
      /\ Saved(run).ocr = run.ocr /\ [Saved(run) EXCEPT !.packed = Absent].ocr = Saved(run).ocr
  BY <1>0 DEF Ended, NoRun, BatchOver, Saved, RunType
<1>2. CASE StartRun
  <2>1. PICK want \in Requests, over \in Overwrites :
          LET pending == IF over THEN want ELSE want \ Restorable(file) IN
          run' = [NoRun EXCEPT !.pc = IF pending = {} THEN "idle" ELSE "batch",
                               !.overwrite = over,
                               !.pending = pending,
                               !.ocr = want \ pending]
    BY <1>2 DEF StartRun
  <2>2. run'.ocr = want \ (want \ Restorable(file))
    <3>1. run'.overwrite = over
      BY <2>1 DEF NoRun
    <3>2. over = FALSE
      BY <3>1, PdfAssumption DEF TextIsKept
    <3> QED BY <2>1, <3>2 DEF NoRun
  <2>3. Restorable(file) \subseteq Kept
    BY <1>0 DEF Restorable, Grown
  <2> QED BY <1>0, <1>2, <2>2, <2>3, SMTT(30) DEF StartRun
<1>3. CASE Checkpoint
  <2>1. run.results \subseteq Kept
    BY <1>0, <1>3 DEF Checkpoint, BatchIsSaved, InText, OnDisk, Kept
  <2>2. run'.ocr = run.ocr \cup run.results
    BY <1>0, <1>3 DEF Checkpoint, BatchOver, RunType
  <2>3. PICK old : old = IF Grown(file) THEN sidecar ELSE Fresh
    OBVIOUS
  <2>4. sidecar' \in {Checkpointed(old), sidecar}
    BY <1>3, <2>3 DEF Checkpoint, Write
  <2>5. old \in SidecarType /\ old.pages \subseteq Kept
    <3>1. Fresh \in SidecarType /\ Fresh.pages = {}
      BY DEF Fresh, SidecarType, TypeOK, FileType
    <3> QED BY <1>0, <2>3, <3>1 DEF Grown
  <2>6. Checkpointed(old).pages = old.pages \cup run.results
    BY <2>5 DEF Checkpointed, SidecarType
  <2> QED BY <1>0, <2>1, <2>2, <2>4, <2>5, <2>6
<1>4. CASE Refresh \/ Complete
  <2>1. run'.ocr = run.ocr
    BY <1>0, <1>1, <1>4 DEF Refresh, Complete, RunType
  <2>2. sidecar' # Absent => sidecar'.pages \subseteq Kept
    <3>1. CASE Refresh
      BY <1>0, <3>1 DEF Refresh, Write, SidecarType
    <3>2. CASE Complete
      <4>1. PICK old : old = IF sidecar = Absent THEN Fresh ELSE sidecar
        OBVIOUS
      <4>2. old \in SidecarType /\ old.pages \subseteq Kept
        <5>1. Fresh \in SidecarType /\ Fresh.pages = {}
          BY DEF Fresh, SidecarType, TypeOK, FileType
        <5> QED BY <1>0, <4>1, <5>1
      <4>3. sidecar' \in {[old EXCEPT !.completed = TRUE], sidecar}
        BY <3>2, <4>1 DEF Complete, Write
      <4>4. [old EXCEPT !.completed = TRUE].pages = old.pages
        BY <4>2 DEF SidecarType
      <4> QED BY <1>0, <4>2, <4>3, <4>4
    <3> QED BY <1>4, <3>1, <3>2
  <2> QED BY <1>0, <2>1, <2>2
<1>5. CASE ~(StartRun \/ Checkpoint \/ Refresh \/ Complete)
  <2>1. sidecar' = sidecar
    BY <1>5, ZenonT(60) DEF Next, vars, Open, Examine, TellModel, Cancel, Close, CloseDoc,
       NextBatch, RenderAndRecognise, CallRaises, RunRaises, WriteBegin, WritePage, WriteBreaks,
       WriteEnd, FinalSave, CreateMarker, Mark, AppendText, AppendEnd, Unmark, AppendFails, Pack,
       Swap, PackFails, Respond, ChildDies, AllDie
  <2>2. run'.ocr \in {run.ocr, {}}
    <3>1. CASE WritePage \/ WriteBreaks
      BY <1>0, <3>1 DEF WritePage, WriteBreaks, RunType
    <3>2. CASE Open \/ Examine \/ TellModel \/ Cancel \/ Close \/ CloseDoc
      BY <1>0, <1>1, <3>2 DEF Open, Examine, TellModel, Cancel, Close, CloseDoc, RunType
    <3>3. CASE NextBatch \/ RenderAndRecognise
      <4>1. CASE NextBatch
        BY <1>0, <1>1, <4>1 DEF NextBatch, RunType
      <4>2. CASE RenderAndRecognise
        BY <1>0, <1>1, <4>2 DEF RenderAndRecognise, RunType
      <4> QED BY <3>3, <4>1, <4>2
    <3>4. CASE CallRaises \/ RunRaises \/ WriteBegin \/ WriteEnd
      BY <1>0, <1>1, <3>4 DEF CallRaises, RunRaises, WriteBegin, WriteEnd, RunType
    <3>5. CASE FinalSave
      BY <1>0, <1>1, <3>5 DEF FinalSave, RunType
    <3>6. CASE CreateMarker \/ Mark \/ AppendText \/ AppendEnd \/ Unmark \/ AppendFails
      BY <1>0, <1>1, <3>6 DEF CreateMarker, Mark, AppendText, AppendEnd, Unmark, AppendFails, RunType
    <3>7. CASE Pack \/ Swap \/ PackFails \/ Respond \/ ChildDies \/ AllDie \/ UNCHANGED vars
      BY <1>0, <1>1, <3>7 DEF Pack, Swap, PackFails, Respond, ChildDies, AllDie, vars, RunType
    <3> QED BY <1>5, <3>1, <3>2, <3>3, <3>4, <3>5, <3>6, <3>7 DEF Next
  <2> QED BY <1>0, <2>1, <2>2, SMTT(30)
<1> QED BY <1>2, <1>3, <1>4, <1>5

-----------------------------------------------------------------------------
LEMMA Invariant == Careful => (Spec => []IInv)
<1> SUFFICES ASSUME Careful PROVE Spec => []IInv
  OBVIOUS
<1>1. Init => IInv
  BY InitHolds
<1>2. IInv /\ [Next]_vars => IInv'
  BY TypeStep, MarkerStep, OnceStep, KnowsStep, KeptStep, BatchStep, ToldStep DEF IInv
<1> QED BY <1>1, <1>2, PTL DEF Spec

\* What a run reported as done by OCR (services/pdf_ocr_orchestrator.py) or a later
\* run would skip (services/ocr_sidecar.py) has its text on disk, but for the pages
\* that were counted as done without any, and unless a failed save left a stale file.
THEOREM DoneStaysOnDisk == Careful => (Spec => []DoneTextIsOnDisk)
<1> SUFFICES ASSUME Careful PROVE Spec => []DoneTextIsOnDisk
  OBVIOUS
<1>1. IInv => DoneTextIsOnDisk
  BY DEF IInv, ToldIsOnDisk, DoneTextIsOnDisk, InText, Restorable, Grown
<1> QED BY <1>1, Invariant, PTL

\* Neither a save that fails half-way nor a crash during an append takes a text
\* layer from the file as it is opened next (services/pdf_backend_process.py), unless
\* what the failure left behind makes that file a stale one.
THEOREM SavedTextIsNotLost == Careful => (Spec => DiskTextNeverShrinks)
<1> SUFFICES ASSUME Careful PROVE Spec => DiskTextNeverShrinks
  OBVIOUS
<1>1. IInv /\ [Next]_vars =>
        [~faults'.stale => Texts(Recovered.layers) \subseteq Texts(Recovered'.layers)]_vars
  BY DiskStep DEF IInv, OnDisk, Texts
<1> QED BY <1>1, Invariant, PTL DEF Spec, DiskTextNeverShrinks

\* A page never gets a second text layer, in the document or in the file, but one whose
\* text no load had told the page model of in time, or that a broken write had left
\* there: whatever was written to its end is known, and skipped (services/pdf_service.py).
THEOREM LayeredAtMostOnce == Careful => (Spec => []NoPageIsLayeredTwice)
<1> SUFFICES ASSUME Careful PROVE Spec => []NoPageIsLayeredTwice
  OBVIOUS
<1>1. IInv => NoPageIsLayeredTwice
  <2> SUFFICES ASSUME IInv PROVE NoPageIsLayeredTwice
    OBVIOUS
  <2>1. file.layers # Absent
    BY Typed, AbsentIsNone DEF IInv
  <2> QED BY <2>1 DEF IInv, EachPageOnce, LayeredOnce, NoPageIsLayeredTwice
<1> QED BY <1>1, Invariant, PTL

-----------------------------------------------------------------------------
(* The client of the child process.                                          *)

LEMMA ClientInitInv == ClientInit => ClientInv
<1> SUFFICES ASSUME ClientInit PROVE ClientInv
  OBVIOUS
<1>1. 0 \in 0 .. MaxChildren /\ 0 \in 0 .. MaxCalls
  BY ClientAssumption
<1>2. ClientTypeOK
  <2>1. Idle \in [pc : {"idle", "start", "check", "wait", "build", "store", "use"},
                  built : 0 .. MaxChildren, calls : 0 .. MaxCalls, ok : BOOLEAN]
    BY <1>1 DEF Idle, None
  <2> QED BY <1>1, <2>1 DEF ClientInit, ClientTypeOK, None
<1>3. \A t \in Callers : clients[t] = None /\ call[t].pc = "idle"
  BY DEF ClientInit, Idle
<1> QED BY <1>2, <1>3 DEF ClientInit, ClientInv

LEMMA ClientStep == ClientInv /\ [ClientNext]_client => ClientInv'
<1> SUFFICES ASSUME ClientInv, [ClientNext]_client PROVE ClientInv'
  OBVIOUS
<1>0. ClientTypeOK /\ MaxChildren \in Nat /\ MaxCalls \in Nat
  BY ClientAssumption DEF ClientInv
<1>1. CASE UNCHANGED client
  BY <1>1 DEF client, ClientInv, ClientTypeOK
<1>2. CASE Dies
  BY <1>2 DEF Dies, ClientInv, ClientTypeOK
<1>3. CASE Stop
  <2>1. CASE owned
    <3>1. /\ up' = up \ {child} /\ child' = None /\ started' = FALSE /\ closed' = TRUE
          /\ owned' = FALSE /\ clients' = [s \in Callers |-> None]
          /\ raced' = raced \cup {s \in Callers : call[s].pc \in {"build", "store"}}
          /\ url' = url /\ lock' = lock /\ call' = call
      BY <1>3, <2>1 DEF Stop
    <3>2. 0 \in 0 .. MaxChildren
      BY <1>0
    <3>3. ClientTypeOK'
      BY <1>0, <3>1, <3>2 DEF ClientTypeOK, None
    <3>4. up' = {}
      BY <3>1 DEF ClientInv
    <3>5. \A s \in Callers \ raced' : clients'[s] = None /\ call'[s].pc # "store"
      BY <3>1
    <3> QED BY <3>1, <3>3, <3>4, <3>5 DEF ClientInv
  <2>2. CASE ~owned
    BY <1>0, <1>3, <2>2 DEF Stop, ClientInv, ClientTypeOK
  <2> QED BY <2>1, <2>2
<1>4. ASSUME NEW t \in Callers, Call(t) \/ Check(t) \/ Ready(t) \/ NotReady(t) \/ Use(t)
      PROVE  ClientInv'
  <2>1. UNCHANGED <<child, up, url, clients, raced>> /\ lock' \subseteq Callers
        /\ started' \in BOOLEAN /\ owned' \in BOOLEAN /\ closed' \in BOOLEAN
    BY <1>0, <1>4 DEF Call, Check, Ready, NotReady, Use, ClientTypeOK
  <2>2. PICK r \in [pc : {"idle", "start", "check", "build", "use"}, built : 0 .. MaxChildren,
                    calls : 0 .. MaxCalls, ok : BOOLEAN] : call' = [call EXCEPT ![t] = r]
    <3>1. call[t] \in [pc : {"idle", "start", "check", "wait", "build", "store", "use"},
                       built : 0 .. MaxChildren, calls : 0 .. MaxCalls, ok : BOOLEAN]
      BY <1>0 DEF ClientTypeOK
    <3>2. CASE Call(t)
      <4>1. PICK pc \in {"check", "start"} :
              call' = [call EXCEPT ![t].pc = pc, ![t].calls = @ + 1, ![t].ok = FALSE]
        BY <3>2 DEF Call
      <4>2. call' = [call EXCEPT ![t] = [call[t] EXCEPT !.pc = pc, !.calls = @ + 1, !.ok = FALSE]]
        BY <1>0, <4>1 DEF ClientTypeOK
      <4>3. call[t].calls + 1 \in 0 .. MaxCalls
        BY <1>0, <3>1, <3>2 DEF Call
      <4> QED BY <3>1, <4>2, <4>3
    <3>3. CASE Check(t) \/ Ready(t) \/ NotReady(t)
      <4>1. PICK pc \in {"idle", "start", "build", "use"} :
              call' = [call EXCEPT ![t].pc = pc]
        BY <3>3 DEF Check, Ready, NotReady, Goes
      <4>2. call' = [call EXCEPT ![t] = [call[t] EXCEPT !.pc = pc]]
        BY <1>0, <4>1 DEF ClientTypeOK
      <4> QED BY <3>1, <4>2
    <3>4. CASE Use(t)
      <4>0. (clients[t] \in up) \in BOOLEAN
        OBVIOUS
      <4>1. PICK ok \in BOOLEAN : ok = (clients[t] \in up)
        BY <4>0
      <4>2. call' = [call EXCEPT ![t] = [call[t] EXCEPT !.pc = "idle", !.ok = ok]]
        BY <1>0, <3>4, <4>1 DEF ClientTypeOK, Use
      <4> QED BY <3>1, <4>2
    <3> QED BY <1>4, <3>2, <3>3, <3>4
  <2>3. call'[t].pc # "store" /\ \A s \in Callers \ {t} : call'[s] = call[s]
    BY <1>0, <2>2 DEF ClientTypeOK
  <2>4. ClientTypeOK'
    BY <1>0, <2>1, <2>2 DEF ClientTypeOK
  <2> QED BY <2>1, <2>3, <2>4 DEF ClientInv
<1>5. ASSUME NEW t \in Callers, Begin(t) PROVE ClientInv'
  <2>1. CASE started /\ Alive
    <3>1. UNCHANGED <<child, up, url, started, lock, clients, raced, owned, closed>>
          /\ call' = [call EXCEPT ![t].pc = "build"]
      BY <1>5, <2>1 DEF Begin, Goes
    <3> QED BY <1>0, <3>1 DEF ClientInv, ClientTypeOK
  <2>2. CASE ~(started /\ Alive)
    <3>1. /\ url < MaxChildren /\ url' = url + 1 /\ child' = url + 1
          /\ up' = (up \ {child}) \cup {url + 1} /\ started' = FALSE /\ lock' = {t}
          /\ clients' = [s \in Callers |-> None]
          /\ raced' = raced \cup {s \in Callers : call[s].pc \in {"build", "store"}}
          /\ call' = [call EXCEPT ![t].pc = "wait"] /\ owned' = owned /\ closed' = closed
      BY <1>5, <2>2 DEF Begin, Goes
    <3>2. url + 1 \in 1 .. MaxChildren
      BY <1>0, <3>1 DEF ClientTypeOK
    <3>3. ClientTypeOK'
      <4>1. 0 \in 0 .. MaxChildren /\ url + 1 \in 0 .. MaxChildren
        BY <1>0, <3>2
      <4>2. clients' \in [Callers -> 0 .. MaxChildren]
        BY <3>1, <4>1 DEF None
      <4>3. call' \in [Callers -> [pc : {"idle", "start", "check", "wait", "build", "store", "use"},
                                   built : 0 .. MaxChildren, calls : 0 .. MaxCalls, ok : BOOLEAN]]
        BY <1>0, <3>1 DEF ClientTypeOK
      <4>4. raced' \subseteq Callers /\ lock' \subseteq Callers /\ up' \subseteq 1 .. MaxChildren
        BY <1>0, <3>1, <3>2 DEF ClientTypeOK
      <4> QED BY <1>0, <3>1, <4>1, <4>2, <4>3, <4>4 DEF ClientTypeOK
    <3>4. up' = {url + 1}
      BY <3>1 DEF ClientInv
    <3>5. \A s \in Callers \ raced' : call'[s].pc # "store"
      BY <1>0, <3>1 DEF ClientTypeOK
    <3> QED BY <3>1, <3>3, <3>4, <3>5 DEF ClientInv
  <2> QED BY <2>1, <2>2
<1>6. ASSUME NEW t \in Callers, Build(t) \/ Store(t) PROVE ClientInv'
  <2>1. CASE Build(t)
    BY <1>0, <2>1, ZenonT(60) DEF Build, ClientInv, ClientTypeOK
  <2>2. CASE Store(t)
    BY <1>0, <2>2 DEF Store, Goes, ClientInv, ClientTypeOK
  <2> QED BY <1>6, <2>1, <2>2
<1> QED BY <1>1, <1>2, <1>3, <1>4, <1>5, <1>6 DEF ClientNext

\* However many threads call while the child dies, is restarted or fails to start, and
\* while the service shuts down: one child lives at most, and a client that was not built
\* around a restart leads to it (PdfBackendClient._ensure_started, _stop_locked).
THEOREM ClientsAreLed == ClientSpec => []ClientsReachTheChild
<1>1. ClientInv => ClientsReachTheChild
  <2> SUFFICES ASSUME ClientInv PROVE ClientsReachTheChild
    OBVIOUS
  <2>1. Cardinality(up) <= 1
    <3>1. up = {} \/ up = {child}
      BY DEF ClientInv
    <3>2. Cardinality({}) = 0 /\ Cardinality({child}) = 1
      BY FS_EmptySet, FS_Singleton
    <3> QED BY <3>1, <3>2
  <2>2. ASSUME Alive, NEW t \in Callers \ raced PROVE clients[t] \in {None, child}
    BY <2>2 DEF Alive, ClientInv, ClientTypeOK, None
  <2> QED BY <2>1, <2>2 DEF ClientsReachTheChild
<1>2. ClientSpec => []ClientInv
  BY ClientInitInv, ClientStep, PTL DEF ClientSpec
<1> QED BY <1>1, <1>2, PTL


-----------------------------------------------------------------------------
(* The editing of a document.  First what happens to the positions when      *)
(* pages are picked, inserted or moved.                                      *)

LEMMA PickedIs ==
  ASSUME NEW S, NEW s \in Seq(S), NEW n \in Nat, NEW at \in [1..n -> DOMAIN s]
  PROVE  /\ Picked(s, at) \in Seq(S) /\ Len(Picked(s, at)) = n /\ DOMAIN Picked(s, at) = 1..n
         /\ \A i \in 1..n : Picked(s, at)[i] = s[at[i]]
<1>1. Picked(s, at) \in [1..n -> S]
  BY SeqIsFunction DEF Picked
<1>2. \A i \in 1..n : Picked(s, at)[i] = s[at[i]]
  BY DEF Picked
<1> QED BY <1>1, <1>2, FunctionIsSeq

LEMMA SubSeqIs ==
  ASSUME NEW S, NEW s \in Seq(S), NEW m \in 1..Len(s) + 1, NEW n \in 0..Len(s), m <= n + 1
  PROVE  /\ SubSeq(s, m, n) \in Seq(S) /\ Len(SubSeq(s, m, n)) = n - m + 1
         /\ \A i \in 1..n - m + 1 : SubSeq(s, m, n)[i] = s[i + m - 1]
OBVIOUS

IsInserted(longer, s, to, e) ==
  /\ Len(longer) = Len(s) + 1
  /\ \A i \in 1..Len(s) + 1 : longer[i] = IF i < to THEN s[i] ELSE IF i = to THEN e ELSE s[i - 1]

LEMMA InsertedIs ==
  ASSUME NEW S, NEW s \in Seq(S), NEW to \in 1..Len(s) + 1, NEW e \in S
  PROVE  InsertAt(s, to, e) \in Seq(S) /\ IsInserted(InsertAt(s, to, e), s, to, e)
<1> DEFINE n == Len(s)
           front == SubSeq(s, 1, to - 1)
           back == SubSeq(s, to, n)
           begun == front \o <<e>>
<1>1. n \in Nat /\ to \in 1..n + 1 /\ to \in Nat
  BY SeqIsFunction
<1>2. front \in Seq(S) /\ Len(front) = to - 1 /\ \A i \in 1..to - 1 : front[i] = s[i]
  <2>1. 1 \in 1..Len(s) + 1 /\ to - 1 \in 0..Len(s) /\ 1 <= to - 1 + 1
    BY <1>1
  <2>2. /\ SubSeq(s, 1, to - 1) \in Seq(S) /\ Len(SubSeq(s, 1, to - 1)) = to - 1 - 1 + 1
        /\ \A i \in 1..to - 1 - 1 + 1 : SubSeq(s, 1, to - 1)[i] = s[i + 1 - 1]
    BY <2>1, SubSeqIs
  <2> QED BY <1>1, <2>2
<1>3. back \in Seq(S) /\ Len(back) = n - to + 1 /\ \A i \in 1..n - to + 1 : back[i] = s[i + to - 1]
  <2>1. to \in 1..Len(s) + 1 /\ n \in 0..Len(s) /\ to <= n + 1
    BY <1>1
  <2> QED BY <2>1, SubSeqIs
<1> HIDE DEF front, back
<1>4. begun \in Seq(S) /\ Len(begun) = to /\ begun[to] = e /\ \A i \in 1..to - 1 : begun[i] = s[i]
  <2>1. <<e>> \in Seq(S) /\ Len(<<e>>) = 1 /\ <<e>>[1] = e
    OBVIOUS
  <2>2. /\ begun \in Seq(S) /\ Len(begun) = Len(front) + 1
        /\ \A i \in 1..Len(front) : begun[i] = front[i]
        /\ begun[1 + Len(front)] = e
    BY <1>2, <2>1, ConcatIs
  <2> HIDE DEF begun
  <2> QED BY <1>1, <1>2, <2>2
<1> HIDE DEF begun
<1>5. /\ begun \o back \in Seq(S) /\ Len(begun \o back) = n + 1
      /\ \A i \in 1..to : (begun \o back)[i] = begun[i]
      /\ \A i \in 1..n - to + 1 : (begun \o back)[i + to] = s[i + to - 1]
  <2>1. /\ begun \o back \in Seq(S) /\ Len(begun \o back) = Len(begun) + Len(back)
        /\ \A i \in 1..Len(begun) : (begun \o back)[i] = begun[i]
        /\ \A i \in 1..Len(back) : (begun \o back)[i + Len(begun)] = back[i]
    <3>1. begun \in Seq(S) /\ back \in Seq(S)
      BY <1>3, <1>4
    <3> QED BY <3>1, ConcatIs
  <2>2. Len(begun) = to /\ Len(back) = n - to + 1 /\ to + (n - to + 1) = n + 1
    BY <1>1, <1>3, <1>4
  <2> QED BY <1>3, <2>1, <2>2
<1>6. ASSUME NEW i \in 1..n + 1
      PROVE  (begun \o back)[i] = IF i < to THEN s[i] ELSE IF i = to THEN e ELSE s[i - 1]
  <2> DEFINE there == (begun \o back)[i]
  <2>1. ASSUME i < to PROVE there = s[i]
    <3>1. i \in 1..to /\ i \in 1..to - 1
      BY <1>1, <2>1
    <3> QED BY <1>4, <1>5, <2>1, <3>1
  <2>2. ASSUME i = to PROVE there = e
    <3>1. i \in 1..to
      BY <1>1, <2>2
    <3> QED BY <1>4, <1>5, <2>2, <3>1
  <2>3. ASSUME i > to PROVE there = s[i - 1] /\ ~(i < to) /\ i # to
    <3>1. i - to \in 1..n - to + 1 /\ (i - to) + to = i /\ (i - to) + to - 1 = i - 1
      BY <1>1, <2>3
    <3> DEFINE j == i - to
    <3>2. j \in 1..n - to + 1 => (begun \o back)[j + to] = s[j + to - 1]
      <4> HIDE DEF j
      <4> QED BY <1>5
    <3>3. (begun \o back)[i] = s[i - 1]
      BY <3>1, <3>2
    <3> QED BY <1>1, <2>3, <3>3
  <2>4. i < to \/ i = to \/ i > to
    BY <1>1
  <2> HIDE DEF there
  <2>5. there = IF i < to THEN s[i] ELSE IF i = to THEN e ELSE s[i - 1]
    BY <2>1, <2>2, <2>3, <2>4
  <2> QED BY <2>5 DEF there
<1>7. InsertAt(s, to, e) = begun \o back
  BY DEF InsertAt, begun, front, back
<1> QED BY <1>5, <1>6, <1>7 DEF IsInserted

LEMMA RemovedIs ==
  ASSUME NEW S, NEW s \in Seq(S), NEW from \in 1..Len(s)
  PROVE  /\ RemoveAt(s, from) \in Seq(S) /\ Len(RemoveAt(s, from)) = Len(s) - 1
         /\ \A i \in 1..Len(s) - 1 : RemoveAt(s, from)[i] = IF i < from THEN s[i] ELSE s[i + 1]
<1> DEFINE n == Len(s)
           front == SubSeq(s, 1, from - 1)
           back == SubSeq(s, from + 1, n)
<1>1. n \in Nat /\ from \in 1..n /\ from \in Nat
  BY SeqIsFunction
<1>2. front \in Seq(S) /\ Len(front) = from - 1 /\ \A i \in 1..from - 1 : front[i] = s[i]
  <2>1. 1 \in 1..Len(s) + 1 /\ from - 1 \in 0..Len(s) /\ 1 <= from - 1 + 1
    BY <1>1
  <2>2. /\ SubSeq(s, 1, from - 1) \in Seq(S) /\ Len(SubSeq(s, 1, from - 1)) = from - 1 - 1 + 1
        /\ \A i \in 1..from - 1 - 1 + 1 : SubSeq(s, 1, from - 1)[i] = s[i + 1 - 1]
    BY <2>1, SubSeqIs
  <2> QED BY <1>1, <2>2
<1>3. back \in Seq(S) /\ Len(back) = n - from /\ \A i \in 1..n - from : back[i] = s[i + from]
  <2>1. from + 1 \in 1..Len(s) + 1 /\ n \in 0..Len(s) /\ from + 1 <= n + 1
    BY <1>1
  <2>2. /\ SubSeq(s, from + 1, n) \in Seq(S) /\ Len(SubSeq(s, from + 1, n)) = n - (from + 1) + 1
        /\ \A i \in 1..n - (from + 1) + 1 : SubSeq(s, from + 1, n)[i] = s[i + (from + 1) - 1]
    BY <2>1, SubSeqIs
  <2> QED BY <1>1, <2>2
<1> HIDE DEF front, back
<1>4. /\ front \o back \in Seq(S) /\ Len(front \o back) = n - 1
      /\ \A i \in 1..from - 1 : (front \o back)[i] = s[i]
      /\ \A i \in 1..n - from : (front \o back)[i + (from - 1)] = s[i + from]
  <2>1. /\ front \o back \in Seq(S) /\ Len(front \o back) = Len(front) + Len(back)
        /\ \A i \in 1..Len(front) : (front \o back)[i] = front[i]
        /\ \A i \in 1..Len(back) : (front \o back)[i + Len(front)] = back[i]
    <3>1. front \in Seq(S) /\ back \in Seq(S)
      BY <1>2, <1>3
    <3> QED BY <3>1, ConcatIs
  <2>2. Len(front) = from - 1 /\ Len(back) = n - from /\ from - 1 + (n - from) = n - 1
    BY <1>1, <1>2, <1>3
  <2> QED BY <1>2, <1>3, <2>1, <2>2
<1>5. ASSUME NEW i \in 1..n - 1 PROVE (front \o back)[i] = IF i < from THEN s[i] ELSE s[i + 1]
  <2>1. CASE i < from
    <3>1. i \in 1..from - 1
      BY <1>1, <2>1
    <3> QED BY <1>4, <2>1, <3>1
  <2>2. CASE ~(i < from)
    <3>1. i - from + 1 \in 1..n - from /\ (i - from + 1) + (from - 1) = i /\ (i - from + 1) + from = i + 1
      BY <1>1, <2>2
    <3>2. (front \o back)[(i - from + 1) + (from - 1)] = s[(i - from + 1) + from]
      BY <1>4, <3>1
    <3> QED BY <2>2, <3>1, <3>2
  <2> QED BY <2>1, <2>2
<1>6. RemoveAt(s, from) = front \o back
  BY DEF RemoveAt, front, back
<1> QED BY <1>4, <1>5, <1>6

\* The positions before the page at one position was moved to another.
Before(n, from, to) ==
  [i \in 1..n |-> IF i = to THEN from
                  ELSE IF from <= i /\ i < to THEN i + 1
                  ELSE IF to < i /\ i <= from THEN i - 1
                  ELSE i]

LEMMA MovedIs ==
  ASSUME NEW S, NEW s \in Seq(S), NEW from \in DOMAIN s, NEW to \in DOMAIN s
  PROVE  /\ Moved(s, from, to) = Picked(s, Before(Len(s), from, to))
         /\ Before(Len(s), from, to) \in [1..Len(s) -> DOMAIN s]
         /\ \A i, j \in 1..Len(s) : Before(Len(s), from, to)[i] = Before(Len(s), from, to)[j] => i = j
<1> DEFINE n == Len(s)
           at == Before(n, from, to)
           r == RemoveAt(s, from)
           moved == InsertAt(r, to, s[from])
<1>1. n \in Nat /\ DOMAIN s = 1..n /\ from \in 1..n /\ to \in 1..n /\ s \in [1..n -> S]
  BY SeqIsFunction
<1>2. at \in [1..n -> 1..n] /\ \A i, j \in 1..n : at[i] = at[j] => i = j
  BY <1>1, SMTT(30) DEF Before
<1>3. /\ r \in Seq(S) /\ Len(r) = n - 1
      /\ \A i \in 1..n - 1 : r[i] = IF i < from THEN s[i] ELSE s[i + 1]
  BY <1>1, RemovedIs, ZenonT(60)
<1>4. /\ moved \in Seq(S) /\ Len(moved) = n
      /\ \A i \in 1..n : moved[i] = IF i < to THEN r[i] ELSE IF i = to THEN s[from] ELSE r[i - 1]
  <2> HIDE DEF r, moved
  <2>1. s[from] \in S /\ to \in 1..Len(r) + 1 /\ Len(r) + 1 = n
    BY <1>1, <1>3
  <2>2. r \in Seq(S)
    BY <1>3
  <2>3. moved \in Seq(S) /\ IsInserted(moved, r, to, s[from])
    BY <2>1, <2>2, InsertedIs DEF moved
  <2> QED BY <2>1, <2>3 DEF IsInserted
<1> HIDE DEF r, moved
<1>5. ASSUME NEW i \in 1..n PROVE moved[i] = s[at[i]]
  <2>1. at[i] = IF i = to THEN from ELSE IF from <= i /\ i < to THEN i + 1
                ELSE IF to < i /\ i <= from THEN i - 1 ELSE i
    BY DEF Before
  <2> HIDE DEF at, n
  <2>2. moved[i] = IF i < to THEN r[i] ELSE IF i = to THEN s[from] ELSE r[i - 1]
    BY <1>4
  <2>3. CASE i < to
    <3>1. i \in 1..n - 1
      BY <1>1, <2>3
    <3> QED BY <1>1, <1>3, <2>1, <2>2, <2>3, <3>1
  <2>4. CASE i = to
    BY <2>1, <2>2, <2>4, <1>1
  <2>5. CASE i > to
    <3>1. i - 1 \in 1..n - 1 /\ (i - 1) + 1 = i
      BY <1>1, <2>5
    <3>2. r[i - 1] = IF i - 1 < from THEN s[i - 1] ELSE s[i]
      BY <1>3, <3>1
    <3> QED BY <1>1, <2>1, <2>2, <2>5, <3>1, <3>2
  <2> QED BY <1>1, <2>3, <2>4, <2>5
<1>6. moved = Picked(s, at)
  <2>1. DOMAIN moved = 1..n /\ moved \in [1..n -> S]
    BY <1>1, <1>4, SeqIsFunction
  <2>2. DOMAIN at = 1..n
    BY <1>2
  <2> HIDE DEF at, n
  <2> QED BY <1>5, <2>1, <2>2 DEF Picked
<1> QED BY <1>1, <1>2, <1>6 DEF n, moved, r, Moved

-----------------------------------------------------------------------------
(* save_with_rewrite: what the recursion over the pages computes.            *)

States == {st \in [doc : Seq(PageType), pages : Seq(InfoType), ok : BOOLEAN] :
             /\ Len(st.doc) = Len(doc) /\ Len(st.pages) = Len(pages)
             /\ \A i \in 1..Len(doc) : st.doc[i].id = doc[i].id}

Begins == [doc |-> doc, pages |-> pages, ok |-> TRUE]
OnePage(st, k) == IF pages[k].blocks = {} THEN st ELSE SaveStep(st, k)

RewritesPage(st, k, n, next) ==
  /\ next \in States /\ next.ok
  /\ next.doc = [st.doc EXCEPT ![n] = [id |-> doc[n].id, text |-> Placed(st.pages[k].blocks)]]
  /\ next.pages = [st.pages EXCEPT ![n] = [index |-> st.pages[n].index,
                     has |-> Placed(st.pages[k].blocks) # {}, blocks |-> st.pages[k].blocks]]

LEMMA SavesAPage ==
  ASSUME EditTypeOK, Len(pages) = Len(doc), NEW st \in States, NEW k \in 1..Len(pages),
         NEW n \in 1..Len(doc), n = st.pages[k].index, st.ok
  PROVE  RewritesPage(st, k, n, Rewritten(st, n, st.pages[k].blocks))
<1>0. PICK next : next = Rewritten(st, n, st.pages[k].blocks)
  OBVIOUS
<1> DEFINE blocks == st.pages[k].blocks
           text == Placed(blocks)
<1>1. /\ st.doc \in Seq(PageType) /\ st.pages \in Seq(InfoType) /\ st.ok \in BOOLEAN
      /\ Len(st.doc) = Len(doc) /\ Len(st.pages) = Len(doc) /\ Len(doc) \in Nat
      /\ \A i \in 1..Len(doc) : st.doc[i].id = doc[i].id
      /\ st = [doc |-> st.doc, pages |-> st.pages, ok |-> st.ok]
  BY SeqIsFunction DEF States, EditTypeOK
<1>2. /\ st.doc[n] \in PageType /\ st.pages[n] \in InfoType /\ st.pages[k] \in InfoType
      /\ st.doc \in [1..Len(doc) -> PageType] /\ st.pages \in [1..Len(doc) -> InfoType]
  BY <1>1, SeqIsFunction
<1>3. /\ st.doc[n] = [id |-> doc[n].id, text |-> st.doc[n].text]
      /\ st.pages[n] = [index |-> st.pages[n].index, has |-> st.pages[n].has,
                        blocks |-> st.pages[n].blocks]
      /\ blocks \in SUBSET Versions /\ text \in SUBSET Versions /\ doc[n].id \in Ids /\ st.pages[n].index \in Nat
  <2>1. /\ st.doc[n] = [id |-> doc[n].id, text |-> st.doc[n].text]
        /\ st.pages[n] = [index |-> st.pages[n].index, has |-> st.pages[n].has,
                          blocks |-> st.pages[n].blocks]
        /\ blocks \in SUBSET Versions /\ doc[n].id \in Ids /\ st.pages[n].index \in Nat
    BY <1>1, <1>2, SMTT(30) DEF PageType, InfoType
  <2>2. text \in SUBSET Versions
    BY <2>1 DEF Placed
  <2> QED BY <2>1, <2>2
<1> DEFINE d == [st.doc EXCEPT ![n] = [id |-> doc[n].id, text |-> text]]
           p == [st.pages EXCEPT ![n] = [index |-> st.pages[n].index, has |-> text # {},
                                         blocks |-> blocks]]
<1>4. next = [doc |-> d, pages |-> p, ok |-> TRUE]
  <2>1. PICK sd : sd = st.doc
    OBVIOUS
  <2>2. PICK sp : sp = st.pages
    BY SMTT(30)
  <2>3. /\ sd \in [1..Len(doc) -> PageType] /\ sd[n] = [id |-> doc[n].id, text |-> sd[n].text]
        /\ sp \in [1..Len(doc) -> InfoType]
        /\ sp[n] = [index |-> sp[n].index, has |-> sp[n].has, blocks |-> sp[n].blocks]
        /\ d = [sd EXCEPT ![n] = [id |-> doc[n].id, text |-> text]]
        /\ p = [sp EXCEPT ![n] = [index |-> sp[n].index, has |-> text # {}, blocks |-> blocks]]
    BY <1>2, <1>3, <2>1, <2>2, SMTT(30)
  <2>4. next = [doc |-> [sd EXCEPT ![n].text = text],
                pages |-> [sp EXCEPT ![n].blocks = blocks, ![n].has = text # {}], ok |-> TRUE]
    <3>1. st.ok = TRUE
      BY <1>1
    <3> QED BY <1>0, <2>1, <2>2, <3>1 DEF Rewritten
  <2>5. PICK has : has = (text # {}) /\ has \in BOOLEAN
    OBVIOUS
  <2>6. [sd[n] EXCEPT !.text = text] = [id |-> doc[n].id, text |-> text]
    <3>1. PICK id, own : sd[n] = [id |-> id, text |-> own]
      BY <2>3
    <3>2. id = doc[n].id
      <4>1. sd[n].id = id /\ sd[n].id = doc[n].id
        BY <2>3, <3>1, <1>1, <2>1
      <4> QED BY <4>1
    <3> QED BY <3>1, <3>2, SMTT(30)
  <2>7. [sd EXCEPT ![n].text = text] = d
    BY <2>3, <2>6, ZenonT(60)
  <2> HIDE DEF blocks, text, d, p
  <2>8. [[sp[n] EXCEPT !.blocks = blocks] EXCEPT !.has = has]
          = [index |-> sp[n].index, has |-> has, blocks |-> blocks]
    <3>1. PICK i, h, b : sp[n] = [index |-> i, has |-> h, blocks |-> b]
      BY <2>3
    <3>2. sp[n].index = i
      BY <3>1
    <3>3. [sp[n] EXCEPT !.blocks = blocks] = [index |-> i, has |-> h, blocks |-> blocks]
      BY <3>1
    <3>4. [[index |-> i, has |-> h, blocks |-> blocks] EXCEPT !.has = has]
            = [index |-> i, has |-> has, blocks |-> blocks]
      OBVIOUS
    <3> QED BY <3>2, <3>3, <3>4
  <2>9. [[sp EXCEPT ![n].blocks = blocks] EXCEPT ![n].has = has]
         = [sp EXCEPT ![n] = [index |-> sp[n].index, has |-> has, blocks |-> blocks]]
    <3>1. PICK info : info = sp[n]
      OBVIOUS
    <3>2. PICK mid : mid = [sp EXCEPT ![n] = [info EXCEPT !.blocks = blocks]]
      OBVIOUS
    <3>3. mid[n] = [info EXCEPT !.blocks = blocks]
      BY <2>3, <3>2
    <3> QED BY <2>3, <2>8, <3>1, <3>2, <3>3, ZenonT(60)
  <2> QED BY <2>3, <2>4, <2>5, <2>7, <2>9, ZenonT(60)
<1>5. d \in Seq(PageType) /\ Len(d) = Len(doc) /\ \A i \in 1..Len(doc) : d[i].id = doc[i].id
  <2>1. [id |-> doc[n].id, text |-> text] \in PageType
    BY <1>3 DEF PageType
  <2>2. d \in [1..Len(doc) -> PageType]
    BY <1>2, <2>1
  <2>3. \A i \in 1..Len(doc) : d[i].id = doc[i].id
    BY <1>1, <1>2
  <2> QED BY <1>1, <2>2, <2>3, FunctionIsSeq
<1>6. p \in Seq(InfoType) /\ Len(p) = Len(doc)
  <2>1. (text # {}) \in BOOLEAN
    OBVIOUS
  <2>2. [index |-> st.pages[n].index, has |-> text # {}, blocks |-> blocks] \in InfoType
    BY <1>3, <2>1 DEF InfoType
  <2>3. p \in [1..Len(doc) -> InfoType]
    BY <1>2, <2>2
  <2> QED BY <1>1, <2>3, FunctionIsSeq
<1> HIDE DEF d, p
<1>7. next \in States
  BY <1>4, <1>5, <1>6 DEF States
<1>8. RewritesPage(st, k, n, next)
  BY <1>4, <1>7 DEF d, p, RewritesPage
<1> QED BY <1>0, <1>8

LEMMA OnePageIs ==
  ASSUME EditTypeOK, Len(pages) = Len(doc), NEW st \in States, NEW k \in 1..Len(pages)
  PROVE  OnePage(st, k) \in States
<1>1. /\ DOMAIN st.doc = 1..Len(doc) /\ DOMAIN st.pages = 1..Len(doc) /\ Len(doc) \in Nat
  BY SeqIsFunction DEF States, EditTypeOK
<1>2. [st EXCEPT !.ok = FALSE] \in States
  BY DEF States
<1>3. CASE pages[k].blocks # {} /\ st.ok /\ st.pages[k].index \in 1..Len(doc)
  <2>1. OnePage(st, k) = Rewritten(st, st.pages[k].index, st.pages[k].blocks)
    BY <1>1, <1>3 DEF OnePage, SaveStep
  <2>2. RewritesPage(st, k, st.pages[k].index, OnePage(st, k))
    BY <1>3, <2>1, SavesAPage
  <2> QED BY <2>2 DEF RewritesPage
<1> QED BY <1>1, <1>2, <1>3 DEF OnePage, SaveStep

LEMMA RewritesIs ==
  ASSUME EditTypeOK, Len(pages) = Len(doc)
  PROVE  /\ Rewrites \in [0..Len(pages) -> States]
         /\ Rewrites[0] = Begins
         /\ \A k \in 1..Len(pages) : Rewrites[k] = OnePage(Rewrites[k - 1], k)
<1> DEFINE n == Len(pages)
           step == [k \in 1..n |-> [st \in States |-> OnePage(st, k)]]
<1>1. n \in Nat /\ step \in [1..n -> [States -> States]]
  BY OnePageIs, SeqIsFunction DEF EditTypeOK
<1>2. Begins \in States
  BY DEF Begins, States, EditTypeOK
<1> HIDE DEF step
<1>3. PICK f \in [0..n -> States] : f[0] = Begins /\ \A k \in 1..n : f[k] = step[k][f[k - 1]]
  BY <1>1, <1>2, Iteration, SMTT(30)
<1>4. \A k \in 0..n : f[k] = IF k = 0 THEN Begins ELSE OnePage(f[k - 1], k)
  <2> SUFFICES ASSUME NEW k \in 0..n, k # 0 PROVE f[k] = OnePage(f[k - 1], k)
    BY <1>3
  <2>1. k \in 1..n /\ k - 1 \in 0..n
    BY <1>1
  <2>2. f[k - 1] \in States /\ f[k] = step[k][f[k - 1]]
    BY <1>3, <2>1
  <2> QED BY <2>1, <2>2 DEF step
<1>5. f = [k \in 0..n |-> IF k = 0 THEN Begins ELSE OnePage(f[k - 1], k)]
  BY <1>3, <1>4
<1>6. Rewrites = [k \in 0..n |-> IF k = 0 THEN Begins ELSE OnePage(Rewrites[k - 1], k)]
  <2>1. f = [k \in 0..Len(pages) |->
               IF k = 0 THEN [doc |-> doc, pages |-> pages, ok |-> TRUE]
               ELSE IF pages[k].blocks = {} THEN f[k - 1] ELSE SaveStep(f[k - 1], k)]
    BY <1>5 DEF Begins, OnePage
  <2> HIDE DEF n
  <2>2. Rewrites = [k \in 0..Len(pages) |->
               IF k = 0 THEN [doc |-> doc, pages |-> pages, ok |-> TRUE]
               ELSE IF pages[k].blocks = {} THEN Rewrites[k - 1] ELSE SaveStep(Rewrites[k - 1], k)]
    BY <2>1, Zenon DEF Rewrites
  <2> QED BY <2>2 DEF Begins, OnePage, n
<1> HIDE DEF n
<1>7. /\ Rewrites[0] = Begins
      /\ \A k \in 1..n : Rewrites[k] = OnePage(Rewrites[k - 1], k)
  BY <1>1, <1>6
<1>8. 0..n \subseteq {k \in 0..n : Rewrites[k] \in States}
  <2> DEFINE T == {k \in 0..n : Rewrites[k] \in States}
  <2>1. 0 \in T
    BY <1>1, <1>2, <1>7
  <2>2. ASSUME NEW k \in 0..n - 1, k \in T PROVE k + 1 \in T
    <3>1. k + 1 \in 1..n /\ k + 1 \in 0..n /\ (k + 1) - 1 = k /\ k \in 0..n
      BY <1>1
    <3>2. Rewrites[k + 1] = OnePage(Rewrites[k], k + 1)
      BY <1>7, <3>1
    <3> QED BY <2>2, <3>1, <3>2, OnePageIs DEF n
  <2> HIDE DEF T
  <2> QED BY <1>1, <2>1, <2>2, UpTo DEF T
<1> QED BY <1>6, <1>7, <1>8 DEF n

\* If each page of the model that has blocks knows its own position, the blocks of each
\* page go to it, and there is nothing else that changes.
LEMMA RewriteIs ==
  ASSUME EditTypeOK, Len(pages) = Len(doc)
  PROVE  /\ AfterRewrite \in States
         /\ Aligned =>
              /\ AfterRewrite.ok
              /\ \A i \in 1..Len(doc) :
                   /\ AfterRewrite.pages[i].blocks = pages[i].blocks
                   /\ AfterRewrite.doc[i].text =
                        IF pages[i].blocks = {} THEN doc[i].text ELSE Placed(pages[i].blocks)
<1> DEFINE n == Len(pages)
           Done(k) == LET st == Rewrites[k] IN
                      /\ st.ok
                      /\ \A i \in 1..n :
                           /\ st.pages[i].blocks = pages[i].blocks
                           /\ st.pages[i].index = pages[i].index
                           /\ st.doc[i].text = IF i <= k /\ pages[i].blocks # {}
                                               THEN Placed(pages[i].blocks) ELSE doc[i].text
           T == {k \in 0..n : Done(k)}
<1>1. n \in Nat /\ Len(doc) = n
  BY SeqIsFunction DEF EditTypeOK
<1>2. /\ Rewrites \in [0..n -> States] /\ Rewrites[0] = Begins
      /\ \A k \in 1..n : Rewrites[k] = OnePage(Rewrites[k - 1], k)
  BY RewritesIs
<1>3. ASSUME Aligned PROVE Done(n)
  <2>1. 0 \in T
    BY <1>1, <1>2 DEF Begins
  <2>2. ASSUME NEW k \in 0..n - 1, k \in T PROVE k + 1 \in T
    <3> DEFINE st == Rewrites[k]
    <3>1. /\ k + 1 \in 1..n /\ k + 1 \in 0..n /\ (k + 1) - 1 = k /\ k \in 0..n /\ k \in Int
          /\ st \in States /\ Done(k)
      BY <1>1, <1>2, <2>2, SMTT(30)
    <3>2. Rewrites[k + 1] = OnePage(st, k + 1)
      BY <1>2, <3>1
    <3>3. CASE pages[k + 1].blocks = {}
      <4>1. Rewrites[k + 1] = st
        BY <3>2, <3>3 DEF OnePage
      <4>2. \A i \in 1..n : (i <= k + 1 /\ pages[i].blocks # {}) <=> (i <= k /\ pages[i].blocks # {})
        BY <3>1, <3>3
      <4> HIDE DEF n
      <4> QED BY <3>1, <4>1, <4>2
    <3>4. CASE pages[k + 1].blocks # {}
      <4>1. st.ok /\ st.pages[k + 1].blocks = pages[k + 1].blocks /\ st.pages[k + 1].index = k + 1
        <5>1. DOMAIN pages = 1..n
          BY SeqIsFunction DEF EditTypeOK
        <5> QED BY <1>3, <3>1, <3>4, <5>1 DEF Aligned
      <4>2. /\ DOMAIN st.doc = 1..n /\ DOMAIN st.pages = 1..n
            /\ st.doc \in [1..n -> PageType] /\ st.pages \in [1..n -> InfoType]
        BY <1>1, <3>1, SeqIsFunction DEF States
      <4>3. Rewrites[k + 1] = Rewritten(st, k + 1, st.pages[k + 1].blocks)
        BY <3>1, <3>2, <3>4, <4>1, <4>2 DEF OnePage, SaveStep
      <4> DEFINE next == Rewrites[k + 1]
      <4>4. /\ next.ok
            /\ next.doc = [st.doc EXCEPT ![k + 1] = [id |-> doc[k + 1].id, text |-> Placed(pages[k + 1].blocks)]]
            /\ next.pages = [st.pages EXCEPT ![k + 1] = [index |-> k + 1,
                               has |-> Placed(pages[k + 1].blocks) # {}, blocks |-> pages[k + 1].blocks]]
        <5>1. /\ st \in States /\ k + 1 \in 1..Len(pages) /\ k + 1 \in 1..Len(doc) /\ st.ok
              /\ k + 1 = st.pages[k + 1].index /\ next = Rewritten(st, k + 1, st.pages[k + 1].blocks)
          BY <1>1, <3>1, <4>1, <4>3
        <5> HIDE DEF next, st
        <5>a. RewritesPage(st, k + 1, k + 1, next)
          BY <5>1, SavesAPage
        <5>2. /\ next.ok
              /\ next.doc = [st.doc EXCEPT ![k + 1] = [id |-> doc[k + 1].id, text |-> Placed(st.pages[k + 1].blocks)]]
              /\ next.pages = [st.pages EXCEPT ![k + 1] = [index |-> st.pages[k + 1].index,
                               has |-> Placed(st.pages[k + 1].blocks) # {}, blocks |-> st.pages[k + 1].blocks]]
          BY <5>1, <5>a DEF RewritesPage
        <5> QED BY <4>1, <5>1, <5>2 DEF st
      <4> HIDE DEF next, st
      <4>5. ASSUME NEW i \in 1..n
            PROVE  /\ next.pages[i].blocks = pages[i].blocks
                   /\ next.pages[i].index = pages[i].index
                   /\ next.doc[i].text = IF i <= k + 1 /\ pages[i].blocks # {}
                                         THEN Placed(pages[i].blocks) ELSE doc[i].text
        <5>1. pages[k + 1].index = k + 1
          BY <3>1, <4>1 DEF st
        <5>2. /\ st.pages[i].blocks = pages[i].blocks
              /\ st.pages[i].index = pages[i].index
              /\ st.doc[i].text = IF i <= k /\ pages[i].blocks # {}
                                  THEN Placed(pages[i].blocks) ELSE doc[i].text
          BY <3>1 DEF st
        <5>3. CASE i = k + 1
          BY <3>1, <3>4, <4>2, <4>4, <5>1, <5>3
        <5>4. CASE i # k + 1
          <6>1. (i <= k + 1) <=> (i <= k)
            BY <3>1, <5>4
          <6>2. next.pages[i] = st.pages[i] /\ next.doc[i] = st.doc[i]
            BY <4>2, <4>4, <5>4
          <6> QED BY <5>2, <6>1, <6>2
        <5> QED BY <5>3, <5>4
      <4>6. Done(k + 1)
        <5> HIDE DEF n
        <5> QED BY <4>4, <4>5 DEF next
      <4> QED BY <3>1, <4>6
    <3> QED BY <3>3, <3>4
  <2> HIDE DEF T
  <2>3. 0..n \subseteq T
    BY <1>1, <2>1, <2>2, UpTo
  <2> QED BY <1>1, <2>3 DEF T
<1>4. AfterRewrite \in States /\ AfterRewrite = Rewrites[n]
  BY <1>1, <1>2 DEF AfterRewrite
<1>5. ASSUME Done(n)
      PROVE  /\ AfterRewrite.ok
             /\ \A i \in 1..Len(doc) :
                   /\ AfterRewrite.pages[i].blocks = pages[i].blocks
                   /\ AfterRewrite.doc[i].text =
                        IF pages[i].blocks = {} THEN doc[i].text ELSE Placed(pages[i].blocks)
  <2>1. \A i \in 1..n : i <= n
    BY <1>1
  <2> HIDE DEF n
  <2> QED BY <1>1, <1>4, <1>5, <2>1
<1> HIDE DEF Done
<1> QED BY <1>3, <1>4, <1>5

-----------------------------------------------------------------------------
Words == {"none", "ocr", "edited"}

LEMMA Shapes ==
  ASSUME EditTypeOK, PagesAreApart
  PROVE  /\ Len(doc) \in Nat /\ Len(disk) \in Nat /\ Len(pages) = Len(doc)
         /\ DOMAIN doc = 1..Len(doc) /\ doc \in [1..Len(doc) -> PageType]
         /\ DOMAIN pages = 1..Len(doc) /\ pages \in [1..Len(doc) -> InfoType]
         /\ DOMAIN disk = 1..Len(disk) /\ disk \in [1..Len(disk) -> PageType]
<1>1. doc \in Seq(PageType) /\ disk \in Seq(PageType) /\ pages \in Seq(InfoType) /\ Len(pages) = Len(doc)
  BY DEF EditTypeOK, PagesAreApart
<1> QED BY <1>1, SeqIsFunction

LEMMA Constants ==
  /\ Extra \in Ids /\ \A id \in Ids : Page(id) \in PageType
  /\ \A i \in Nat : Placeholder(i) \in InfoType
  /\ \A i \in Nat : \A d : Info(i, d) \in InfoType
  /\ Original \in Seq(Ids)
<1>1. Extra \in Ids /\ Original \in Seq(Ids)
  BY SessionAssumption DEF Ids
<1>2. ASSUME NEW id \in Ids PROVE Page(id) \in PageType
  BY DEF Page, PageType, Versions
<1>3. \A i \in Nat : Placeholder(i) \in InfoType
  BY DEF Placeholder, InfoType
<1>4. ASSUME NEW i \in Nat, NEW d PROVE Info(i, d) \in InfoType
  <2>1. (d[i].text # {}) \in BOOLEAN
    OBVIOUS
  <2>2. PICK h \in BOOLEAN : h = (d[i].text # {})
    BY <2>1
  <2>3. Info(i, d) = [index |-> i, has |-> h, blocks |-> {}]
    BY <2>2 DEF Info
  <2> QED BY <2>3 DEF InfoType
<1> QED BY <1>1, <1>2, <1>3, <1>4

\* A text is written to its page unless it has no place there.
LEMMA PlacedIs ==
  ASSUME NEW id, NEW word
  PROVE  /\ Placed({}) = {}
         /\ id \in Boxless => Placed({<<id, word>>}) = {}
         /\ id \notin Boxless => Placed({<<id, word>>}) = {<<id, word>>}
BY DEF Placed

\* The texts of a page, case by case.
LEMMA DueIs ==
  ASSUME NEW texts \in [Ids -> Words], NEW id \in Ids
  PROVE  /\ texts[id] = "none" \/ id \in Boxless => Due(texts, id) = {}
         /\ texts[id] # "none" => Latest(texts, id) = {<<id, texts[id]>>}
         /\ texts[id] # "none" /\ id \notin Boxless => Due(texts, id) = {<<id, texts[id]>>}
         /\ texts[id] \in Words
<1>1. texts[id] \in Words
  OBVIOUS
<1>2. /\ texts[id] = "none" => Latest(texts, id) = {}
      /\ texts[id] # "none" => Latest(texts, id) = {<<id, texts[id]>>}
  BY DEF Latest
<1> QED BY <1>1, <1>2, PlacedIs DEF Due

LEMMA KnownIs ==
  ASSUME NEW d \in Seq(PageType), \A i, j \in DOMAIN d : d[i].id = d[j].id => i = j
  PROVE  /\ Known(d) \in [Ids -> Words]
         /\ \A texts \in [Ids -> Words] : \A i \in DOMAIN d :
              IsSaved(d[i], texts) => IsSaved(d[i], Known(d))
<1>1. Known(d) \in [Ids -> Words]
  BY DEF Known, Words
<1>2. ASSUME NEW texts \in [Ids -> Words], NEW i \in DOMAIN d, IsSaved(d[i], texts)
      PROVE  IsSaved(d[i], Known(d))
  <2> DEFINE id == d[i].id
             both == {<<id, "ocr">>, <<id, "edited">>}
  <2>1. d[i] \in PageType /\ id \in Ids /\ <<id, "own">> \notin both
        /\ <<id, "ocr">> # <<id, "edited">>
    <3>1. DOMAIN d = 1..Len(d) /\ d \in [1..Len(d) -> PageType]
      BY SeqIsFunction
    <3>2. d[i] \in PageType
      BY <3>1
    <3> QED BY <3>2 DEF PageType
  <2>2. /\ Belongs(d[i], d[i].text) /\ Recognised(d[i]) = Due(texts, id)
        /\ Recognised(d[i]) = d[i].text \ {<<id, "own">>}
    BY <1>2 DEF IsSaved, Recognised
  <2>3. \A j \in DOMAIN d : d[j].id = id => j = i
    OBVIOUS
  <2>4. (CHOOSE j \in DOMAIN d : d[j].id = id) = i
    <3> HIDE DEF id
    <3>1. \E j \in DOMAIN d : d[j].id = id
      BY DEF id
    <3> QED BY <2>3, <3>1
  <2>5. Known(d)[id] = IF \E j \in DOMAIN d : d[j].id = id /\ d[j].text \cap both # {}
                       THEN IF <<id, "edited">> \in d[i].text THEN "edited" ELSE "ocr"
                       ELSE "none"
    BY <2>1, <2>4 DEF Known
  <2>6. (\E j \in DOMAIN d : d[j].id = id /\ d[j].text \cap both # {}) <=> d[i].text \cap both # {}
    BY <2>3
  <2>7. Recognised(d[i]) = Due(Known(d), id)
    <3> HIDE DEF id
    <3>1. CASE texts[id] = "none" \/ id \in Boxless
      <4>0. d[i].text \ {<<id, "own">>} = {}
        BY <2>1, <2>2, <3>1, DueIs
      <4>1. d[i].text \cap both = {}
        BY <2>1, <4>0
      <4> QED BY <1>1, <2>1, <2>2, <2>5, <2>6, <4>0, <4>1, DueIs
    <3>2. CASE texts[id] = "ocr" /\ id \notin Boxless
      <4>0. d[i].text \ {<<id, "own">>} = {<<id, "ocr">>}
        BY <2>1, <2>2, <3>2, DueIs
      <4>1. d[i].text \cap both # {} /\ <<id, "edited">> \notin d[i].text
        BY <2>1, <4>0
      <4> QED BY <1>1, <2>1, <2>2, <2>5, <2>6, <3>2, <4>0, <4>1, DueIs
    <3>3. CASE texts[id] = "edited" /\ id \notin Boxless
      <4>0. d[i].text \ {<<id, "own">>} = {<<id, "edited">>}
        BY <2>1, <2>2, <3>3, DueIs
      <4>1. d[i].text \cap both # {} /\ <<id, "edited">> \in d[i].text
        BY <2>1, <4>0
      <4> QED BY <1>1, <2>1, <2>2, <2>5, <2>6, <3>3, <4>0, <4>1, DueIs
    <3> QED BY <2>1, <3>1, <3>2, <3>3, DueIs DEF Words
  <2> QED BY <2>2, <2>7 DEF IsSaved
<1> QED BY <1>1, <1>2

LEMMA EditStarts == EditInit => EditInv
<1> SUFFICES ASSUME EditInit PROVE EditInv
  OBVIOUS
<1>1. DOMAIN Original = 1..Len(Original) /\ Original \in [1..Len(Original) -> Ids] /\ Len(Original) \in Nat
  BY Constants, SeqIsFunction
<1>2. /\ disk \in Seq(PageType) /\ DOMAIN disk = 1..Len(Original)
      /\ \A i \in 1..Len(Original) : disk[i] = Page(Original[i])
  <2>1. disk = [i \in 1..Len(Original) |-> Page(Original[i])]
    BY <1>1 DEF EditInit
  <2>2. disk \in [1..Len(Original) -> PageType]
    BY <1>1, <2>1, Constants
  <2> QED BY <1>1, <2>1, <2>2, FunctionIsSeq
<1>3. /\ doc = <<>> /\ pages = <<>> /\ DOMAIN doc = {} /\ Len(pages) = Len(doc)
      /\ doc \in Seq(PageType) /\ pages \in Seq(InfoType)
  BY DEF EditInit
<1>4. load \in LoadType
      /\ load.info.blocks = {}
  BY Constants DEF EditInit, NoLoad, Placeholder, LoadType
<1>5. EditTypeOK
  <2>1. given \in [Ids -> {"none", "ocr", "edited"}] /\ kept \in [Ids -> {"none", "ocr", "edited"}]
    BY DEF EditInit
  <2>2. ops \in 0..MaxOps /\ session = "none" /\ structural \in BOOLEAN /\ excused \in BOOLEAN
        /\ wipe = {} /\ seen = {}
    <3>1. ops \in 0..MaxOps
      BY SessionAssumption DEF EditInit
    <3>2. structural = FALSE /\ excused = FALSE /\ session = "none" /\ wipe = {} /\ seen = {}
      BY DEF EditInit
    <3> QED BY <3>1, <3>2, Zenon
  <2> QED BY <1>2, <1>3, <1>4, <2>1, <2>2 DEF EditTypeOK
<1>6. PagesAreApart
  <2>1. \A i \in 1..Len(Original) : disk[i].id = Original[i]
    BY <1>2 DEF Page
  <2>2. \A i, j \in DOMAIN disk : disk[i].id = disk[j].id => i = j
    BY <1>1, <1>2, <2>1, SessionAssumption
  <2>3. \A i, j \in DOMAIN doc : doc[i].id = doc[j].id => i = j
    BY <1>3
  <2> QED BY <1>3, <1>4, <2>2, <2>3 DEF PagesAreApart
<1>7. ASSUME NEW i \in DOMAIN disk PROVE IsSaved(disk[i], kept)
  <2>1. PICK id \in Ids : id = Original[i] /\ disk[i] = Page(id)
    BY <1>1, <1>2
  <2>2. kept[id] = "none" /\ kept \in [Ids -> Words]
    BY <2>1 DEF EditInit, Words
  <2>3. Page(id).id = id /\ Page(id).text \subseteq {<<id, "own">>}
    BY DEF Page
  <2>4. Due(kept, id) = {}
    BY <2>2, DueIs
  <2> QED BY <2>1, <2>3, <2>4 DEF IsSaved, Belongs, Recognised
<1>8. TextsAgree
  BY <1>3, <1>7 DEF TextsAgree
<1> QED BY <1>5, <1>6, <1>8 DEF EditInv

LEMMA Rearranged ==
  ASSUME EditInv, Structure, given' = given,
         NEW n \in Nat, NEW at \in [1..n -> DOMAIN doc], NEW with \in [1..n -> DOMAIN doc],
         \A i, j \in 1..n : at[i] = at[j] => i = j,
         doc' = Picked(doc, at), pages' = Picked(pages, with),
         excused' \in BOOLEAN, excused => excused', ~excused' => at = with
  PROVE  EditInv'
<1>1. EditTypeOK /\ PagesAreApart /\ TextsAgree
  BY DEF EditInv
<1>2. DOMAIN pages = DOMAIN doc
  BY <1>1, Shapes
<1>3. /\ doc' \in Seq(PageType) /\ Len(doc') = n /\ DOMAIN doc' = 1..n
      /\ \A i \in 1..n : doc'[i] = doc[at[i]]
  <2>1. doc \in Seq(PageType)
    BY <1>1 DEF EditTypeOK
  <2> QED BY <2>1, PickedIs
<1>4. /\ pages' \in Seq(InfoType) /\ Len(pages') = n /\ DOMAIN pages' = 1..n
      /\ \A i \in 1..n : pages'[i] = pages[with[i]]
  <2>1. pages \in Seq(InfoType) /\ with \in [1..n -> DOMAIN pages]
    BY <1>1, <1>2 DEF EditTypeOK
  <2> QED BY <2>1, PickedIs
<1>5. EditTypeOK'
  <2>1. PICK late \in BOOLEAN : load' = [load EXCEPT !.raced = late]
    <3>1. (load.pc = "write") \in BOOLEAN
      OBVIOUS
    <3> QED BY <3>1 DEF Structure
  <2>2. load' \in LoadType
    BY <1>1, <2>1 DEF EditTypeOK, LoadType
  <2>3. /\ disk' \in Seq(PageType) /\ wipe' \subseteq Nat /\ seen' \subseteq [at : Nat, id : Ids]
        /\ kept' \in [Ids -> {"none", "ocr", "edited"}] /\ given' \in [Ids -> {"none", "ocr", "edited"}]
        /\ session' \in {"none", "open", "broken"} /\ structural' \in BOOLEAN
    BY <1>1 DEF EditTypeOK, Structure
  <2>4. ops' \in 0..MaxOps
    BY <1>1, SessionAssumption DEF EditTypeOK, Structure, Asked
  <2> QED BY <1>3, <1>4, <2>2, <2>3, <2>4 DEF EditTypeOK
<1>6. PagesAreApart'
  <2>1. ASSUME NEW i \in DOMAIN doc', NEW j \in DOMAIN doc', doc'[i].id = doc'[j].id PROVE i = j
    <3>1. at[i] \in DOMAIN doc /\ at[j] \in DOMAIN doc /\ doc[at[i]].id = doc[at[j]].id
      BY <1>3, <2>1
    <3>2. at[i] = at[j]
      BY <1>1, <3>1 DEF PagesAreApart
    <3> QED BY <1>3, <3>2
  <2>2. load'.info.blocks = {}
    BY <1>1 DEF EditTypeOK, PagesAreApart, Structure
  <2>3. disk' = disk
    BY DEF Structure
  <2>4. \A i, j \in DOMAIN disk' : disk'[i].id = disk'[j].id => i = j
    BY <1>1, <2>3 DEF PagesAreApart
  <2> QED BY <1>3, <1>4, <2>1, <2>2, <2>4 DEF PagesAreApart
<1>7. TextsAgree'
  <2> SUFFICES ASSUME ~excused'
               PROVE  /\ \A i \in DOMAIN doc' : IsGiven(doc'[i], pages'[i], given')
                      /\ \A i \in DOMAIN disk' : IsSaved(disk'[i], kept')
    BY DEF TextsAgree
  <2>1. /\ \A i \in DOMAIN doc : IsGiven(doc[i], pages[i], given)
        /\ \A i \in DOMAIN disk : IsSaved(disk[i], kept)
    BY <1>1 DEF TextsAgree
  <2>2. ASSUME NEW i \in 1..n PROVE IsGiven(doc'[i], pages'[i], given')
    <3>1. doc'[i] = doc[at[i]] /\ pages'[i] = pages[at[i]] /\ at[i] \in DOMAIN doc
      BY <1>3, <1>4
    <3> QED BY <2>1, <3>1
  <2> QED BY <1>3, <2>1, <2>2 DEF Structure
<1> QED BY <1>5, <1>6, <1>7 DEF EditInv

LEMMA PagesDeleted == EditInv /\ DeletePages => EditInv'
<1> SUFFICES ASSUME EditInv, DeletePages PROVE EditInv'
  OBVIOUS
<1>1. DOMAIN doc = 1..Len(doc) /\ Len(doc) \in Nat /\ excused \in BOOLEAN
  BY Shapes DEF EditInv, EditTypeOK
<1>2. PICK rest \in SUBSET DOMAIN doc : \E left \in Ascending(rest) :
         doc' = Picked(doc, left) /\ pages' = Picked(pages, left)
  BY DEF DeletePages
<1>3. Cardinality(rest) \in Nat
  <2>1. IsFiniteSet(1..Len(doc))
    BY <1>1, FS_Interval
  <2>2. IsFiniteSet(rest)
    BY <1>1, <2>1, FS_Subset
  <2> QED BY <2>2, FS_CardinalityType
<1>a. PICK left \in Ascending(rest) : doc' = Picked(doc, left) /\ pages' = Picked(pages, left)
  BY <1>2
<1>4. /\ left \in [1..Cardinality(rest) -> DOMAIN doc]
      /\ \A i, j \in 1..Cardinality(rest) : i < j => left[i] < left[j]
  BY <1>a DEF Ascending
<1>5. \A i, j \in 1..Cardinality(rest) : left[i] = left[j] => i = j
  <2> SUFFICES ASSUME NEW i \in 1..Cardinality(rest), NEW j \in 1..Cardinality(rest), i # j
               PROVE  left[i] # left[j]
    OBVIOUS
  <2>1. i < j \/ j < i
    BY <1>3
  <2>2. left[i] \in Int /\ left[j] \in Int
    BY <1>1, <1>4
  <2>3. left[i] < left[j] \/ left[j] < left[i]
    BY <1>4, <2>1
  <2> QED BY <2>2, <2>3
<1>6. Structure /\ given' = given /\ excused' = excused
  BY DEF DeletePages
<1> QED BY <1>1, <1>a, <1>3, <1>4, <1>5, <1>6, Rearranged

LEMMA PageMoved == EditInv /\ MovePage => EditInv'
<1> SUFFICES ASSUME EditInv, MovePage PROVE EditInv'
  OBVIOUS
<1>1. /\ doc \in Seq(PageType) /\ pages \in Seq(InfoType) /\ excused \in BOOLEAN
      /\ DOMAIN doc = 1..Len(doc) /\ Len(doc) \in Nat /\ DOMAIN pages = DOMAIN doc /\ Len(pages) = Len(doc)
  BY Shapes DEF EditInv, EditTypeOK
<1>2. PICK from \in DOMAIN doc, to \in DOMAIN doc :
         /\ from # to
         /\ doc' = Moved(doc, from, IF from < to THEN to - 1 ELSE to)
         /\ pages' = Moved(pages, from, to)
         /\ excused' = (excused \/ from < to)
  BY <1>1 DEF MovePage
<1>3. PICK there \in DOMAIN doc : there = IF from < to THEN to - 1 ELSE to
  BY <1>1
<1>4. /\ doc' = Picked(doc, Before(Len(doc), from, there))
      /\ Before(Len(doc), from, there) \in [1..Len(doc) -> DOMAIN doc]
      /\ \A i, j \in 1..Len(doc) :
            Before(Len(doc), from, there)[i] = Before(Len(doc), from, there)[j] => i = j
  BY <1>1, <1>2, <1>3, MovedIs, ZenonT(60)
<1>5. /\ pages' = Picked(pages, Before(Len(doc), from, to))
      /\ Before(Len(doc), from, to) \in [1..Len(doc) -> DOMAIN doc]
  BY <1>1, <1>2, MovedIs
<1>6. /\ excused' \in BOOLEAN /\ (excused => excused')
      /\ ~excused' => Before(Len(doc), from, there) = Before(Len(doc), from, to)
  <2>0. (from < to) \in BOOLEAN
    BY <1>1
  <2>1. PICK front \in BOOLEAN : front = (from < to)
    BY <2>0
  <2>2. excused' = (excused \/ front)
    BY <1>2, <2>1
  <2>3. ~excused' => there = to
    BY <1>3, <2>1, <2>2
  <2> QED BY <1>1, <2>2, <2>3
<1>7. Structure /\ given' = given
  BY DEF MovePage
<1> QED BY <1>1, <1>4, <1>5, <1>6, <1>7, Rearranged

LEMMA PagesReordered == EditInv /\ Reorder => EditInv'
<1> SUFFICES ASSUME EditInv, Reorder PROVE EditInv'
  OBVIOUS
<1>1. DOMAIN doc = 1..Len(doc) /\ Len(doc) \in Nat /\ excused \in BOOLEAN
  BY Shapes DEF EditInv, EditTypeOK
<1>2. PICK order \in SetToSeqs(DOMAIN doc) :
         doc' = Picked(doc, order) /\ pages' = Picked(pages, order)
  BY DEF Reorder
<1>3. Cardinality(DOMAIN doc) \in Nat
  BY <1>1, FS_Interval, FS_CardinalityType
<1>4. /\ order \in [1..Cardinality(DOMAIN doc) -> DOMAIN doc]
      /\ \A i, j \in 1..Cardinality(DOMAIN doc) : order[i] = order[j] => i = j
  BY <1>2 DEF SetToSeqs
<1>5. Structure /\ given' = given /\ excused' = excused
  BY DEF Reorder
<1> QED BY <1>1, <1>2, <1>3, <1>4, <1>5, Rearranged

LEMMA PageInserted == EditInv /\ InsertPage => EditInv'
<1> SUFFICES ASSUME EditInv, InsertPage PROVE EditInv'
  OBVIOUS
<1>1. EditTypeOK /\ PagesAreApart /\ TextsAgree
  BY DEF EditInv
<1>2. /\ doc \in Seq(PageType) /\ excused \in BOOLEAN /\ Len(doc) \in Nat
      /\ DOMAIN doc = 1..Len(doc) /\ DOMAIN pages = 1..Len(doc)
      /\ doc \in [1..Len(doc) -> PageType] /\ pages \in [1..Len(doc) -> InfoType]
  BY <1>1, Shapes DEF EditTypeOK
<1> DEFINE n == Len(doc) + 1
           e == Page(Extra)
<1>3. PICK at \in 1..n : doc' = InsertAt(doc, at, e)
  BY DEF InsertPage
<1>4. e \in PageType /\ e.id = Extra /\ Belongs(e, e.text) /\ Recognised(e) = {}
  BY Constants DEF Page, Belongs, Recognised
<1> HIDE DEF e
<1>5. /\ doc' \in Seq(PageType) /\ Len(doc') = n
      /\ \A i \in 1..n : doc'[i] = IF i < at THEN doc[i] ELSE IF i = at THEN e ELSE doc[i - 1]
  <2>1. doc' \in Seq(PageType) /\ IsInserted(doc', doc, at, e)
    BY <1>2, <1>3, <1>4, InsertedIs
  <2> QED BY <2>1 DEF IsInserted
<1>6. DOMAIN doc' = 1..n /\ n \in Nat /\ at \in Nat
  BY <1>2, <1>5, SeqIsFunction
<1>7. /\ pages' \in Seq(InfoType) /\ Len(pages') = n /\ DOMAIN pages' = 1..n
      /\ \A i \in 1..n : pages'[i].blocks = {}
  <2>1. pages' = [i \in 1..n |-> Info(i, doc')]
    BY <1>6 DEF InsertPage, Infos
  <2>2. \A i \in 1..n : Info(i, doc') \in InfoType /\ Info(i, doc').blocks = {}
    <3>1. \A i \in 1..n : i \in Nat
      BY <1>6
    <3> QED BY <3>1, Constants DEF Info
  <2>3. pages' \in [1..n -> InfoType]
    BY <2>1, <2>2
  <2> QED BY <1>6, <2>1, <2>2, <2>3, FunctionIsSeq
<1>8. /\ disk' = disk /\ session' = session /\ wipe' = wipe /\ seen' = seen /\ kept' = kept
      /\ structural' = TRUE /\ ops' \in 0..MaxOps
      /\ given' = [given EXCEPT ![Extra] = "none"]
  BY <1>1, SessionAssumption DEF InsertPage, Structure, Asked, EditTypeOK
<1>9. load' \in LoadType /\ load'.info = load.info
  <2>1. PICK late \in BOOLEAN : load' = [load EXCEPT !.raced = late]
    <3>1. (load.pc = "write") \in BOOLEAN
      OBVIOUS
    <3> QED BY <3>1 DEF InsertPage, Structure
  <2> QED BY <1>1, <2>1 DEF EditTypeOK, LoadType
<1>10. excused' \in BOOLEAN /\ (excused => excused') /\ (~excused' => ~Unsaved)
  <2>1. PICK u \in BOOLEAN : u = Unsaved
    BY DEF Unsaved
  <2>2. excused' = (excused \/ u)
    BY <2>1 DEF InsertPage
  <2> QED BY <1>2, <2>1, <2>2
<1>11. EditTypeOK'
  BY <1>1, <1>5, <1>7, <1>8, <1>9, <1>10 DEF EditTypeOK
\* The page that was at a position.
<1>12. ASSUME NEW i \in 1..n, i # at
       PROVE  \E j \in 1..Len(doc) : doc'[i] = doc[j] /\ i = IF j < at THEN j ELSE j + 1
  <2>1. CASE i < at
    BY <1>2, <1>5, <1>6, <2>1
  <2>2. CASE i > at
    <3>1. i - 1 \in 1..Len(doc) /\ doc'[i] = doc[i - 1] /\ i = IF i - 1 < at THEN i - 1 ELSE (i - 1) + 1
      BY <1>2, <1>5, <1>6, <2>2
    <3> QED BY <3>1
  <2> QED BY <1>6, <1>12, <2>1, <2>2
<1>13. doc'[at] = e
  BY <1>5, <1>6
<1>14. \A j \in 1..Len(doc) : doc[j].id # Extra
  BY <1>2 DEF InsertPage
<1>15. PagesAreApart'
  <2>1. ASSUME NEW i \in 1..n, NEW j \in 1..n, doc'[i].id = doc'[j].id PROVE i = j
    <3>1. CASE i = at \/ j = at
      BY <1>4, <1>12, <1>13, <1>14, <2>1, <3>1
    <3>2. CASE i # at /\ j # at
      <4>1. PICK a \in 1..Len(doc) : doc'[i] = doc[a] /\ i = IF a < at THEN a ELSE a + 1
        BY <1>12, <3>2
      <4>2. PICK b \in 1..Len(doc) : doc'[j] = doc[b] /\ j = IF b < at THEN b ELSE b + 1
        BY <1>12, <3>2
      <4>3. a = b
        BY <1>1, <1>2, <2>1, <4>1, <4>2 DEF PagesAreApart
      <4> QED BY <4>1, <4>2, <4>3
    <3> QED BY <3>1, <3>2
  <2>2. \A i, j \in DOMAIN disk' : disk'[i].id = disk'[j].id => i = j
    BY <1>1, <1>8 DEF PagesAreApart
  <2>3. load'.info.blocks = {}
    BY <1>1, <1>9 DEF PagesAreApart
  <2> QED BY <1>5, <1>6, <1>7, <2>1, <2>2, <2>3 DEF PagesAreApart
<1>16. TextsAgree'
  <2> SUFFICES ASSUME ~excused'
               PROVE  /\ \A i \in DOMAIN doc' : IsGiven(doc'[i], pages'[i], given')
                      /\ \A i \in DOMAIN disk' : IsSaved(disk'[i], kept')
    BY DEF TextsAgree
  <2>1. /\ \A i \in 1..Len(doc) : IsGiven(doc[i], pages[i], given)
        /\ \A i \in DOMAIN disk : IsSaved(disk[i], kept)
        /\ ~Unsaved
    BY <1>1, <1>2, <1>10 DEF TextsAgree
  <2>2. given \in [Ids -> Words] /\ given' \in [Ids -> Words]
    BY <1>1, <1>11 DEF EditTypeOK, Words
  <2>3. ASSUME NEW j \in 1..Len(doc)
        PROVE  Belongs(doc[j], doc[j].text) /\ Recognised(doc[j]) = Due(given, doc[j].id)
    <3>1. CASE pages[j].blocks = {}
      BY <2>1, <3>1 DEF IsGiven
    <3>2. CASE pages[j].blocks # {}
      <4>1. PICK k \in 1..Len(doc) : pages[j].blocks \subseteq doc[k].text
        BY <1>2, <2>1 DEF Unsaved
      <4> DEFINE id == doc[j].id
                 word == given[id]
      <4>2. /\ word # "none" /\ pages[j].blocks = Latest(given, id)
            /\ Belongs(doc[j], doc[j].text)
            /\ Recognised(doc[j]) \in {{}, Placed({<<id, "ocr">>}), Placed({<<id, "edited">>})}
        BY <2>1, <3>2 DEF IsGiven
      <4>3. id \in Ids /\ word \in {"ocr", "edited"} /\ pages[j].blocks = {<<id, word>>}
        BY <1>2, <2>2, <4>2, DueIs DEF PageType, Words
      <4>4. doc[k].id = id
        BY <2>1, <4>1, <4>3 DEF IsGiven, Belongs
      <4>5. k = j
        BY <1>1, <1>2, <4>4 DEF PagesAreApart
      <4> HIDE DEF id, word
      <4>6. <<id, word>> \in Recognised(doc[j])
        <5>1. doc[j].id = id
          BY DEF id
        <5> QED BY <4>1, <4>3, <4>5, <5>1 DEF Recognised
      <4>7. id \notin Boxless
        BY <4>2, <4>6, PlacedIs
      <4>8. Recognised(doc[j]) \in {{}, {<<id, "ocr">>}, {<<id, "edited">>}}
        BY <4>2, <4>7, PlacedIs
      <4>9. Recognised(doc[j]) = {<<id, word>>}
        BY <4>6, <4>8
      <4>10. Due(given, id) = {<<id, word>>}
        BY <2>2, <4>2, <4>3, <4>7, DueIs DEF word
      <4> QED BY <4>2, <4>9, <4>10 DEF id
    <3> QED BY <3>1, <3>2
  <2>4. ASSUME NEW i \in 1..n
        PROVE  Belongs(doc'[i], doc'[i].text) /\ Recognised(doc'[i]) = Due(given', doc'[i].id)
    <3>1. CASE i = at
      <4>1. given'[Extra] = "none"
        BY <1>8, <2>2, Constants
      <4>2. Due(given', Extra) = {}
        BY <2>2, <4>1, DueIs, Constants
      <4> QED BY <1>4, <1>13, <3>1, <4>2
    <3>2. CASE i # at
      <4>1. PICK j \in 1..Len(doc) : doc'[i] = doc[j]
        BY <1>12, <3>2
      <4>2. given'[doc[j].id] = given[doc[j].id]
        <5>1. doc[j].id \in Ids /\ doc[j].id # Extra
          BY <1>2, <1>14 DEF PageType
        <5> QED BY <1>8, <2>2, <5>1
      <4> QED BY <2>3, <4>1, <4>2 DEF Due, Latest
    <3> QED BY <3>1, <3>2
  <2>5. \A i \in 1..n : IsGiven(doc'[i], pages'[i], given')
    BY <1>7, <2>4 DEF IsGiven, Belongs
  <2> QED BY <1>6, <1>8, <2>1, <2>5
<1> QED BY <1>11, <1>15, <1>16 DEF EditInv

\* Steps that leave the pages where they are.
LEMMA Retold ==
  ASSUME EditInv, EditTypeOK', Len(doc') = Len(doc), Len(pages') = Len(doc),
         \A i \in 1..Len(doc) : doc'[i].id = doc[i].id,
         load'.info.blocks = {}, excused => excused',
         ~excused' => \A i \in 1..Len(doc) : IsGiven(doc'[i], pages'[i], given'),
         \/ disk' = disk /\ kept' = kept
         \/ /\ disk' = doc'
            /\ ~excused' => \A i \in 1..Len(doc) : IsSaved(doc'[i], kept')
  PROVE  EditInv'
<1>1. EditTypeOK /\ PagesAreApart /\ TextsAgree
  BY DEF EditInv
<1>2. DOMAIN doc = 1..Len(doc) /\ DOMAIN doc' = 1..Len(doc)
  <2>1. doc \in Seq(PageType) /\ doc' \in Seq(PageType)
    BY <1>1 DEF EditTypeOK
  <2> QED BY <2>1, SeqIsFunction
<1>3. PagesAreApart'
  <2>1. \A i, j \in DOMAIN doc' : doc'[i].id = doc'[j].id => i = j
    BY <1>1, <1>2 DEF PagesAreApart
  <2>2. \A i, j \in DOMAIN disk' : disk'[i].id = disk'[j].id => i = j
    BY <1>1, <2>1 DEF PagesAreApart
  <2> QED BY <2>1, <2>2 DEF PagesAreApart
<1>4. TextsAgree'
  BY <1>1, <1>2 DEF TextsAgree
<1> QED BY <1>3, <1>4 DEF EditInv

LEMMA LayerAdded == EditInv /\ AddLayer => EditInv'
<1> SUFFICES ASSUME EditInv, AddLayer PROVE EditInv'
  OBVIOUS
<1>1. EditTypeOK /\ PagesAreApart /\ TextsAgree
  BY DEF EditInv
<1>2. /\ excused \in BOOLEAN /\ Len(doc) \in Nat /\ Len(pages) = Len(doc)
      /\ DOMAIN doc = 1..Len(doc) /\ DOMAIN pages = 1..Len(doc)
      /\ doc \in [1..Len(doc) -> PageType] /\ pages \in [1..Len(doc) -> InfoType]
  BY <1>1, Shapes DEF EditTypeOK
<1>3. /\ disk' = disk /\ session' = session /\ structural' = structural /\ wipe' = wipe
      /\ kept' = kept /\ load' = load /\ ops' \in 0..MaxOps /\ load'.info.blocks = {}
  BY <1>1, SessionAssumption DEF AddLayer, Request, Asked, EditTypeOK, PagesAreApart
<1>4. PICK s \in seen : \E over \in BOOLEAN :
       LET text == {<<s.id, "ocr">>}
           has == pages[s.at].has IN
       /\ s.at \in DOMAIN doc \cap DOMAIN pages /\ seen' = {}
       /\ IF has /\ ~over THEN UNCHANGED <<doc, pages, given, excused>>
          ELSE /\ doc' = [doc EXCEPT ![s.at].text = (IF has THEN {} ELSE @) \cup Placed(text)]
               /\ \/ /\ pages' = [pages EXCEPT ![s.at].has = Placed(text) # {},
                                              ![s.at].blocks = text]
                     /\ given' = [given EXCEPT ![s.id] = "ocr"]
                     /\ excused' = (excused \/ doc[s.at].id # s.id
                                    \/ (~has /\ doc[s.at].text # {}))
                  \/ /\ pages' = IF has THEN [pages EXCEPT ![s.at] = Cleared(s.at)] ELSE pages
                     /\ excused' = TRUE
                     /\ UNCHANGED given
  BY DEF AddLayer
<1> DEFINE at == s.at
           id == s.id
           text == {<<id, "ocr">>}
           has == pages[at].has
<1>5. /\ at \in 1..Len(doc) /\ id \in Ids /\ seen' = {} /\ text \in SUBSET Versions
      /\ Placed(text) \in SUBSET Versions /\ Placed(text) \subseteq text
  <2>1. at \in 1..Len(doc) /\ id \in Ids /\ seen' = {} /\ text \in SUBSET Versions
    BY <1>1, <1>2, <1>4 DEF EditTypeOK, Versions
  <2> QED BY <2>1 DEF Placed
<1>6. ASSUME UNCHANGED <<doc, pages, given, excused>> PROVE EditInv'
  <2>1. EditTypeOK'
    BY <1>1, <1>3, <1>5, <1>6 DEF EditTypeOK
  <2>2. ~excused' => \A i \in 1..Len(doc) : IsGiven(doc'[i], pages'[i], given')
    BY <1>1, <1>2, <1>6 DEF TextsAgree
  <2> QED BY <1>2, <1>3, <1>6, <2>1, <2>2, Retold
<1>7. ASSUME doc' = [doc EXCEPT ![at].text = (IF has THEN {} ELSE @) \cup Placed(text)]
      PROVE  /\ doc' \in Seq(PageType) /\ Len(doc') = Len(doc)
             /\ \A i \in 1..Len(doc) : i # at => doc'[i] = doc[i]
             /\ \A i \in 1..Len(doc) : doc'[i].id = doc[i].id
             /\ doc'[at].text = (IF has THEN {} ELSE doc[at].text) \cup Placed(text)
  <2> HIDE DEF at, id, text, has
  <2>1. doc[at] \in PageType
    BY <1>2, <1>5
  <2>2. PICK new : new = (IF has THEN {} ELSE doc[at].text) \cup Placed(text)
    OBVIOUS
  <2>3. new \in SUBSET Versions
    BY <1>5, <2>1, <2>2 DEF PageType
  <2>4. doc' = [doc EXCEPT ![at] = [doc[at] EXCEPT !.text = new]]
    BY <1>2, <1>5, <1>7, <2>2
  <2>5. [doc[at] EXCEPT !.text = new] \in PageType
    BY <2>1, <2>3 DEF PageType
  <2>6. [doc[at] EXCEPT !.text = new].id = doc[at].id /\ [doc[at] EXCEPT !.text = new].text = new
    BY <2>1 DEF PageType
  <2>7. doc' \in [1..Len(doc) -> PageType]
    BY <1>2, <1>5, <2>4, <2>5
  <2>8. doc' \in Seq(PageType) /\ Len(doc') = Len(doc)
    BY <1>2, <2>7, FunctionIsSeq
  <2> QED BY <1>2, <1>5, <2>2, <2>4, <2>6, <2>8
<1>8. ASSUME pages' = [pages EXCEPT ![at].has = Placed(text) # {}, ![at].blocks = text]
      PROVE  /\ pages' \in Seq(InfoType) /\ Len(pages') = Len(doc)
             /\ \A i \in 1..Len(doc) : i # at => pages'[i] = pages[i]
             /\ pages'[at].blocks = text
  <2> HIDE DEF at, id, text, has
  <2>1. pages[at] \in InfoType
    BY <1>2, <1>5
  <2>2. PICK some \in BOOLEAN : some = (Placed(text) # {})
    OBVIOUS
  <2>3. PICK mid : mid = [pages EXCEPT ![at] = [pages[at] EXCEPT !.has = some]]
    OBVIOUS
  <2>4. pages' = [mid EXCEPT ![at] = [mid[at] EXCEPT !.blocks = text]]
    BY <1>8, <2>2, <2>3
  <2>5. mid \in [1..Len(doc) -> InfoType] /\ \A i \in 1..Len(doc) : i # at => mid[i] = pages[i]
    BY <1>2, <1>5, <2>1, <2>3 DEF InfoType
  <2>6. mid[at] \in InfoType
    BY <1>5, <2>5
  <2>7. [mid[at] EXCEPT !.blocks = text] \in InfoType /\ [mid[at] EXCEPT !.blocks = text].blocks = text
    BY <1>5, <2>6 DEF InfoType
  <2>8. pages' \in [1..Len(doc) -> InfoType]
    BY <1>5, <2>4, <2>5, <2>7
  <2>9. pages' \in Seq(InfoType) /\ Len(pages') = Len(doc)
    BY <1>2, <2>8, FunctionIsSeq
  <2> QED BY <1>5, <2>4, <2>5, <2>7, <2>9
\* The layer is written.
<1>9. ASSUME doc' = [doc EXCEPT ![at].text = (IF has THEN {} ELSE @) \cup Placed(text)],
             pages' = [pages EXCEPT ![at].has = Placed(text) # {}, ![at].blocks = text],
             given' = [given EXCEPT ![id] = "ocr"],
             excused' = (excused \/ doc[at].id # id \/ (~has /\ doc[at].text # {}))
      PROVE  EditInv'
  <2>1. /\ doc' \in Seq(PageType) /\ Len(doc') = Len(doc)
        /\ \A i \in 1..Len(doc) : i # at => doc'[i] = doc[i]
        /\ \A i \in 1..Len(doc) : doc'[i].id = doc[i].id
        /\ doc'[at].text = (IF has THEN {} ELSE doc[at].text) \cup Placed(text)
    BY <1>7, <1>9
  <2>2. /\ pages' \in Seq(InfoType) /\ Len(pages') = Len(doc)
        /\ \A i \in 1..Len(doc) : i # at => pages'[i] = pages[i]
        /\ pages'[at].blocks = text
    BY <1>8, <1>9
  <2> HIDE DEF at, id, text, has
  <2>3. /\ excused' \in BOOLEAN /\ (excused => excused')
        /\ ~excused' => ~excused /\ doc[at].id = id /\ (has \/ doc[at].text = {})
    <3>1. PICK why \in BOOLEAN : why = (doc[at].id # id \/ (~has /\ doc[at].text # {}))
      OBVIOUS
    <3>2. excused' = (excused \/ why)
      BY <1>9, <3>1
    <3> QED BY <1>2, <3>1, <3>2
  <2>4. EditTypeOK'
    <3>1. given' \in [Ids -> {"none", "ocr", "edited"}]
      BY <1>1, <1>5, <1>9 DEF EditTypeOK
    <3> QED BY <1>1, <1>3, <1>5, <2>1, <2>2, <2>3, <3>1 DEF EditTypeOK
  <2>5. ASSUME ~excused', NEW i \in 1..Len(doc) PROVE IsGiven(doc'[i], pages'[i], given')
    <3>1. IsGiven(doc[i], pages[i], given)
      BY <1>1, <1>2, <2>3, <2>5 DEF TextsAgree
    <3>2. given \in [Ids -> Words] /\ given' = [given EXCEPT ![id] = "ocr"] /\ doc[i].id \in Ids
      BY <1>1, <1>2, <1>9 DEF EditTypeOK, Words, PageType
    <3>3. CASE i # at
      <4>1. doc[i].id # id
        BY <1>1, <1>2, <1>5, <2>3, <2>5, <3>3 DEF PagesAreApart
      <4>2. given'[doc[i].id] = given[doc[i].id]
        BY <3>2, <4>1
      <4> QED BY <2>1, <2>2, <3>1, <3>3, <4>2 DEF IsGiven, Due, Latest
    <3>4. CASE i = at
      <4>1. doc'[at].text = Placed(text) /\ pages'[at].blocks = text /\ doc'[at].id = id
        BY <1>5, <2>1, <2>2, <2>3, <2>5
      <4>2. given'[id] = "ocr" /\ Latest(given', id) = text
        BY <1>5, <3>2 DEF Latest, text
      <4>3. \A t \in text : t[1] = id /\ t # <<id, "own">>
        BY DEF text
      <4>4. Recognised(doc'[at]) = Placed(text)
        BY <1>5, <4>1, <4>3 DEF Recognised
      <4>5. Belongs(doc'[at], doc'[at].text) /\ Belongs(doc'[at], pages'[at].blocks)
        BY <1>5, <4>1, <4>3 DEF Belongs
      <4>6. Placed(text) \in {{}, Placed({<<id, "ocr">>}), Placed({<<id, "edited">>})} /\ text # {}
        BY DEF text
      <4> QED BY <3>4, <4>1, <4>2, <4>4, <4>5, <4>6 DEF IsGiven
    <3> QED BY <3>3, <3>4
  <2> QED BY <1>3, <2>1, <2>2, <2>3, <2>4, <2>5, Retold
\* The write breaks off.
<1>10. ASSUME doc' = [doc EXCEPT ![at].text = (IF has THEN {} ELSE @) \cup Placed(text)],
              pages' = IF has THEN [pages EXCEPT ![at] = Cleared(at)] ELSE pages,
              excused' = TRUE, given' = given
       PROVE  EditInv'
  <2>1. /\ doc' \in Seq(PageType) /\ Len(doc') = Len(doc)
        /\ \A i \in 1..Len(doc) : doc'[i].id = doc[i].id
    BY <1>7, <1>10
  <2>2. Cleared(at) \in InfoType
    BY <1>2, <1>5 DEF Cleared, InfoType
  <2> HIDE DEF at, id, text, has
  <2>3. pages' \in [1..Len(doc) -> InfoType]
    BY <1>2, <1>10, <2>2
  <2>4. pages' \in Seq(InfoType) /\ Len(pages') = Len(doc)
    BY <1>2, <2>3, FunctionIsSeq
  <2>5. EditTypeOK'
    BY <1>1, <1>3, <1>5, <1>10, <2>1, <2>4 DEF EditTypeOK
  <2> QED BY <1>3, <1>10, <2>1, <2>4, <2>5, Retold
<1> QED BY <1>4, <1>6, <1>9, <1>10

LEMMA BlockUpdated == EditInv /\ UpdateBlock => EditInv'
<1> SUFFICES ASSUME EditInv, UpdateBlock PROVE EditInv'
  OBVIOUS
<1>1. EditTypeOK /\ PagesAreApart /\ TextsAgree
  BY DEF EditInv
<1>2. /\ excused \in BOOLEAN /\ Len(doc) \in Nat /\ Len(pages) = Len(doc)
      /\ DOMAIN doc = 1..Len(doc) /\ DOMAIN pages = 1..Len(doc)
      /\ doc \in [1..Len(doc) -> PageType] /\ pages \in [1..Len(doc) -> InfoType]
  BY <1>1, Shapes DEF EditTypeOK
<1>3. /\ disk' = disk /\ session' = session /\ structural' = structural /\ wipe' = wipe /\ doc' = doc
      /\ seen' = seen /\ kept' = kept /\ load' = load /\ ops' \in 0..MaxOps /\ load'.info.blocks = {}
      /\ excused' = excused
  BY <1>1, SessionAssumption DEF UpdateBlock, Request, Asked, EditTypeOK, PagesAreApart
<1>4. PICK at \in 1..Len(doc) : \E b \in pages[at].blocks :
         /\ pages' = [pages EXCEPT ![at].blocks = {<<b[1], "edited">>}]
         /\ given' = [given EXCEPT ![b[1]] = "edited"]
  BY <1>2 DEF UpdateBlock
<1>5. PICK b \in pages[at].blocks :
         /\ pages' = [pages EXCEPT ![at].blocks = {<<b[1], "edited">>}]
         /\ given' = [given EXCEPT ![b[1]] = "edited"]
  BY <1>4
<1>6. pages[at] \in InfoType /\ b[1] \in Ids
  BY <1>2 DEF InfoType, Versions
<1>7. PICK id \in Ids : id = b[1]
  BY <1>6
<1>8. /\ pages' \in [1..Len(doc) -> InfoType]
      /\ \A i \in 1..Len(doc) : i # at => pages'[i] = pages[i]
      /\ pages'[at].blocks = {<<id, "edited">>}
  <2>1. pages' = [pages EXCEPT ![at] = [pages[at] EXCEPT !.blocks = {<<id, "edited">>}]]
    BY <1>5, <1>7
  <2>2. {<<id, "edited">>} \in SUBSET Versions
    BY DEF Versions
  <2>3. /\ [pages[at] EXCEPT !.blocks = {<<id, "edited">>}] \in InfoType
        /\ [pages[at] EXCEPT !.blocks = {<<id, "edited">>}].blocks = {<<id, "edited">>}
    BY <1>6, <2>2 DEF InfoType
  <2> QED BY <1>2, <2>1, <2>3
<1>9. pages' \in Seq(InfoType) /\ Len(pages') = Len(doc)
  BY <1>2, <1>8, FunctionIsSeq
<1>10. EditTypeOK'
  <2>1. given' \in [Ids -> {"none", "ocr", "edited"}]
    BY <1>1, <1>5, <1>6 DEF EditTypeOK
  <2> QED BY <1>1, <1>3, <1>9, <2>1 DEF EditTypeOK
<1>11. ASSUME ~excused', NEW i \in 1..Len(doc) PROVE IsGiven(doc'[i], pages'[i], given')
  <2>1. IsGiven(doc[i], pages[i], given) /\ IsGiven(doc[at], pages[at], given)
    BY <1>1, <1>2, <1>3, <1>11 DEF TextsAgree
  <2>2. given \in [Ids -> Words] /\ given' = [given EXCEPT ![id] = "edited"]
        /\ doc[i].id \in Ids /\ doc[at].id \in Ids
    BY <1>1, <1>2, <1>5, <1>7 DEF EditTypeOK, Words, PageType
  <2>3. id = doc[at].id
    BY <1>5, <1>7, <2>1 DEF IsGiven, Belongs
  <2>4. CASE i # at
    <3>1. doc[i].id # id
      BY <1>1, <1>2, <2>3, <2>4 DEF PagesAreApart
    <3>2. given'[doc[i].id] = given[doc[i].id]
      BY <2>2, <3>1
    <3> QED BY <1>3, <1>8, <2>1, <2>4, <3>2 DEF IsGiven, Due, Latest
  <2>5. CASE i = at
    <3>1. given'[id] = "edited"
      BY <2>2
    <3>2. Latest(given', id) = {<<id, "edited">>}
      BY <3>1 DEF Latest
    <3>3. Recognised(doc[at]) \in {{}, Placed({<<doc[at].id, "ocr">>}), Placed({<<doc[at].id, "edited">>})}
      BY <1>5, <2>1 DEF IsGiven
    <3>4. Belongs(doc[at], doc[at].text) /\ Belongs(doc[at], pages'[at].blocks)
      BY <1>8, <2>1, <2>3 DEF IsGiven, Belongs
    <3> QED BY <1>3, <1>8, <2>3, <2>5, <3>1, <3>2, <3>3, <3>4 DEF IsGiven
  <2> QED BY <2>4, <2>5
<1> QED BY <1>2, <1>3, <1>9, <1>10, <1>11, Retold

LEMMA PageWiped == EditInv /\ WipePage => EditInv'
<1> SUFFICES ASSUME EditInv, WipePage PROVE EditInv'
  OBVIOUS
<1>1. EditTypeOK /\ PagesAreApart /\ TextsAgree
  BY DEF EditInv
<1>2. /\ excused \in BOOLEAN /\ Len(doc) \in Nat /\ Len(pages) = Len(doc)
      /\ DOMAIN doc = 1..Len(doc) /\ DOMAIN pages = 1..Len(doc)
      /\ doc \in [1..Len(doc) -> PageType] /\ pages \in [1..Len(doc) -> InfoType]
  BY <1>1, Shapes DEF EditTypeOK
<1>3. /\ disk' = disk /\ session' = session /\ structural' = structural /\ seen' = seen
      /\ kept' = kept /\ load' = load /\ ops' = ops /\ load'.info.blocks = {} /\ excused' = excused
  BY <1>1 DEF WipePage, PagesAreApart
<1>4. PICK at \in wipe :
       /\ wipe' = IF session = "open" THEN wipe \ {at} ELSE {}
       /\ IF session = "open" /\ at \in DOMAIN doc
          THEN /\ doc' = [doc EXCEPT ![at].text = {}]
               /\ pages' = IF at \in DOMAIN pages THEN [pages EXCEPT ![at] = Cleared(at)] ELSE pages
               /\ given' = [given EXCEPT ![doc[at].id] = "none"]
          ELSE UNCHANGED <<doc, pages, given>>
  BY DEF WipePage
<1>5. wipe' \subseteq Nat
  BY <1>1, <1>4 DEF EditTypeOK
<1>6. CASE UNCHANGED <<doc, pages, given>>
  <2>1. EditTypeOK'
    BY <1>1, <1>3, <1>5, <1>6 DEF EditTypeOK
  <2>2. ~excused' => \A i \in 1..Len(doc) : IsGiven(doc'[i], pages'[i], given')
    BY <1>1, <1>2, <1>3, <1>6 DEF TextsAgree
  <2> QED BY <1>2, <1>3, <1>6, <2>1, <2>2, Retold
<1>7. CASE /\ at \in 1..Len(doc) /\ doc' = [doc EXCEPT ![at].text = {}]
           /\ pages' = [pages EXCEPT ![at] = Cleared(at)]
           /\ given' = [given EXCEPT ![doc[at].id] = "none"]
  <2>1. doc[at] \in PageType /\ pages[at] \in InfoType /\ doc[at].id \in Ids
    BY <1>2, <1>7 DEF PageType
  <2>2. /\ doc' \in [1..Len(doc) -> PageType]
        /\ \A i \in 1..Len(doc) : i # at => doc'[i] = doc[i]
        /\ doc'[at].id = doc[at].id /\ doc'[at].text = {}
    <3>1. doc' = [doc EXCEPT ![at] = [doc[at] EXCEPT !.text = {}]]
      BY <1>7
    <3>2. /\ [doc[at] EXCEPT !.text = {}] \in PageType
          /\ [doc[at] EXCEPT !.text = {}].id = doc[at].id /\ [doc[at] EXCEPT !.text = {}].text = {}
      BY <2>1 DEF PageType
    <3> QED BY <1>2, <1>7, <3>1, <3>2
  <2>3. /\ pages' \in [1..Len(doc) -> InfoType]
        /\ \A i \in 1..Len(doc) : i # at => pages'[i] = pages[i]
        /\ pages'[at].blocks = {}
    <3>1. Cleared(at) \in InfoType /\ Cleared(at).blocks = {}
      BY <2>1 DEF Cleared, InfoType
    <3> HIDE DEF Cleared
    <3> QED BY <1>2, <1>7, <3>1
  <2>4. /\ doc' \in Seq(PageType) /\ Len(doc') = Len(doc)
        /\ pages' \in Seq(InfoType) /\ Len(pages') = Len(doc)
    BY <1>2, <2>2, <2>3, FunctionIsSeq
  <2>5. EditTypeOK'
    <3>1. given' \in [Ids -> {"none", "ocr", "edited"}]
      BY <1>1, <1>7 DEF EditTypeOK
    <3> QED BY <1>1, <1>3, <1>5, <2>4, <3>1 DEF EditTypeOK
  <2>6. ASSUME ~excused', NEW i \in 1..Len(doc) PROVE IsGiven(doc'[i], pages'[i], given')
    <3>1. IsGiven(doc[i], pages[i], given)
      BY <1>1, <1>2, <1>3, <2>6 DEF TextsAgree
    <3>2. given \in [Ids -> Words] /\ given' = [given EXCEPT ![doc[at].id] = "none"] /\ doc[i].id \in Ids
      BY <1>1, <1>2, <1>7 DEF EditTypeOK, Words, PageType
    <3>3. CASE i # at
      <4>1. doc[i].id # doc[at].id
        BY <1>1, <1>2, <1>7, <3>3 DEF PagesAreApart
      <4>2. given'[doc[i].id] = given[doc[i].id]
        BY <3>2, <4>1
      <4> QED BY <2>2, <2>3, <3>1, <3>3, <4>2 DEF IsGiven, Due, Latest
    <3>4. CASE i = at
      <4>1. given'[doc'[at].id] = "none" /\ doc'[at].id \in Ids /\ given' \in [Ids -> Words]
        BY <2>1, <2>2, <3>2 DEF Words
      <4>2. Due(given', doc'[at].id) = {}
        BY <4>1, DueIs
      <4> QED BY <2>2, <2>3, <3>4, <4>2 DEF IsGiven, Belongs, Recognised
    <3> QED BY <3>3, <3>4
  <2>7. \A i \in 1..Len(doc) : doc'[i].id = doc[i].id
    BY <2>2
  <2> QED BY <1>3, <2>4, <2>5, <2>6, <2>7, Retold
<1> QED BY <1>2, <1>4, <1>6, <1>7

\* What a save leaves in the session, whether or not the file is written.
LEMMA RewriteAgrees ==
  ASSUME EditInv, doc' = AfterRewrite.doc, pages' = AfterRewrite.pages
  PROVE  /\ doc' \in Seq(PageType) /\ pages' \in Seq(InfoType)
         /\ Len(doc') = Len(doc) /\ Len(pages') = Len(doc)
         /\ \A i \in 1..Len(doc) : doc'[i].id = doc[i].id
         /\ ~excused /\ Aligned =>
              \A i \in 1..Len(doc) : IsGiven(doc'[i], pages'[i], given) /\ IsSaved(doc'[i], given)
<1>1. EditTypeOK /\ PagesAreApart /\ TextsAgree /\ Len(pages) = Len(doc)
  BY DEF EditInv, PagesAreApart
<1>2. /\ Len(doc) \in Nat /\ DOMAIN doc = 1..Len(doc) /\ DOMAIN pages = 1..Len(doc)
      /\ doc \in [1..Len(doc) -> PageType] /\ pages \in [1..Len(doc) -> InfoType]
  BY <1>1, Shapes
<1>3. AfterRewrite \in States
  BY <1>1, RewriteIs
<1>4. /\ doc' \in Seq(PageType) /\ pages' \in Seq(InfoType)
      /\ Len(doc') = Len(doc) /\ Len(pages') = Len(doc)
      /\ \A i \in 1..Len(doc) : doc'[i].id = doc[i].id
  BY <1>1, <1>3 DEF States
<1>5. ASSUME ~excused, Aligned, NEW i \in 1..Len(doc)
      PROVE  IsGiven(doc'[i], pages'[i], given) /\ IsSaved(doc'[i], given)
  <2>1. /\ pages'[i].blocks = pages[i].blocks
        /\ doc'[i].text = IF pages[i].blocks = {} THEN doc[i].text ELSE Placed(pages[i].blocks)
    BY <1>1, <1>5, RewriteIs
  <2>2. IsGiven(doc[i], pages[i], given) /\ doc'[i].id = doc[i].id
    BY <1>1, <1>2, <1>4, <1>5 DEF TextsAgree
  <2>3. doc[i].id \in Ids /\ given \in [Ids -> Words]
    BY <1>1, <1>2 DEF PageType, EditTypeOK, Words
  <2>4. CASE pages[i].blocks = {}
    BY <2>1, <2>2, <2>4 DEF IsGiven, IsSaved, Belongs, Recognised
  <2>5. CASE pages[i].blocks # {}
    <3> DEFINE id == doc[i].id
    <3>1. given[id] # "none" /\ pages[i].blocks = Latest(given, id)
      BY <2>2, <2>5 DEF IsGiven
    <3>2. given[id] \in {"ocr", "edited"} /\ Latest(given, id) = {<<id, given[id]>>}
      BY <2>3, <3>1, DueIs DEF Words
    <3> HIDE DEF id
    <3>3. doc'[i].text = Placed({<<id, given[id]>>}) /\ doc'[i].id = id
      BY <2>1, <2>2, <2>5, <3>1, <3>2 DEF id
    <3>4. Due(given, id) = Placed({<<id, given[id]>>})
      BY <3>2 DEF Due
    <3>5. Placed({<<id, given[id]>>}) \subseteq {<<id, given[id]>>}
      BY DEF Placed
    <3>6. Recognised(doc'[i]) = Placed({<<id, given[id]>>})
      <4>1. doc'[i].text \subseteq {<<id, given[id]>>} /\ <<id, "own">> # <<id, given[id]>>
        BY <3>2, <3>3, <3>5
      <4> QED BY <3>3, <4>1 DEF Recognised
    <3>7. Belongs(doc'[i], doc'[i].text) /\ Belongs(doc'[i], pages'[i].blocks)
      <4>1. /\ doc'[i].text \subseteq {<<id, given[id]>>} /\ pages'[i].blocks = {<<id, given[id]>>}
            /\ <<id, given[id]>>[1] = id
        BY <2>1, <3>1, <3>2, <3>3, <3>5
      <4> QED BY <3>3, <4>1 DEF Belongs
    <3>8. Placed({<<id, given[id]>>}) \in {{}, Placed({<<id, "ocr">>}), Placed({<<id, "edited">>})}
      BY <3>2
    <3> QED BY <2>1, <2>5, <3>1, <3>3, <3>4, <3>6, <3>7, <3>8 DEF IsGiven, IsSaved
  <2> QED BY <2>4, <2>5
<1> QED BY <1>4, <1>5

LEMMA SavesAgree == EditInv /\ (Save \/ SaveAs) => EditInv'
<1> SUFFICES ASSUME EditInv, Save \/ SaveAs PROVE EditInv'
  OBVIOUS
<1>1. EditTypeOK /\ PagesAreApart /\ TextsAgree
  BY DEF EditInv
<1>2. /\ doc' = AfterRewrite.doc /\ pages' = AfterRewrite.pages
      /\ excused' = (excused \/ ~Aligned)
      /\ wipe' = wipe /\ seen' = seen /\ given' = given /\ load' = load /\ ops' \in 0..MaxOps
  <2>1. ops \in 0..MaxOps /\ MaxOps \in Nat
    BY <1>1, SessionAssumption DEF EditTypeOK
  <2>2. ops' = ops + 1 /\ ops < MaxOps
    BY DEF Save, SaveAs, Request, Asked
  <2>3. ops' \in 0..MaxOps
    BY <2>1, <2>2
  <2>4. CASE Save
    BY <2>3, <2>4 DEF Save, Request
  <2>5. CASE SaveAs
    BY <2>3, <2>5 DEF SaveAs, Request
  <2> QED BY <2>4, <2>5
<1>3. \/ disk' = disk /\ kept' = kept
      \/ disk' = AfterRewrite.doc /\ kept' = given
  BY DEF Save, SaveAs
<1>4. session' \in {"none", "open", "broken"} /\ structural' \in BOOLEAN
  BY <1>1 DEF Save, SaveAs, EditTypeOK
<1>5. /\ doc' \in Seq(PageType) /\ pages' \in Seq(InfoType)
      /\ Len(doc') = Len(doc) /\ Len(pages') = Len(doc)
      /\ \A i \in 1..Len(doc) : doc'[i].id = doc[i].id
      /\ ~excused /\ Aligned =>
              \A i \in 1..Len(doc) : IsGiven(doc'[i], pages'[i], given) /\ IsSaved(doc'[i], given)
  BY <1>2, RewriteAgrees
<1>6. excused' \in BOOLEAN /\ (excused => excused') /\ (~excused' => ~excused /\ Aligned)
  <2>1. PICK a \in BOOLEAN : a = Aligned
    BY DEF Aligned
  <2>2. excused' = (excused \/ ~a) /\ excused \in BOOLEAN
    BY <1>1, <1>2, <2>1 DEF EditTypeOK
  <2> QED BY <2>1, <2>2
<1>7. disk' \in Seq(PageType) /\ kept' \in [Ids -> {"none", "ocr", "edited"}]
  BY <1>1, <1>2, <1>3, <1>5 DEF EditTypeOK
<1>8. EditTypeOK'
  BY <1>1, <1>2, <1>4, <1>5, <1>6, <1>7 DEF EditTypeOK
<1>9. load'.info.blocks = {}
  BY <1>1, <1>2 DEF PagesAreApart
<1>10. ~excused' => \A i \in 1..Len(doc) : IsGiven(doc'[i], pages'[i], given') /\ IsSaved(doc'[i], given')
  BY <1>2, <1>5, <1>6
<1> QED BY <1>2, <1>3, <1>5, <1>6, <1>8, <1>9, <1>10, Retold

LEMMA PageLoaded == EditInv /\ LoadWrite => EditInv'
<1> SUFFICES ASSUME EditInv, LoadWrite PROVE EditInv'
  OBVIOUS
<1>1. EditTypeOK /\ PagesAreApart /\ TextsAgree
  BY DEF EditInv
<1>2. /\ excused \in BOOLEAN /\ Len(doc) \in Nat /\ Len(pages) = Len(doc)
      /\ DOMAIN doc = 1..Len(doc) /\ DOMAIN pages = 1..Len(doc)
      /\ pages \in [1..Len(doc) -> InfoType] /\ pages \in Seq(InfoType)
  BY <1>1, Shapes DEF EditTypeOK
<1>3. /\ disk' = disk /\ session' = session /\ structural' = structural /\ wipe' = wipe /\ doc' = doc
      /\ seen' = seen /\ kept' = kept /\ given' = given /\ ops' = ops
  BY DEF LoadWrite
<1>4. load \in LoadType /\ load' \in LoadType /\ load'.info.blocks = {} /\ load.info.blocks = {}
  <2>1. load \in LoadType /\ load.info.blocks = {}
    BY <1>1 DEF EditTypeOK, PagesAreApart
  <2>2. PICK i \in InfoType : i = Placeholder(0) /\ i.blocks = {}
    <3>1. Placeholder(0) \in InfoType /\ Placeholder(0).blocks = {}
      BY Constants DEF Placeholder
    <3> QED BY <3>1
  <2>3. load' = [load EXCEPT !.pc = "read", !.at = @ + 1, !.info = i]
    BY <2>2 DEF LoadWrite
  <2>4. load.at + 1 \in Nat
    BY <2>1 DEF LoadType
  <2>5. load' \in LoadType /\ load'.info = i
    BY <2>1, <2>2, <2>3, <2>4 DEF LoadType
  <2> QED BY <2>1, <2>2, <2>5
<1>5. PICK at \in Nat, info \in InfoType, late \in BOOLEAN :
        at = load.at /\ info = load.info /\ late = load.raced /\ info.blocks = {}
  BY <1>4 DEF LoadType
<1>6. /\ pages' \in {pages, [pages EXCEPT ![at] = info]} /\ (at \notin 1..Len(doc) => pages' = pages)
      /\ excused' = (excused \/ late \/ (at \in DOMAIN pages /\ pages[at].blocks # {}))
  BY <1>2, <1>5 DEF LoadWrite
<1>7. /\ pages' \in Seq(InfoType) /\ Len(pages') = Len(doc)
      /\ \A i \in 1..Len(doc) : pages'[i] = pages[i] \/ (i = at /\ pages'[i] = info)
  <2>1. CASE pages' = pages
    BY <1>2, <2>1
  <2>2. CASE at \in 1..Len(doc) /\ pages' = [pages EXCEPT ![at] = info]
    <3>1. pages' \in [1..Len(doc) -> InfoType]
      BY <1>2, <2>2
    <3> QED BY <1>2, <2>2, <3>1, FunctionIsSeq
  <2> QED BY <1>6, <2>1, <2>2
<1>8. /\ excused' \in BOOLEAN /\ (excused => excused')
      /\ ~excused' => ~excused /\ (at \in DOMAIN pages => pages[at].blocks = {})
  <2>1. PICK why \in BOOLEAN : why = (late \/ (at \in DOMAIN pages /\ pages[at].blocks # {}))
    OBVIOUS
  <2>2. excused' = (excused \/ why)
    BY <1>6, <2>1
  <2> QED BY <1>2, <2>1, <2>2
<1>9. EditTypeOK'
  BY <1>1, <1>3, <1>4, <1>7, <1>8 DEF EditTypeOK
<1>10. ASSUME ~excused', NEW i \in 1..Len(doc) PROVE IsGiven(doc'[i], pages'[i], given')
  <2>1. IsGiven(doc[i], pages[i], given)
    BY <1>1, <1>2, <1>8, <1>10 DEF TextsAgree
  <2>2. pages'[i].blocks = pages[i].blocks
    BY <1>2, <1>5, <1>7, <1>8, <1>10
  <2> QED BY <1>3, <2>1, <2>2 DEF IsGiven
<1> QED BY <1>3, <1>4, <1>7, <1>8, <1>9, <1>10, Retold

\* Steps that leave the pages and their texts alone.
LEMMA PagesUntouched ==
  ASSUME EditInv, LoadRead \/ Recognise \/ WipeStart
  PROVE  EditInv'
<1>1. EditTypeOK /\ PagesAreApart /\ TextsAgree
  BY DEF EditInv
<1>2. /\ disk' = disk /\ doc' = doc /\ pages' = pages /\ session' = session /\ structural' = structural
      /\ given' = given /\ kept' = kept /\ excused' = excused
  BY DEF LoadRead, Recognise, WipeStart
<1>3. load' \in LoadType /\ load'.info.blocks = {}
  <2>1. load \in LoadType /\ load.info.blocks = {}
    BY <1>1 DEF EditTypeOK, PagesAreApart
  <2>2. CASE LoadRead
    <3>1. NoLoad \in LoadType /\ NoLoad.info.blocks = {}
      BY Constants DEF NoLoad, LoadType, Placeholder
    <3>2. PICK at \in Nat : at = load.at
      BY <2>1 DEF LoadType
    <3>3. Info(at, doc) \in InfoType /\ Info(at, doc).blocks = {}
      BY <3>2, Constants DEF Info
    <3>4. [load EXCEPT !.at = @ + 1] \in LoadType /\ [load EXCEPT !.at = @ + 1].info = load.info
      <4>1. at + 1 \in Nat
        BY <3>2
      <4> QED BY <2>1, <3>2, <4>1 DEF LoadType
    <3>5. PICK info \in InfoType : info = Info(at, doc) /\ info.blocks = {}
      BY <3>3
    <3>6. /\ [load EXCEPT !.pc = "write", !.info = info, !.raced = FALSE] \in LoadType
          /\ [load EXCEPT !.pc = "write", !.info = info, !.raced = FALSE].info = info
      BY <2>1, <3>5 DEF LoadType
    <3>7. \/ load' = NoLoad \/ load' = [load EXCEPT !.at = @ + 1]
          \/ load' = [load EXCEPT !.pc = "write", !.info = info, !.raced = FALSE]
      BY <2>2, <3>2, <3>5 DEF LoadRead
    <3> QED BY <2>1, <3>1, <3>4, <3>5, <3>6, <3>7
  <2>3. CASE Recognise \/ WipeStart
    BY <2>1, <2>3 DEF Recognise, WipeStart, Request
  <2> QED BY <2>2, <2>3
<1>4. wipe' \subseteq Nat /\ seen' \subseteq [at : Nat, id : Ids] /\ ops' \in 0..MaxOps
  <2>1. /\ wipe \subseteq Nat /\ seen \subseteq [at : Nat, id : Ids] /\ ops \in 0..MaxOps /\ MaxOps \in Nat
    BY <1>1, SessionAssumption DEF EditTypeOK
  <2>2. DOMAIN doc \subseteq Nat /\ DOMAIN disk \subseteq Nat /\ \A i \in DOMAIN disk : disk[i].id \in Ids
    BY <1>1, Shapes DEF PageType
  <2>3. CASE LoadRead
    BY <2>1, <2>3 DEF LoadRead
  <2>4. CASE Recognise
    BY <2>1, <2>2, <2>4 DEF Recognise
  <2>5. CASE WipeStart
    BY <2>1, <2>2, <2>5 DEF WipeStart, Request, Asked
  <2> QED BY <2>3, <2>4, <2>5
<1>5. EditTypeOK'
  BY <1>1, <1>2, <1>3, <1>4 DEF EditTypeOK
<1>6. PagesAreApart' /\ TextsAgree'
  BY <1>1, <1>2, <1>3 DEF PagesAreApart, TextsAgree
<1> QED BY <1>5, <1>6 DEF EditInv

LEMMA SessionOpened == EditInv /\ (OpenSession \/ CloseSession) => EditInv'
<1> SUFFICES ASSUME EditInv, OpenSession \/ CloseSession PROVE EditInv'
  OBVIOUS
<1>1. EditTypeOK /\ PagesAreApart /\ TextsAgree
  BY DEF EditInv
<1>2. /\ disk \in Seq(PageType) /\ DOMAIN disk = 1..Len(disk) /\ Len(disk) \in Nat
      /\ \A i, j \in DOMAIN disk : disk[i].id = disk[j].id => i = j
  BY <1>1, Shapes DEF EditTypeOK, PagesAreApart
<1>3. /\ disk' = disk /\ kept' = kept /\ excused' = excused /\ ops' = ops
      /\ wipe' = {} /\ seen' = {} /\ structural' = FALSE /\ session' \in {"none", "open"}
      /\ given' = Known(disk)
  BY DEF OpenSession, CloseSession
<1>4. load' \in LoadType /\ load'.info.blocks = {}
  <2>1. NoLoad \in LoadType /\ NoLoad.info.blocks = {}
    BY Constants DEF NoLoad, LoadType, Placeholder
  <2>2. load' = NoLoad \/ load' = [NoLoad EXCEPT !.pc = "read", !.at = 1, !.total = Len(disk)]
    BY DEF OpenSession, CloseSession
  <2>3. /\ [NoLoad EXCEPT !.pc = "read", !.at = 1, !.total = Len(disk)] \in LoadType
        /\ [NoLoad EXCEPT !.pc = "read", !.at = 1, !.total = Len(disk)].info = NoLoad.info
    BY <1>2, <2>1 DEF LoadType
  <2> QED BY <2>1, <2>2, <2>3
<1>5. /\ doc' \in Seq(PageType) /\ pages' \in Seq(InfoType) /\ Len(pages') = Len(doc')
      /\ doc' = <<>> \/ doc' = disk
      /\ \A i \in DOMAIN doc' : pages'[i].blocks = {}
  <2>1. CASE CloseSession
    BY <2>1 DEF CloseSession
  <2>2. CASE OpenSession
    <3>1. doc' = disk /\ pages' = [i \in 1..Len(disk) |-> Placeholder(i)]
      BY <1>2, <2>2 DEF OpenSession
    <3>2. \A i \in 1..Len(disk) : Placeholder(i) \in InfoType /\ Placeholder(i).blocks = {}
      <4>1. \A i \in 1..Len(disk) : i \in Nat
        BY <1>2
      <4> QED BY <4>1, Constants DEF Placeholder
    <3>3. pages' \in [1..Len(disk) -> InfoType]
      BY <3>1, <3>2
    <3>4. pages' \in Seq(InfoType) /\ Len(pages') = Len(disk)
      BY <1>2, <3>3, FunctionIsSeq
    <3> QED BY <1>2, <3>1, <3>2, <3>4
  <2> QED BY <2>1, <2>2
<1>6. Known(disk) \in [Ids -> Words]
  BY <1>2, KnownIs
<1>7. EditTypeOK'
  BY <1>1, <1>3, <1>4, <1>5, <1>6 DEF EditTypeOK, Words
<1>8. DOMAIN <<>> = {}
  OBVIOUS
<1>9. PagesAreApart'
  <2>1. \A i, j \in DOMAIN doc' : doc'[i].id = doc'[j].id => i = j
    BY <1>2, <1>5, <1>8
  <2> QED BY <1>2, <1>3, <1>4, <1>5, <2>1 DEF PagesAreApart
<1>10. TextsAgree'
  <2> SUFFICES ASSUME ~excused'
               PROVE  /\ \A i \in DOMAIN doc' : IsGiven(doc'[i], pages'[i], given')
                      /\ \A i \in DOMAIN disk' : IsSaved(disk'[i], kept')
    BY DEF TextsAgree
  <2>1. \A i \in DOMAIN disk : IsSaved(disk[i], kept)
    BY <1>1, <1>3 DEF TextsAgree
  <2>2. ASSUME NEW i \in DOMAIN doc' PROVE IsGiven(doc'[i], pages'[i], given')
    <3>1. doc' = disk /\ i \in DOMAIN disk
      BY <1>5, <1>8, <2>2
    <3>2. kept \in [Ids -> Words]
      BY <1>1 DEF EditTypeOK, Words
    <3>3. IsSaved(disk[i], Known(disk))
      BY <1>2, <2>1, <3>1, <3>2, KnownIs
    <3> QED BY <1>3, <1>5, <3>1, <3>3 DEF IsGiven, IsSaved, Belongs
  <2> QED BY <1>3, <2>1, <2>2
<1> QED BY <1>7, <1>9, <1>10 DEF EditInv

LEMMA EditStep == EditInv /\ [EditNext]_editing => EditInv'
<1> SUFFICES ASSUME EditInv, [EditNext]_editing PROVE EditInv'
  OBVIOUS
<1>1. CASE UNCHANGED editing
  BY <1>1 DEF editing, EditInv, EditTypeOK, PagesAreApart, TextsAgree
<1>2. CASE EditNext
  BY <1>2, PagesUntouched, SessionOpened, PageLoaded, PagesDeleted, PageInserted, PageMoved,
     PagesReordered, LayerAdded, BlockUpdated, PageWiped, SavesAgree DEF EditNext
<1> QED BY <1>1, <1>2

THEOREM EditInvariance == EditSpec => []EditInv
BY EditStarts, EditStep, PTL DEF EditSpec

\* Neither the document, nor the file, nor the model of the pages shows the text of
\* another page, whatever pages the file has and whatever is done to it
\* (pdf_service.py), but for the known ways to confuse the pages.
THEOREM TextStays == EditSpec => []TextStaysWithItsPage
<1>1. EditInv => TextStaysWithItsPage
  <2> SUFFICES ASSUME EditInv, ~excused PROVE TextStaysWithItsPage
    BY DEF TextStaysWithItsPage
  <2>1. EditTypeOK /\ PagesAreApart /\ TextsAgree /\ DOMAIN pages = DOMAIN doc
    BY Shapes DEF EditInv
  <2>2. /\ \A i \in DOMAIN doc : IsGiven(doc[i], pages[i], given)
        /\ \A i \in DOMAIN disk : IsSaved(disk[i], kept)
    BY <2>1 DEF TextsAgree
  <2>3. \A i \in DOMAIN doc : \A t \in doc[i].text : t[1] = doc[i].id
    BY <2>2 DEF IsGiven, Belongs
  <2>4. \A i \in DOMAIN disk : \A t \in disk[i].text : t[1] = disk[i].id
    BY <2>2 DEF IsSaved, Belongs
  <2>5. \A i \in DOMAIN pages : \A b \in pages[i].blocks : b[1] = doc[i].id
    BY <2>1, <2>2 DEF IsGiven, Belongs
  <2> QED BY <2>1, <2>3, <2>4, <2>5 DEF TextStaysWithItsPage, PagesAreApart
<1> QED BY <1>1, EditInvariance, PTL

\* What a save wrote (save_with_rewrite) is every text in its last version, and no
\* text that was removed, for any pages and any sequence of edits.
THEOREM SavedIsCurrent == EditSpec => []SavedTextIsCurrent
<1>1. EditInv => SavedTextIsCurrent
  BY DEF EditInv, TextsAgree, IsSaved, SavedTextIsCurrent
<1> QED BY <1>1, EditInvariance, PTL
=============================================================================
