------------------------------- MODULE PdfOcr -------------------------------
(***************************************************************************)
(* OCR of a PDF (pdf_ocr_orchestrator.py) through the PDF child process      *)
(* (pdf_backend_process.py, pdf_service.py), with the sidecar that lets a    *)
(* later run skip what an interrupted one has saved (ocr_sidecar.py).        *)
(*                                                                         *)
(* A document is what OCR tells apart in it: how many text layers each page  *)
(* has.  A file also has a size; our own writes never set its time back, so  *)
(* the growth check of the sidecar comes down to the size.                   *)
(***************************************************************************)
EXTENDS Integers, FiniteSets

CONSTANTS Pages,         \* page indices
          Natives,       \* pages that have a text layer of their own
          Blanks,        \* pages without text to recognise
          Placeless,     \* pages with text, no block of which has a place on the page
          Requests,      \* sets of pages that a run is asked for
          BatchSize,     \* pages rendered, recognised and written together
          Overwrites,    \* values of a run's overwrite flag
          MaxRuns,       \* bound on the runs
          MaxLoads,      \* bound on the pages that loads examine
          MaxFaults,     \* bound on the writes and the saves that fail
          MaxCrashes,    \* bound on the crashes of either process
          Absent,        \* no document, no sidecar, no marker
          Empty          \* a marker that was created, and then not written

ASSUME PdfAssumption ==
  /\ Pages \subseteq Nat /\ BatchSize \in Nat \ {0} /\ Overwrites \subseteq BOOLEAN
  /\ Requests \subseteq SUBSET Pages
  /\ Absent \notin [Pages -> Nat]
  /\ Absent # Empty /\ {Absent, Empty} \cap [layers : [Pages -> Nat], size : Nat] = {}
  /\ Absent \notin [pages : SUBSET Pages, base : Nat, completed : BOOLEAN]
  /\ {MaxRuns, MaxLoads, MaxFaults, MaxCrashes} \subseteq Nat

VARIABLES file,    \* the PDF on disk
          marker,  \* the recovery marker of an append: the file cut to the length it names
          sidecar, \* the checkpoint of the file
          ses,     \* the session in the child process
          run,     \* the orchestrator's run, with the request it waits for
          faults   \* history: what went wrong so far

vars == <<file, marker, sidecar, ses, run, faults>>

\* has: the pages that the session's model says have text.  look: what a load has seen
\* and not yet told the model.  blind, a history: the pages whose text the model does
\* not know of (not examined yet, or examined too early; written without a block, or
\* not to the end).
NoSes == [state |-> "none", doc |-> Absent, has |-> {}, blind |-> {}, look |-> {},
          cancel |-> FALSE]
NoRun == [pc |-> "idle", overwrite |-> FALSE, pending |-> {},
          batch |-> {}, text |-> {}, todo |-> {}, results |-> {},
          saved |-> FALSE, packed |-> Absent,
          flag |-> FALSE, ocr |-> {}]

Texts(d) == {p \in Pages : d[p] > 0}
NoText == [p \in Pages |-> 0]

Init ==
  /\ file = [layers |-> [p \in Pages |-> IF p \in Natives THEN 1 ELSE 0], size |-> 1]
  /\ marker = Absent /\ sidecar = Absent /\ ses = NoSes /\ run = NoRun
  /\ faults = [saves |-> 0, crashes |-> 0, runs |-> 0, loads |-> 0, lacking |-> {}, doubled |-> {},
               stale |-> FALSE]

-----------------------------------------------------------------------------
\* load_sidecar and restore_pending_pages, for the file as f.
Grown(f) == sidecar # Absent /\ f.size >= sidecar.base
Restorable(f) == IF Grown(f) /\ ~sidecar.completed THEN sidecar.pages ELSE {}

Fresh == [pages |-> {}, base |-> file.size, completed |-> FALSE]

\* What the next open of the file makes of it: a file that is longer than its marker
\* says is cut to that length.  With a marker that is empty, or longer than the file,
\* there is no next open: it raises.
Recovered == IF marker \notin {Absent, Empty} /\ file.size > marker.size THEN marker ELSE file
Openable == marker # Empty /\ (marker # Absent => file.size >= marker.size)

-----------------------------------------------------------------------------
\* The session.

\* open_session: an interrupted append is cut off first.  No page is known to have
\* text before it is examined.
Open ==
  /\ ses.state = "none" /\ run.pc = "idle" /\ Openable
  /\ file' = Recovered /\ marker' = Absent
  /\ ses' = [NoSes EXCEPT !.state = "open", !.doc = Recovered.layers,
                          !.blind = Texts(Recovered.layers)]
  /\ UNCHANGED <<sidecar, run, faults>>

Saving == {"marking", "naming", "appending", "torn", "unmarking", "packing", "swapping"}
\* fitz_lock: a batch is written under it but saved outside of it; the final
\* save holds it throughout.
Final == run.batch = {}
Locked == run.pc = "writing" \/ (run.pc \in Saving /\ Final)

\* load, a stream of its own: a page is examined under the lock, and the model told of
\* it without.  The stream ends at a cancel, passes over pages that it fails on, and can
\* be asked for again: any page may be next, or none.
Examine ==
  /\ ses.state = "open" /\ ~ses.cancel /\ ses.look = {} /\ faults.loads < MaxLoads
  /\ ~Locked /\ ses.doc # Absent
  /\ \E p \in Pages :
       ses' = [ses EXCEPT !.look = {[page |-> p, has |-> ses.doc[p] > 0]}]
  /\ faults' = [faults EXCEPT !.loads = @ + 1]
  /\ UNCHANGED <<file, marker, sidecar, run>>

Shown == IF ses.doc = Absent THEN {} ELSE Texts(ses.doc)

\* (A page that is being written was looked up before: the news are too late for it.)
TellModel ==
  /\ ses.state = "open"
  /\ \E l \in ses.look :
       ses' = IF l.has
              THEN [ses EXCEPT !.look = {}, !.has = @ \cup {l.page},
                      !.blind = @ \ ({l.page} \ (IF run.pc = "writing" THEN run.todo ELSE {}))]
              ELSE [ses EXCEPT !.look = {}, !.has = @ \ {l.page},
                      !.blind = @ \cup ({l.page} \cap Shown)]
  /\ UNCHANGED <<file, marker, sidecar, run, faults>>

\* POST cancel, and the run's own flag.
Cancel ==
  /\ ses.state = "open" /\ run.pc # "idle" /\ ~run.flag
  /\ ses' = [ses EXCEPT !.cancel = TRUE]
  /\ \E f \in BOOLEAN : run' = [run EXCEPT !.flag = f]
  /\ UNCHANGED <<file, marker, sidecar, faults>>

\* remove: the session can no longer be found, then its document is closed.
Close ==
  /\ ses.state = "open"
  /\ ses' = [ses EXCEPT !.state = "closing", !.cancel = TRUE]
  /\ UNCHANGED <<file, marker, sidecar, run, faults>>

\* (A request that is still at work in a closed session gets an error.)
CloseDoc ==
  /\ ses.state = "closing" /\ ~Locked
  /\ ses' = IF run.pc \in Saving THEN [ses EXCEPT !.state = "closed", !.doc = Absent]
                                 ELSE NoSes
  /\ UNCHANGED <<file, marker, sidecar, run, faults>>

-----------------------------------------------------------------------------
\* The run.
Goto(pc) == run' = [run EXCEPT !.pc = pc]
\* A run that is over.  Its result tells which pages are done by OCR; the others
\* are blank, failed or, after a cancel, untouched.
Ended(r) == [NoRun EXCEPT !.ocr = r.ocr]
Called == ses.state = "open"

StartRun ==
  /\ run.pc = "idle" /\ Called /\ faults.runs < MaxRuns
  /\ faults' = [faults EXCEPT !.runs = @ + 1]
  /\ ses' = [ses EXCEPT !.cancel = FALSE]
  /\ \E want \in Requests, over \in Overwrites :
       LET pending == IF over THEN want ELSE want \ Restorable(file) IN
       run' = [NoRun EXCEPT !.pc = IF pending = {} THEN "idle" ELSE "batch",
                            !.overwrite = over,
                            !.pending = pending,
                            !.ocr = want \ pending]
  /\ UNCHANGED <<file, marker, sidecar>>

FirstBatch(pages) ==
  {p \in pages : Cardinality({q \in pages : q < p}) < BatchSize}

NextBatch ==
  /\ run.pc = "batch"
  /\ run' = IF run.flag THEN Ended(run)
            ELSE IF run.pending = {} THEN [run EXCEPT !.pc = "final", !.batch = {}]
            ELSE LET b == FirstBatch(run.pending) IN
                 [run EXCEPT !.pc = "render", !.batch = b, !.saved = FALSE, !.pending = @ \ b]
  /\ UNCHANGED <<file, marker, sidecar, ses, faults>>

\* The next batch is due.
BatchOver(r) == [r EXCEPT !.pc = "batch", !.text = {}, !.todo = {}, !.results = {}]

RenderAndRecognise ==
  /\ run.pc = "render" /\ Called
  /\ IF run.flag THEN run' = BatchOver(run)
     ELSE LET text == run.batch \ Blanks IN
          run' = [run EXCEPT !.pc = "write", !.text = text, !.todo = text]
  /\ UNCHANGED <<file, marker, sidecar, ses, faults>>

\* A call that raises: the session is cancelled, and stays cancelled for the
\* rest of the run.
CallRaises ==
  /\ run.pc \in {"render", "write", "broken"} /\ Called
  /\ ses' = [ses EXCEPT !.cancel = TRUE]
  /\ run' = BatchOver(run)
  /\ UNCHANGED <<file, marker, sidecar, faults>>

\* Without the session even that cancel raises, and the whole run with it.
RunRaises ==
  /\ run.pc \in {"render", "write", "broken"} /\ ~Called
  /\ run' = NoRun
  /\ UNCHANGED <<file, marker, sidecar, ses, faults>>

\* The pages that have a text layer already and keep it.
Skipped == IF run.overwrite THEN {} ELSE run.todo \cap ses.has

\* add_text_layer_batch under the lock: pages to overwrite lose their layer
\* here, all at once, before the first page is written.
WriteBegin ==
  /\ run.pc = "write" /\ Called /\ ses.doc # Absent
  /\ LET gone == (run.todo \cap ses.has) \ Skipped IN
     ses' = [ses EXCEPT
       !.doc = [p \in Pages |-> IF p \in gone THEN 0 ELSE @[p]],
       !.has = @ \ gone]
  /\ run' = [run EXCEPT !.pc = "writing", !.results = Skipped,
                        !.todo = @ \ Skipped]
  /\ faults' = [faults EXCEPT !.lacking = @ \cup (Skipped \ Texts(ses.doc))]
  /\ UNCHANGED <<file, marker, sidecar>>

Least(p) == p \in run.todo /\ \A q \in run.todo : p <= q
\* A page is written: its layer may be one too many, if nobody knew of the text there.
Doubled(p) == [faults EXCEPT !.doubled = @ \cup ({p} \cap ses.blind \cap Shown)]

WritePage_Unrecorded ==
  /\ run.pc = "writing" /\ ~ses.cancel
  /\ \E p \in Pages :
     /\ Least(p)
     /\ ses' = [ses EXCEPT !.doc[p] = @ + 1, !.blind = @ \ {p}]
     /\ faults' = Doubled(p)
     /\ run' = [run EXCEPT !.todo = @ \ {p}, !.results = @ \cup {p}]
  /\ UNCHANGED <<file, marker, sidecar>>

\* One page; a cancel is looked for before each.  A page has text once a block of it
\* was written: of a page none of whose blocks has a place there is none, yet it is
\* among the results.
WritePage ==
  /\ run.pc = "writing" /\ ~ses.cancel
  /\ \E p \in Pages :
     /\ Least(p)
     /\ \/ /\ p \notin Placeless
           /\ ses' = [ses EXCEPT !.doc[p] = @ + 1, !.has = @ \cup {p}, !.blind = @ \ {p}]
           /\ faults' = Doubled(p)
        \/ /\ p \in Placeless
           /\ ses' = [ses EXCEPT !.has = @ \ {p}, !.blind = @ \cup ({p} \cap Shown)]
           /\ faults' = [faults EXCEPT !.lacking = @ \cup {p}]
     /\ run' = [run EXCEPT !.todo = @ \ {p}, !.results = @ \cup {p}]
  /\ UNCHANGED <<file, marker, sidecar>>

\* A page that raises, before its first block or after it: what was written so far
\* stays in the document, and the model is not told.
WriteBreaks ==
  /\ run.pc = "writing" /\ ~ses.cancel /\ faults.saves < MaxFaults
  /\ \E p \in Pages :
     /\ Least(p)
     /\ \/ /\ p \notin Placeless
           /\ ses' = [ses EXCEPT !.doc[p] = @ + 1, !.blind = @ \cup {p}]
           /\ faults' = [Doubled(p) EXCEPT !.saves = @ + 1, !.lacking = @ \cup {p}]
        \/ UNCHANGED ses /\ faults' = [faults EXCEPT !.saves = @ + 1]
  /\ run' = [run EXCEPT !.pc = "broken"]
  /\ UNCHANGED <<file, marker, sidecar>>

\* Without a page to save the batch counts as saved.
WriteEnd ==
  /\ run.pc = "writing" /\ (run.todo = {} \/ ses.cancel)
  /\ run' = IF run.results = {} THEN [run EXCEPT !.pc = "respond", !.saved = TRUE]
                                ELSE [run EXCEPT !.pc = "marking"]
  /\ UNCHANGED <<file, marker, sidecar, ses, faults>>

-----------------------------------------------------------------------------
\* Saving, for a batch or at the end of the run.
\* A roll-back that fails, or a marker that stays behind, may have the next open cut
\* off more than the append; such a file is stale.
Stale == faults.stale \/ Recovered' # file'
SaveFault == faults.saves < MaxFaults
             /\ faults' = [faults EXCEPT !.saves = @ + 1, !.stale = Stale]

\* compress, at the end: the whole file anew, or an append, as the settings say.
FinalSave ==
  /\ run.pc = "final"
  /\ IF Called /\ ses.doc # Absent
     THEN \E pc \in {"packing", "marking"} : Goto(pc)
     ELSE run' = Ended(run)
  /\ UNCHANGED <<file, marker, sidecar, ses, faults>>

\* save_incremental: the length before the append goes to the marker, which is created
\* and then written; the append is made, the marker is removed.
CreateMarker ==
  /\ run.pc = "marking"
  /\ marker' = Empty
  /\ Goto("naming")
  /\ UNCHANGED <<file, sidecar, ses, faults>>

Mark_None ==
  /\ run.pc = "naming"
  /\ Goto("appending")
  /\ UNCHANGED <<file, marker, sidecar, ses, faults>>

Mark ==
  /\ run.pc = "naming"
  /\ marker' = file
  /\ Goto("appending")
  /\ UNCHANGED <<file, sidecar, ses, faults>>

\* A file that is only half appended to has no text that could be read.
AppendText ==
  /\ run.pc = "appending" /\ ses.doc # Absent
  /\ file' = [layers |-> NoText, size |-> file.size + 1]
  /\ Goto("torn")
  /\ UNCHANGED <<marker, sidecar, ses, faults>>

AppendEnd ==
  /\ run.pc = "torn" /\ ses.doc # Absent
  /\ file' = [layers |-> ses.doc, size |-> file.size]
  /\ Goto("unmarking")
  /\ UNCHANGED <<marker, sidecar, ses, faults>>

\* A save that worked: what the response says, what is left to do.
Saved(r) == IF Final THEN IF r.flag THEN Ended(r) ELSE [r EXCEPT !.pc = "refresh"]
            ELSE [r EXCEPT !.pc = "respond", !.saved = TRUE]

Unmark ==
  /\ run.pc = "unmarking"
  /\ marker' = Absent
  /\ run' = Saved(run)
  /\ UNCHANGED <<file, sidecar, ses, faults>>

\* The append is not possible for this document, its marker cannot be written, or it
\* fails and is cut off again, which may fail as well.
AppendFails ==
  /\ \/ run.pc = "marking" /\ UNCHANGED <<file, marker, faults>>
     \/ run.pc = "naming" /\ UNCHANGED file /\ marker' \in {Empty, file} /\ SaveFault
     \/ /\ run.pc \in {"appending", "torn", "unmarking"}
        /\ \/ file' = Recovered /\ marker' \in {Absent, marker}
           \/ UNCHANGED <<file, marker>>
        /\ SaveFault
     \/ /\ run.pc \in {"appending", "torn"} /\ ses.doc = Absent
        /\ file' = Recovered /\ marker' = Absent
        /\ UNCHANGED faults
  \* a batch is then saved by packing, the final save has failed
  /\ run' = IF Final THEN Ended(run) ELSE [run EXCEPT !.pc = "packing"]
  /\ UNCHANGED <<sidecar, ses>>

\* _compress_in_place: the document is saved beside the file and closed, then
\* takes the file's place and is opened again.  A marker that stayed behind is of the
\* old file: the new one is cut by it to something that is no document.
Pack ==
  /\ run.pc = "packing" /\ ses.doc # Absent
  /\ run' = [run EXCEPT !.pc = "swapping", !.packed = ses.doc]
  /\ UNCHANGED <<file, marker, sidecar, ses, faults>>

Swap ==
  /\ run.pc = "swapping"
  /\ \E size \in {1, file.size + 1} :
       file' = [layers |-> run.packed, size |-> size]
  /\ marker' = IF marker \in {Absent, Empty} THEN marker ELSE [marker EXCEPT !.layers = NoText]
  /\ faults' = [faults EXCEPT !.stale = Stale]
  /\ ses' = [ses EXCEPT !.doc = run.packed]
  /\ run' = [Saved(run) EXCEPT !.packed = Absent]
  /\ UNCHANGED sidecar

\* A failure leaves the old file and a closed document, which only the batch
\* opens again.
PackFails ==
  /\ UNCHANGED <<file, marker>>
  /\ \/ run.pc \in {"packing", "swapping"} /\ SaveFault
     \/ run.pc = "packing" /\ ses.doc = Absent /\ UNCHANGED faults
  /\ ses' = [ses EXCEPT !.doc = IF Final THEN Absent ELSE file.layers]
  /\ run' = IF Final THEN Ended(run) ELSE [run EXCEPT !.pc = "respond"]
  /\ UNCHANGED sidecar

\* The response of add_text_layer_batch.  Pages of a batch that was not saved
\* have failed, also those whose text is in the document.
Respond ==
  /\ run.pc = "respond"
  /\ ses' = IF ses.state = "closed" THEN NoSes ELSE ses
  /\ run' = IF run.saved THEN [run EXCEPT !.pc = "checkpoint"]
            ELSE BatchOver(run)
  /\ UNCHANGED <<file, marker, sidecar, faults>>

-----------------------------------------------------------------------------
\* The sidecar.  A write that fails leaves the old one, and nobody is told.
Write(data) ==
  UNCHANGED <<file, marker, ses>>
  /\ \/ sidecar' = data /\ UNCHANGED faults
     \/ UNCHANGED sidecar /\ SaveFault

Checkpointed_All(old) == [old EXCEPT !.pages = @ \cup run.text, !.completed = FALSE]

\* mark_pages_saved; a sidecar that no longer fits the file is begun anew.
Checkpointed(old) ==
  [old EXCEPT !.pages = @ \cup run.results, !.completed = FALSE]

Checkpoint ==
  /\ run.pc = "checkpoint"
  /\ Write(Checkpointed(IF Grown(file) THEN sidecar ELSE Fresh))
  /\ run' = [BatchOver(run) EXCEPT !.ocr = @ \cup run.results]

\* refresh_baseline
Refresh ==
  /\ run.pc = "refresh"
  /\ IF sidecar = Absent THEN UNCHANGED <<file, marker, sidecar, ses, faults>>
     ELSE Write([sidecar EXCEPT !.base = file.size])
  /\ Goto("complete")

\* mark_completed
Complete ==
  /\ run.pc = "complete"
  /\ Write([(IF sidecar = Absent THEN Fresh ELSE sidecar) EXCEPT !.completed = TRUE])
  /\ run' = Ended(run)

-----------------------------------------------------------------------------
Crash == faults.crashes < MaxCrashes
         /\ faults' = [faults EXCEPT !.crashes = @ + 1]

\* The child dies; its client starts another, which knows no session.  A
\* request it was working for raises.
ChildDies ==
  /\ ses.state # "none" /\ Crash
  /\ ses' = NoSes
  /\ run' = IF run.pc \notin Saving \cup {"writing", "respond"} THEN run
            ELSE IF Final THEN Ended(run) ELSE NoRun
  /\ UNCHANGED <<file, marker, sidecar>>

\* Everything dies.
AllDie ==
  /\ run.pc # "idle" /\ Crash
  /\ ses' = NoSes /\ run' = NoRun
  /\ UNCHANGED <<file, marker, sidecar>>

Next ==
  \/ Open \/ Examine \/ TellModel \/ Cancel \/ Close \/ CloseDoc
  \/ StartRun \/ NextBatch \/ RenderAndRecognise \/ CallRaises \/ RunRaises
  \/ WriteBegin \/ WritePage \/ WriteBreaks \/ WriteEnd \/ FinalSave
  \/ CreateMarker \/ Mark \/ AppendText \/ AppendEnd \/ Unmark \/ AppendFails \/ Pack \/ Swap \/ PackFails
  \/ Respond \/ Checkpoint \/ Refresh \/ Complete
  \/ ChildDies \/ AllDie

Spec == Init /\ [][Next]_vars

-----------------------------------------------------------------------------
\* What a run reported as done by OCR, and what a resumed run would skip, has its
\* text on disk, in the file as the next open leaves it: but for the pages that were
\* counted as done without it (no block had a place, the write broke off before the
\* end, the text was lost with a batch that could not be saved), and until a failed
\* save leaves a stale file.
DoneTextIsOnDisk ==
  ~faults.stale =>
    run.ocr \cup Restorable(Recovered) \subseteq Texts(Recovered.layers) \cup faults.lacking

\* No failed save, crash or recovery takes text from the file, unless it is stale.
DiskTextNeverShrinks ==
  [][~faults'.stale => Texts(Recovered.layers) \subseteq Texts(Recovered'.layers)]_vars

\* However often a page is recognised again, it never gets a second layer on one that
\* was written to its end: only on text that no load had told of, told of too early, or
\* on what a broken write had left.
NoPageIsLayeredTwice ==
  ~faults.stale =>
    \A p \in Pages \ faults.doubled :
      file.layers[p] <= 1 /\ (ses.doc # Absent => ses.doc[p] <= 1)

-----------------------------------------------------------------------------
(* What makes the properties inductive for runs that do not overwrite (the   *)
(* proofs are in PdfProofs).                                                 *)

Layers == [Pages -> Nat]
FileType == [layers : Layers, size : Nat]
SidecarType == [pages : SUBSET Pages, base : Nat, completed : BOOLEAN]
Pcs == {"idle", "batch", "render", "write", "writing", "broken", "respond", "checkpoint",
        "final", "refresh", "complete"} \cup Saving
SesType == [state : {"none", "open", "closing", "closed"}, doc : Layers \cup {Absent},
            has : SUBSET Pages, blind : SUBSET Pages,
            look : SUBSET [page : Pages, has : BOOLEAN], cancel : BOOLEAN]
RunType == [pc : Pcs, overwrite : BOOLEAN, pending : SUBSET Pages, batch : SUBSET Pages,
            text : SUBSET Pages, todo : SUBSET Pages, results : SUBSET Pages,
            saved : BOOLEAN, packed : Layers \cup {Absent}, flag : BOOLEAN,
            ocr : SUBSET Pages]
FaultsType == [saves : Nat, crashes : Nat, runs : Nat, loads : Nat, lacking : SUBSET Pages,
               doubled : SUBSET Pages, stale : BOOLEAN]

TypeOK ==
  /\ file \in FileType /\ marker \in FileType \cup {Absent, Empty}
  /\ sidecar \in SidecarType \cup {Absent}
  /\ ses \in SesType /\ run \in RunType
  /\ faults \in FaultsType

OnDisk == Texts(Recovered.layers)

\* The marker of an append describes the file before it.  Any other time but after a
\* crash the file is as the next open will leave it.  A request at work has its session.
MarkerStands ==
  /\ run.pc = "appending" => marker = file
  /\ run.pc \in {"torn", "unmarking"} => marker \in FileType /\ file.size > marker.size
  /\ ~faults.stale /\ Recovered # file => \/ run.pc \in {"torn", "unmarking"}
                                          \/ run.pc = "idle" /\ ses.state = "none"
  /\ run.pc \in Saving \cup {"writing"} => ses.state # "none"
  /\ run.pc \in Saving \cup {"writing"} /\ Called => ses.doc # Absent
  /\ run.pc = "writing" => ses.doc # Absent
  /\ run.pc = "swapping" => run.packed # Absent /\ ses.doc \in {Absent, run.packed}

\* A page without a second layer, wherever the document is kept.
LayeredOnce(d) == d # Absent => \A p \in Pages \ faults.doubled : d[p] <= 1
EachPageOnce ==
  ~faults.stale =>
    /\ LayeredOnce(file.layers) /\ LayeredOnce(Recovered.layers) /\ LayeredOnce(ses.doc)
    /\ run.pc = "swapping" => LayeredOnce(run.packed)

\* The page model knows all the text of the document but what it is known not to know.
ModelKnows ==
  ~faults.stale =>
    /\ Called => Shown \subseteq ses.has \cup ses.blind
    /\ run.pc = "writing" => run.todo \cap Shown \subseteq ses.blind

\* What is about to be written keeps what is on disk.
TextIsKept ==
  /\ ~run.overwrite
  /\ ~faults.stale =>
       /\ ses.doc # Absent => OnDisk \subseteq Texts(ses.doc)
       /\ run.pc = "swapping" => OnDisk \subseteq Texts(run.packed)
       /\ run.pc = "unmarking" => /\ OnDisk \subseteq Texts(file.layers)
                                  /\ ses.doc # Absent => ses.doc = file.layers

\* The text of a batch is in what is being saved, and on disk once it is saved.
InText(pages, d) == pages \subseteq Texts(d) \cup faults.lacking
BatchIsSaved ==
  /\ run.pc = "final" => Final
  /\ run.pc \in {"render", "write", "writing"} => ~run.saved
  /\ run.pc \in Saving /\ ~Final => ~run.saved
  /\ ~faults.stale =>
       /\ run.pc = "writing" => InText(run.results, ses.doc)
       /\ run.pc \in Saving \ {"unmarking", "swapping"} /\ ~Final /\ ses.doc # Absent =>
            InText(run.results, ses.doc)
       /\ run.pc = "swapping" /\ ~Final => InText(run.results, run.packed)
       /\ run.pc = "unmarking" /\ ~Final => InText(run.results, file.layers)
       /\ run.pc = "checkpoint" \/ (run.pc = "respond" /\ run.saved) =>
            InText(run.results, Recovered.layers)

\* What was reported or checkpointed is on disk, whether it will be skipped or not.
ToldIsOnDisk ==
  ~faults.stale => /\ InText(run.ocr, Recovered.layers)
                   /\ sidecar # Absent => InText(sidecar.pages, Recovered.layers)

IInv == TypeOK /\ MarkerStands /\ EachPageOnce /\ ModelKnows /\ TextIsKept
          /\ BatchIsSaved /\ ToldIsOnDisk

=============================================================================
