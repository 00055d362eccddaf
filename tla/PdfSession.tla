------------------------------ MODULE PdfSession ------------------------------
(***************************************************************************)
(* Editing one PDF in a session of the PDF child process                    *)
(* (pdf_backend_process.py, pdf_service.py): pages are inserted, deleted and *)
(* put in another order, text is recognised, corrected, removed and saved.   *)
(* The session holds everything twice, in the document and in the model of   *)
(* its pages, and only the model knows the corrections before a save.        *)
(*                                                                         *)
(* A page is its picture (an id) with the texts in its text layer; a text is *)
(* the page it was read from and how it came about.  The requests of the     *)
(* service arrive one by one; two streams (load, delete_text_layers) run     *)
(* beside them on threads of their own.                                      *)
(***************************************************************************)
EXTENDS Integers, FiniteSets, SequencesExt

CONSTANTS Original, \* the pages of the file at first, in order
          OwnText,  \* pages with a text layer of their own
          Extra,    \* a page that is inserted
          Boxless,  \* pages whose recognised text has no place on the page
          MaxOps    \* bound on the requests that change something

Ids == Range(Original) \cup {Extra}

ASSUME SessionAssumption ==
  /\ Original \in Seq(Ids) /\ Extra \notin Range(Original) /\ MaxOps \in Nat
  /\ \A i, j \in DOMAIN Original : Original[i] = Original[j] => i = j

VARIABLES disk,   \* the file
          doc,    \* the document of the session
          pages,  \* the session's model of the pages
          session,    \* none, open, or without its document
          structural, \* has_structural_change
          load,   \* the stream that examines the pages
          wipe,   \* the positions a delete_text_layers stream has yet to do
          seen,   \* recognised pages, the text of which is still to be written
          given,  \* history: the text of each page the client was last told of
          kept,   \* history: the same at the last save
          excused, \* history: one of the known ways to confuse the pages was met
          ops

editing == <<disk, doc, pages, session, structural, load, wipe, seen, given, kept,
          excused, ops>>

Page(id) == [id |-> id, text |-> IF id \in OwnText THEN {<<id, "own">>} ELSE {}]
Info(i, d) == [index |-> i, has |-> d[i].text # {}, blocks |-> {}]
Placeholder(i) == [index |-> i, has |-> FALSE, blocks |-> {}]

NoLoad == [pc |-> "done", at |-> 0, total |-> 0, info |-> Placeholder(0), raced |-> FALSE]

\* build_page_infos
Infos(d) == [i \in DOMAIN d |-> Info(i, d)]

\* The text of a page as the client knows it when it sees the file.
Known(d) == [id \in Ids |->
  IF \E i \in DOMAIN d : d[i].id = id /\ d[i].text \cap {<<id, "ocr">>, <<id, "edited">>} # {}
  THEN LET i == CHOOSE i \in DOMAIN d : d[i].id = id
       IN IF <<id, "edited">> \in d[i].text THEN "edited" ELSE "ocr"
  ELSE "none"]

EditInit ==
  /\ disk = [i \in DOMAIN Original |-> Page(Original[i])]
  /\ doc = <<>> /\ pages = <<>> /\ session = "none" /\ structural = FALSE
  /\ load = NoLoad /\ wipe = {} /\ seen = {}
  /\ given = [id \in Ids |-> "none"] /\ kept = given
  /\ excused = FALSE /\ ops = 0

-----------------------------------------------------------------------------
\* session_open: a placeholder for each page; load fills them in.
OpenSession ==
  /\ session = "none"
  /\ session' = "open" /\ doc' = disk /\ structural' = FALSE
  /\ pages' = [i \in DOMAIN disk |-> Placeholder(i)]
  /\ load' = [NoLoad EXCEPT !.pc = "read", !.at = 1, !.total = Len(disk)]
  /\ wipe' = {} /\ seen' = {} /\ given' = Known(disk)
  /\ UNCHANGED <<disk, kept, excused, ops>>

\* _detect_one_page: the page is examined under the lock of the document ...
LoadRead ==
  /\ load.pc = "read"
  /\ load' = IF session # "open" \/ load.at > load.total THEN NoLoad
             ELSE IF load.at \notin DOMAIN doc
                  THEN [load EXCEPT !.at = @ + 1] \* logged
                  ELSE [load EXCEPT !.pc = "write", !.info = Info(load.at, doc),
                                    !.raced = FALSE]
  /\ UNCHANGED <<disk, doc, pages, session, structural, wipe, seen, given, kept, excused, ops>>

\* ... and written to the model without it, into a list that may be one that an
\* edit has replaced.  What was recognised for the page meanwhile is forgotten.
LoadWrite ==
  /\ load.pc = "write"
  /\ LET i == load.at
         Into == IF i \in DOMAIN pages THEN [pages EXCEPT ![i] = load.info] ELSE pages
     IN /\ pages' \in IF load.raced THEN {Into, pages} ELSE {Into}
        /\ excused' = (excused \/ load.raced
                       \/ (i \in DOMAIN pages /\ pages[i].blocks # {}))
  /\ load' = [load EXCEPT !.pc = "read", !.at = @ + 1, !.info = Placeholder(0)]
  /\ UNCHANGED <<disk, doc, session, structural, wipe, seen, given, kept, ops>>

\* A request of the client; most of them leave the list of the pages in place.
Asked == session = "open" /\ ops < MaxOps /\ ops' = ops + 1
Request == Asked /\ UNCHANGED load

-----------------------------------------------------------------------------
\* The order of the pages.  None of these renumbers the pages of the model.
Structure == Asked /\ structural' = TRUE
             /\ load' = [load EXCEPT !.raced = load.pc = "write"]
             /\ UNCHANGED <<disk, session, wipe, seen, kept>>

\* The positions in a set, in their order; what a sequence has at these positions.
Ascending(set) ==
  {at \in [1..Cardinality(set) -> set] : \A i, j \in DOMAIN at : i < j => at[i] < at[j]}
Picked(s, at) == [i \in DOMAIN at |-> s[at[i]]]

DeletePages ==
  /\ Structure
  /\ \E rest \in SUBSET DOMAIN doc \ {{}, DOMAIN doc} : \E left \in Ascending(rest) :
       doc' = Picked(doc, left) /\ pages' = Picked(pages, left)
  /\ UNCHANGED <<given, excused>>

\* insert_blank_page, insert_pages_from: here the model is built anew from the
\* document, and forgets the corrections that are not in it.
Unsaved == \E i \in DOMAIN pages : ~ \E j \in DOMAIN doc : pages[i].blocks \subseteq doc[j].text

InsertPage ==
  /\ Structure
  /\ \A j \in DOMAIN doc : doc[j].id # Extra
  /\ \E at \in 1..Len(doc) + 1 : doc' = InsertAt(doc, at, Page(Extra))
  /\ pages' = Infos(doc')
  /\ given' = [given EXCEPT ![Extra] = "none"]
  /\ excused' = (excused \/ Unsaved)

\* fitz moves a page in front of the page at the target; the model takes it out
\* first and puts it at the target.  They agree on moves to the front.
Moved(s, from, to) == InsertAt(RemoveAt(s, from), to, s[from])
MovePage ==
  /\ Structure
  /\ \E from, to \in DOMAIN doc \cap DOMAIN pages :
       /\ from # to
       /\ doc' = Moved(doc, from, IF from < to THEN to - 1 ELSE to)
       /\ pages' = Moved(pages, from, to)
       /\ excused' = (excused \/ from < to)
  /\ UNCHANGED given

Reorder_DocumentOnly ==
  /\ Structure
  /\ Len(pages) = Len(doc)
  /\ \E order \in SetToSeqs(DOMAIN doc) :
       /\ order # [i \in DOMAIN doc |-> i]
       /\ doc' = Picked(doc, order)
  /\ UNCHANGED <<pages, given, excused>>

Reorder ==
  /\ Structure
  /\ Len(pages) = Len(doc)
  /\ \E order \in SetToSeqs(DOMAIN doc) :
       /\ order # [i \in DOMAIN doc |-> i]
       /\ doc' = Picked(doc, order) /\ pages' = Picked(pages, order)
  /\ UNCHANGED <<given, excused>>

-----------------------------------------------------------------------------
\* Text.  The picture that is recognised is rendered from the file, not from
\* the document.
Recognise ==
  /\ session = "open" /\ seen = {}
  /\ \E i \in DOMAIN disk : seen' = {[at |-> i, id |-> disk[i].id]}
  /\ UNCHANGED <<disk, doc, pages, session, structural, load, wipe, given, kept, excused, ops>>

Cleared(i) == [pages[i] EXCEPT !.has = FALSE, !.blocks = {}]

\* _write_blocks_to_page: a block without a place is passed over.
Placed(blocks) == {b \in blocks : b[1] \notin Boxless}

\* add_text_layer: a page that has a text layer keeps it, or loses it first.  The model
\* keeps the blocks whether they have a place or not; a write that breaks off leaves
\* what it wrote, and tells neither the model nor the client.
AddLayer ==
  /\ Request
  /\ \E s \in seen, over \in BOOLEAN :
       LET text == {<<s.id, "ocr">>}
           has == pages[s.at].has IN
       /\ s.at \in DOMAIN doc \cap DOMAIN pages /\ seen' = {}
       /\ IF has /\ ~over THEN UNCHANGED <<doc, pages, given, excused>>
          ELSE /\ doc' = [doc EXCEPT ![s.at].text = (IF has THEN {} ELSE @) \cup Placed(text)]
               /\ \/ /\ pages' = [pages EXCEPT ![s.at].has = Placed(text) # {},
                                              ![s.at].blocks = text]
                     /\ given' = [given EXCEPT ![s.id] = "ocr"]
                     /\ excused' = (excused \/ doc[s.at].id # s.id
                                    \/ (~has /\ doc[s.at].text # {}))
                  \/ /\ pages' = IF has THEN [pages EXCEPT ![s.at] = Cleared(s.at)] ELSE pages
                     /\ excused' = TRUE
                     /\ UNCHANGED given
  /\ UNCHANGED <<disk, session, structural, wipe, kept>>

\* update_block_text: a correction, in the model only.
UpdateBlock ==
  /\ Request
  /\ \E i \in DOMAIN pages : \E b \in pages[i].blocks :
       /\ pages' = [pages EXCEPT ![i].blocks = {<<b[1], "edited">>}]
       /\ given' = [given EXCEPT ![b[1]] = "edited"]
  /\ UNCHANGED <<disk, doc, session, structural, wipe, seen, kept, excused>>

\* rewrite_text_layer at a position, with the blocks of the model there.
Rewritten(st, i, blocks) ==
  [doc   |-> [st.doc EXCEPT ![i].text = Placed(blocks)],
   pages |-> [st.pages EXCEPT ![i].blocks = blocks, ![i].has = Placed(blocks) # {}],
   ok    |-> st.ok]

\* save_with_rewrite: the blocks of one page of the model go to the page that
\* has its number.  There may be no such page (any more).
SaveStep_Add(st, i) ==
  LET n == st.pages[i].index IN
  IF n \in DOMAIN st.doc \cap DOMAIN st.pages
  THEN [st EXCEPT !.doc[n].text = @ \cup st.pages[i].blocks]
  ELSE [st EXCEPT !.ok = FALSE]
SaveStep(st, i) ==
  LET n == st.pages[i].index IN
  IF st.ok /\ n \in DOMAIN st.doc \cap DOMAIN st.pages
  THEN Rewritten(st, n, st.pages[i].blocks)
  ELSE [st EXCEPT !.ok = FALSE]

\* The session after the blocks of the first k pages; pages without blocks are passed over.
Rewrites[k \in 0..Len(pages)] ==
  IF k = 0 THEN [doc |-> doc, pages |-> pages, ok |-> TRUE]
  ELSE IF pages[k].blocks = {} THEN Rewrites[k - 1] ELSE SaveStep(Rewrites[k - 1], k)
AfterRewrite == Rewrites[Len(pages)]

Aligned == \A i \in DOMAIN pages : pages[i].blocks # {} => pages[i].index = i

\* The file is written whole or not at all (PdfOcr).  When the file is made anew
\* and that fails, the session is left with a closed document.
Save ==
  /\ Request
  /\ LET r == AfterRewrite IN
     /\ doc' = r.doc /\ pages' = r.pages
     /\ excused' = (excused \/ ~Aligned)
     /\ \/ r.ok /\ disk' = r.doc /\ structural' = FALSE /\ kept' = given /\ UNCHANGED session
        \/ r.ok /\ UNCHANGED <<disk, structural, kept>> /\ session' = "broken"
        \/ (~r.ok \/ ~structural) /\ UNCHANGED <<disk, structural, kept, session>>
  /\ UNCHANGED <<wipe, seen, given>>

\* Saved to another file the changes count as saved.
SaveAs ==
  /\ Request
  /\ LET r == AfterRewrite IN
     /\ doc' = r.doc /\ pages' = r.pages
     /\ excused' = (excused \/ ~Aligned)
     /\ structural' \in IF r.ok THEN {FALSE, structural} ELSE {structural}
  /\ UNCHANGED <<disk, session, wipe, seen, given, kept>>

\* delete_text_layers, a stream: page by page, each under the lock.
WipeStart ==
  /\ Request /\ wipe = {}
  /\ wipe' \in SUBSET DOMAIN doc \ {{}}
  /\ UNCHANGED <<disk, doc, pages, session, structural, seen, given, kept, excused>>

WipePage ==
  /\ wipe # {}
  /\ \E i \in wipe :
       /\ \A j \in wipe : i <= j
       /\ wipe' = IF session = "open" THEN wipe \ {i} ELSE {}
       /\ IF session = "open" /\ i \in DOMAIN doc
          THEN /\ doc' = [doc EXCEPT ![i].text = {}]
               /\ pages' = IF i \in DOMAIN pages THEN [pages EXCEPT ![i] = Cleared(i)] ELSE pages
               /\ given' = [given EXCEPT ![doc[i].id] = "none"]
          ELSE UNCHANGED <<doc, pages, given>>
  /\ UNCHANGED <<disk, session, structural, load, seen, kept, excused, ops>>

-----------------------------------------------------------------------------
\* close_session, or the child dies: what is not saved is gone.
CloseSession ==
  /\ session # "none"
  /\ session' = "none" /\ doc' = <<>> /\ pages' = <<>> /\ structural' = FALSE
  /\ load' = NoLoad /\ wipe' = {} /\ seen' = {}
  /\ given' = Known(disk)
  /\ UNCHANGED <<disk, kept, excused, ops>>

EditNext ==
  \/ OpenSession \/ LoadRead \/ LoadWrite \/ CloseSession
  \/ DeletePages \/ InsertPage \/ MovePage \/ Reorder
  \/ Recognise \/ AddLayer \/ UpdateBlock \/ WipeStart \/ WipePage
  \/ Save \/ SaveAs

EditSpec == EditInit /\ [][EditNext]_editing

-----------------------------------------------------------------------------
\* A page never shows the text of another page: not in the document, not in the
\* file, and not in the model, whose page at a position is the document's.
TextStaysWithItsPage ==
  excused \/ /\ \A d \in {doc, disk} : \A i \in DOMAIN d : \A t \in d[i].text : t[1] = d[i].id
             /\ Len(pages) = Len(doc)
             /\ \A i \in DOMAIN pages : \A b \in pages[i].blocks : b[1] = doc[i].id

\* The recognised text that is due on a page, as far as it has a place there.
Latest(texts, id) == IF texts[id] = "none" THEN {} ELSE {<<id, texts[id]>>}
Due(texts, id) == Placed(Latest(texts, id))
Recognised(page) == page.text \ {<<page.id, "own">>}

\* After a save the file has every text as it was last corrected: neither an
\* older version, nor a text that was removed, nor none.
SavedTextIsCurrent ==
  excused \/ \A i \in DOMAIN disk : Recognised(disk[i]) = Due(kept, disk[i].id)

-----------------------------------------------------------------------------
(* What makes them inductive (the proofs are in PdfProofs).                  *)

Versions == Ids \X {"own", "ocr", "edited"}
PageType == [id : Ids, text : SUBSET Versions]
InfoType == [index : Nat, has : BOOLEAN, blocks : SUBSET Versions]
LoadType == [pc : {"done", "read", "write"}, at : Nat, total : Nat, info : InfoType,
             raced : BOOLEAN]
EditTypeOK ==
  /\ disk \in Seq(PageType) /\ doc \in Seq(PageType) /\ pages \in Seq(InfoType)
  /\ session \in {"none", "open", "broken"} /\ structural \in BOOLEAN
  /\ load \in LoadType
  /\ wipe \subseteq Nat /\ seen \subseteq [at : Nat, id : Ids]
  /\ given \in [Ids -> {"none", "ocr", "edited"}] /\ kept \in [Ids -> {"none", "ocr", "edited"}]
  /\ excused \in BOOLEAN /\ ops \in 0..MaxOps

\* The model has as many pages as the document, and no page is there twice; what a
\* load brings has no blocks.
PagesAreApart ==
  /\ Len(pages) = Len(doc) /\ load.info.blocks = {}
  /\ \A d \in {doc, disk} : \A i, j \in DOMAIN d : d[i].id = d[j].id => i = j

\* What the client was told of a page is in the model, or else in the document, where
\* it may be an older version of what is in the model.
Belongs(page, texts) == \A t \in texts : t[1] = page.id
IsGiven(page, info, texts) ==
  /\ Belongs(page, page.text) /\ Belongs(page, info.blocks)
  /\ IF info.blocks = {} THEN Recognised(page) = Due(texts, page.id)
     ELSE /\ texts[page.id] # "none" /\ info.blocks = Latest(texts, page.id)
          /\ Recognised(page) \in {{}, Placed({<<page.id, "ocr">>}), Placed({<<page.id, "edited">>})}
IsSaved(page, texts) ==
  Belongs(page, page.text) /\ Recognised(page) = Due(texts, page.id)

TextsAgree ==
  excused \/ /\ \A i \in DOMAIN doc : IsGiven(doc[i], pages[i], given)
             /\ \A i \in DOMAIN disk : IsSaved(disk[i], kept)

EditInv == EditTypeOK /\ PagesAreApart /\ TextsAgree
=============================================================================
