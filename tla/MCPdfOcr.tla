------------------------------ MODULE MCPdfOcr ------------------------------
(* Four views of the PDF tools: OCR runs over three pages in two batches, with *)
(* no load (the last page has a text layer already, that of the second cannot *)
(* be placed); runs over one batch beside a load; the editing of a document   *)
(* of two pages; and the threads that share the child process.                *)
EXTENDS PdfOcr, PdfSession, PdfClient
CONSTANTS p1, p2, x

FirstPages == 0..2
RequestSets == {{0, 1}, {0, 1, 2}}

TwoPages == <<p1, p2>>

VARIABLE scene

MCInit == /\ scene \in {"batches", "load", "edit", "client"}
          /\ Init /\ EditInit /\ ClientInit

InBatches == scene = "batches" /\ Next /\ faults'.loads = 0 /\ UNCHANGED <<scene, editing, client>>
InLoad == scene = "load" /\ Next /\ run'.pending \subseteq {0, 1} /\ UNCHANGED <<scene, editing, client>>
InEditing == scene = "edit" /\ EditNext /\ UNCHANGED <<scene, vars, client>>
InClient == scene = "client" /\ ClientNext /\ UNCHANGED <<scene, vars, editing>>

MCNext == InBatches \/ InLoad \/ InEditing \/ InClient
MCSpec == MCInit /\ [][MCNext]_<<scene, vars, editing, client>>
=============================================================================
