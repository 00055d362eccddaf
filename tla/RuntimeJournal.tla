--------------------------- MODULE RuntimeJournal ---------------------------
(***************************************************************************)
(* The directory of one runtime operation: metadata.json, rewritten by an   *)
(* atomic replace, and events.jsonl, appended and fsynced line by line      *)
(* (RuntimeOperationStore in runtime_maintenance.py), with the reporter      *)
(* that tells the operation's progress, clients that cancel, read and        *)
(* compact it, and a process that may crash between any two writes.          *)
(*                                                                         *)
(* Every call takes the ledger lock and first reconciles the metadata with   *)
(* the journal, each repair being one write.  Reading calls do nothing else, *)
(* so the repairs are actions of their own, enabled while the lock is free,  *)
(* and the calls proper need a reconciled directory.                         *)
(***************************************************************************)
EXTENDS Integers, Sequences

\* Positive numbers.
CONSTANTS MaxEvents, \* bound on the events of the operation
          Keep,      \* compact's keep_last
          Limit      \* observe's page size

ASSUME JournalAssumption == {MaxEvents, Keep, Limit} \subseteq Nat \ {0}

VARIABLES meta,   \* metadata.json
          lines,  \* the complete lines of events.jsonl
          torn,   \* events.jsonl ends in a partial line
          hold,   \* the call that holds the ledger lock between two writes
          rep,    \* the reporter, volatile
          cursor, \* a reading client: the last event number it was given
          page    \* and the last page it was given

journal == <<meta, lines, torn, hold, rep, cursor, page>>

EndStates == {"succeeded", "failed", "cancelled"}
States == {"running"} \cup EndStates

Event == [seq : 1 .. MaxEvents, state : States, cancel : BOOLEAN, closed : BOOLEAN]
NoCompaction == [oldest |-> 0, before |-> <<>>, after |-> <<>>]
NoMeta == [made |-> FALSE, through |-> 0, last |-> "none", closed |-> FALSE,
           cancel |-> FALSE, oldest |-> 1, pending |-> NoCompaction]
Free == [step |-> "free"]
Silent == [pc |-> "off", seq |-> 0, closed |-> FALSE,
           next |-> [state |-> "none", closed |-> FALSE]]

LastSeq == IF lines = <<>> THEN 0 ELSE lines[Len(lines)].seq

\* The lines after the event n: asked for only once the numbers are known to ascend.
Beyond(n) ==
  LET first == CHOOSE i \in 1 .. Len(lines) + 1 :
                 /\ \A j \in 1 .. i - 1 : lines[j].seq <= n
                 /\ \A j \in i .. Len(lines) : lines[j].seq > n IN
  SubSeq(lines, first, Len(lines))

JournalInit == /\ meta = NoMeta /\ lines = <<>> /\ torn = FALSE /\ hold = Free
        /\ rep = Silent /\ cursor = 0 /\ page = [after |-> 0, events |-> <<>>]

\* What reconciling refuses with "journal is invalid", "outran its journal",
\* "unrecoverable gap": no such directory can be repaired.
Unreadable ==
  LET is(found) == ~torn /\ lines = found
      first == IF meta.pending # NoCompaction /\ is(meta.pending.after)
               THEN meta.pending.oldest ELSE meta.oldest
      unread == Beyond(meta.through) IN
  /\ meta.made
  /\ \/ /\ meta.pending # NoCompaction
        /\ ~is(meta.pending.before) /\ ~is(meta.pending.after)
     \/ lines = <<>> /\ meta.through # 0
     \/ /\ lines # <<>>
        /\ \/ lines[1].seq # first
           \/ \E i \in 1 .. Len(lines) - 1 : lines[i + 1].seq # lines[i].seq + 1
           \/ meta.through > LastSeq
           \/ unread # <<>> /\ unread[1].seq # meta.through + 1

Reconciled == /\ hold = Free /\ meta.made /\ ~torn /\ ~Unreadable
              /\ meta.pending = NoCompaction /\ meta.through = LastSeq

\* Reconcile: a compaction interrupted after its announcement is closed as
\* done or as not done, whichever journal is found.
ResolveCompaction ==
  /\ hold = Free /\ meta.made /\ meta.pending # NoCompaction /\ ~Unreadable
  /\ meta' = [meta EXCEPT !.pending = NoCompaction,
                          !.oldest = IF lines = meta.pending.after
                                     THEN meta.pending.oldest ELSE @]
  /\ UNCHANGED <<lines, torn, hold, rep, cursor, page>>

\* Reconcile: a line without its newline is cut off.
TruncateTorn ==
  /\ hold = Free /\ meta.made /\ torn /\ meta.pending = NoCompaction
  /\ torn' = FALSE
  /\ UNCHANGED <<meta, lines, hold, rep, cursor, page>>

Projected_NoCancel(m, evs) ==
  IF evs = <<>> THEN m
  ELSE LET e == evs[Len(evs)] IN
       [m EXCEPT !.through = e.seq, !.last = e.state, !.closed = e.closed]

\* The metadata after the events evs.
Projected(m, evs) ==
  IF evs = <<>> THEN m
  ELSE LET e == evs[Len(evs)] IN
       [m EXCEPT !.through = e.seq, !.last = e.state, !.closed = e.closed,
                 !.cancel = @ \/ \E i \in DOMAIN evs : evs[i].cancel]

\* Reconcile: events that outran the metadata are projected onto it.
ProjectTail ==
  /\ hold = Free /\ meta.made /\ ~torn /\ meta.pending = NoCompaction
  /\ ~Unreadable /\ LastSeq > meta.through
  /\ meta' = Projected(meta, Beyond(meta.through))
  /\ UNCHANGED <<lines, torn, hold, rep, cursor, page>>

\* The guard of _append_locked, after which the lock is held for two writes.
Line(who, e) ==
  /\ meta.last \notin EndStates /\ e.seq = meta.through + 1 /\ e.seq <= MaxEvents
  /\ hold' = [step |-> "line", who |-> who, event |-> e]

Told(seq, next) ==
  [seq |-> seq, state |-> next.state, cancel |-> FALSE, closed |-> next.closed]

Opening == [state |-> "running", closed |-> FALSE]

\* start on a fresh id: the reservation is written, then the first event.
StartNew ==
  /\ hold = Free /\ ~meta.made /\ rep.pc = "off"
  /\ meta' = [NoMeta EXCEPT !.made = TRUE]
  /\ hold' = [step |-> "line", who |-> "reporter", event |-> Told(1, Opening)]
  /\ rep' = [Silent EXCEPT !.pc = "publish", !.next = Opening]
  /\ UNCHANGED <<lines, torn, cursor, page>>

\* start on an id whose reservation survived a crash but no event did.
StartReserved ==
  /\ Reconciled /\ meta.last = "none" /\ rep.pc = "off"
  /\ Line("reporter", Told(1, Opening))
  /\ rep' = [Silent EXCEPT !.pc = "publish", !.next = Opening]
  /\ UNCHANGED <<meta, lines, torn, cursor, page>>

\* Publishing begins with a look for an accepted cancel, except that fail
\* does not look; when one is found the cancelled end is published instead,
\* after whatever the journal holds by then.
Look(s) ==
  /\ Reconciled /\ rep.pc = "idle"
  /\ \E closed \in IF s = "failed" \/ rep.closed THEN {rep.closed} ELSE BOOLEAN :
       rep' = IF meta.cancel /\ s # "failed"
              THEN [rep EXCEPT !.pc = "publish", !.seq = meta.through,
                               !.next = [state |-> "cancelled", closed |-> meta.closed]]
              ELSE [rep EXCEPT !.pc = "publish",
                               !.next = [state |-> s, closed |-> closed]]
  /\ UNCHANGED <<meta, lines, torn, hold, cursor, page>>

Publish ==
  /\ Reconciled /\ rep.pc = "publish"
  /\ Line("reporter", Told(rep.seq + 1, rep.next))
  /\ UNCHANGED <<meta, lines, torn, rep, cursor, page>>

\* The sequence was taken by a cancel accepted since the look.
PublishRefused ==
  /\ Reconciled /\ rep.pc = "publish" /\ rep.seq # meta.through
  /\ rep' = IF rep.next.state # "cancelled" /\ meta.cancel
            THEN [rep EXCEPT !.seq = meta.through,
                             !.next = [state |-> "cancelled", closed |-> meta.closed]]
            ELSE [rep EXCEPT !.pc = "done"]
  /\ UNCHANGED <<meta, lines, torn, hold, cursor, page>>

\* An append that fails leaves the journal as it was; the installer then
\* tells the failure.  A failed report of a failure ends the reporter.
PublishFails ==
  /\ Reconciled /\ rep.pc = "publish"
  /\ rep' = IF rep.next.state = "failed" THEN [rep EXCEPT !.pc = "done"]
            ELSE [rep EXCEPT !.next = [state |-> "failed", closed |-> rep.closed]]
  /\ UNCHANGED <<meta, lines, torn, hold, cursor, page>>

RequestCancel ==
  /\ Reconciled /\ meta.last # "none" /\ ~meta.cancel /\ ~meta.closed
  /\ Line("canceller", [seq |-> meta.through + 1, state |-> meta.last,
                        cancel |-> TRUE, closed |-> meta.closed])
  /\ UNCHANGED <<meta, lines, torn, rep, cursor, page>>

\* The line is on disk: from here on the event has happened.
WriteLine ==
  /\ hold.step = "line"
  /\ lines' = Append(lines, hold.event)
  /\ hold' = [hold EXCEPT !.step = "projection"]
  /\ UNCHANGED <<meta, torn, rep, cursor, page>>

\* The reporter adopts its event whether or not the projection was written;
\* a lost projection of anything but a success is told as a failure.
Adopt(written) ==
  IF hold.who # "reporter" THEN rep
  ELSE [rep EXCEPT !.seq = hold.event.seq, !.closed = hold.event.closed,
                   !.pc = IF hold.event.state \in EndStates THEN "done"
                          ELSE IF written THEN "idle" ELSE "publish",
                   !.next = [state |-> "failed", closed |-> hold.event.closed]]

WriteProjection ==
  /\ hold.step = "projection"
  /\ \E written \in BOOLEAN :
       /\ meta' = IF written THEN Projected(meta, <<hold.event>>) ELSE meta
       /\ rep' = Adopt(written)
  /\ hold' = Free
  /\ UNCHANGED <<lines, torn, cursor, page>>

\* compact: announce both journals, swap the file, close the announcement.
CompactBegin ==
  LET kept == SubSeq(lines, IF Len(lines) > Keep THEN Len(lines) - Keep + 1 ELSE 1,
                     Len(lines)) IN
  /\ Reconciled /\ meta.last \in EndStates
  /\ meta' = [meta EXCEPT !.pending = [oldest |-> kept[1].seq,
                                       before |-> lines, after |-> kept]]
  /\ hold' = [step |-> "swap"]
  /\ UNCHANGED <<lines, torn, rep, cursor, page>>

CompactSwap ==
  /\ hold.step = "swap"
  /\ lines' = meta.pending.after
  /\ hold' = [step |-> "close"]
  /\ UNCHANGED <<meta, torn, rep, cursor, page>>

CompactEnd ==
  /\ hold.step = "close"
  /\ meta' = [meta EXCEPT !.oldest = meta.pending.oldest, !.pending = NoCompaction]
  /\ hold' = Free
  /\ UNCHANGED <<lines, torn, rep, cursor, page>>

Observe_Unexpired ==
  LET retained == Beyond(cursor)
      n == IF Len(retained) > Limit THEN Limit ELSE Len(retained) IN
  /\ Reconciled /\ meta.last # "none"
  /\ page' = [after |-> cursor, events |-> SubSeq(retained, 1, n)]
  /\ cursor' = cursor + n
  /\ UNCHANGED <<meta, lines, torn, hold, rep>>

\* observe: a page of what follows the cursor, or the cursor has expired and
\* the client starts again at the oldest event.
Observe ==
  /\ Reconciled /\ meta.last # "none"
  /\ IF cursor < meta.oldest - 1
     THEN cursor' = meta.oldest - 1 /\ UNCHANGED page
     ELSE LET retained == Beyond(cursor)
              n == IF Len(retained) > Limit THEN Limit ELSE Len(retained) IN
          /\ page' = [after |-> cursor, events |-> SubSeq(retained, 1, n)]
          /\ cursor' = cursor + n
  /\ UNCHANGED <<meta, lines, torn, hold, rep>>

\* The process dies: the lock and the reporter go, a line half written stays.
Crash ==
  /\ hold' = Free /\ rep' = Silent
  /\ torn' \in IF hold.step = "line" THEN BOOLEAN ELSE {torn}
  /\ UNCHANGED <<meta, lines, cursor, page>>

JournalNext == \/ ResolveCompaction \/ TruncateTorn \/ ProjectTail
        \/ StartNew \/ StartReserved \/ Publish \/ PublishRefused \/ PublishFails
        \/ (\E s \in {"running", "succeeded", "failed"} : Look(s))
        \/ RequestCancel \/ WriteLine \/ WriteProjection
        \/ CompactBegin \/ CompactSwap \/ CompactEnd \/ Observe \/ Crash

JournalSpec == JournalInit /\ [][JournalNext]_journal

-----------------------------------------------------------------------------
Numbers == 0 .. MaxEvents
JournalTypeOK ==
  /\ meta \in [made : BOOLEAN, through : Numbers, last : States \cup {"none"},
               closed : BOOLEAN, cancel : BOOLEAN, oldest : Numbers \ {0},
               pending : [oldest : Numbers, before : Seq(Event), after : Seq(Event)]]
  /\ lines \in Seq(Event) /\ torn \in BOOLEAN
  /\ hold \in [step : {"free"}] \cup [step : {"swap", "close"}]
       \cup [step : {"line", "projection"}, who : {"reporter", "canceller"}, event : Event]
  /\ rep \in [pc : {"off", "idle", "publish", "done"}, seq : Numbers, closed : BOOLEAN,
              next : [state : States \cup {"none"}, closed : BOOLEAN]]
  /\ cursor \in Numbers /\ page \in [after : Numbers, events : Seq(Event)]

\* Whatever two writes a crash falls between, the directory can be read
\* again: none of the refusals of _reconcile_locked is ever met.  And a client
\* that follows the cursor is given every event, in order: a page starts right
\* after its cursor and has no hole, RuntimeCursorExpired being the only way to
\* lose events.
PagesAreGapless ==
  \A i \in DOMAIN page.events : page.events[i].seq = page.after + i

JournalIsReadable == ~Unreadable /\ PagesAreGapless

\* What reconciling the directory would make of it.
LastState == IF lines = <<>> THEN "none" ELSE lines[Len(lines)].state
CancelTold == meta.cancel \/ \E i \in DOMAIN lines : lines[i].cancel
Oldest == IF meta.pending # NoCompaction /\ lines = meta.pending.after
          THEN meta.pending.oldest ELSE meta.oldest

\* That is the abstract log.
Log == INSTANCE OperationLog WITH
         through <- LastSeq, last <- LastState, cancelled <- CancelTold, oldest <- Oldest

\* The files implement the log: a line, once fsynced, is never lost or told
\* differently, also across crashes and compactions; after an accepted cancel
\* only the end follows and it is not a success; an end is final.
LogRefined == Log!Spec

-----------------------------------------------------------------------------
(* What makes both inductive (the proofs are in RuntimeProofs).              *)

\* The journal has no gap, and starts at the oldest event.
Numbered ==
  /\ \A i \in DOMAIN lines : lines[i].seq = Oldest + i - 1
  /\ lines = <<>> => Oldest = 1
  /\ ~meta.made => meta = NoMeta /\ lines = <<>> /\ hold = Free /\ ~torn

\* The metadata tells a prefix of the journal.
MetaLags ==
  /\ meta.through \in Oldest - 1 .. LastSeq
  /\ meta.through = LastSeq => meta.last = LastState
  /\ lines = <<>> => ~meta.cancel
  /\ \A i \in DOMAIN lines : lines[i].seq <= meta.through /\ lines[i].cancel => meta.cancel

\* A compaction that was announced is of an ended operation whose metadata is up to
\* date, and either journal is found.
Announced ==
  LET p == meta.pending IN
  p # NoCompaction =>
    /\ ~torn /\ meta.last \in EndStates /\ meta.through = LastSeq
    /\ lines \in {p.before, p.after}
    /\ p.before # <<>> /\ \A i \in DOMAIN p.before : p.before[i].seq = meta.oldest + i - 1
    /\ \E k \in DOMAIN p.before :
         p.oldest = meta.oldest + k - 1 /\ p.after = SubSeq(p.before, k, Len(p.before))

\* What the holder of the lock found when it took it.
Held ==
  /\ hold.step = "line" =>
       /\ hold.event.seq = LastSeq + 1 /\ LastState \notin EndStates
       /\ meta.through = LastSeq /\ meta.pending = NoCompaction /\ ~torn
       /\ hold.who = "canceller" =>
            /\ hold.event.cancel /\ ~CancelTold
            /\ hold.event.state = LastState /\ LastState # "none"
       /\ hold.who = "reporter" =>
            /\ ~hold.event.cancel
            /\ CancelTold => hold.event.state \in {"failed", "cancelled"}
  /\ hold.step = "projection" =>
       /\ lines # <<>> /\ lines[Len(lines)] = hold.event
       /\ meta.through = LastSeq - 1 /\ meta.pending = NoCompaction /\ ~torn
  /\ hold.step \in {"swap", "close"} => meta.pending # NoCompaction
  /\ hold.step = "swap" => lines = meta.pending.before
  /\ hold.step = "close" => lines = meta.pending.after

\* A reporter that has not been overtaken respects the cancel it has looked for.
Reported ==
  /\ rep.seq <= LastSeq
  /\ rep.pc = "publish" => rep.next.state # "none"
  /\ rep.pc = "publish" /\ rep.seq = LastSeq /\ CancelTold =>
       rep.next.state \in {"failed", "cancelled"}

JournalInv == /\ JournalTypeOK /\ Numbered /\ MetaLags /\ Announced /\ Held /\ Reported
              /\ cursor <= LastSeq /\ PagesAreGapless
=============================================================================
