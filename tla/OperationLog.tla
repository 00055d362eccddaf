---------------------------- MODULE OperationLog ----------------------------
(***************************************************************************)
(* What the journal of one runtime operation promises to whoever reads it:  *)
(* events are numbered without gaps, an accepted cancel is followed only by  *)
(* the operation's end and never by its success, an ended operation says     *)
(* nothing more, and old events may be dropped only once it has ended.       *)
(***************************************************************************)
EXTENDS Naturals

VARIABLES through,   \* number of the last event
          last,      \* state told by the last event, "none" before the first
          cancelled, \* a cancel has been accepted
          oldest     \* number of the oldest event still readable

vars == <<through, last, cancelled, oldest>>

EndStates == {"succeeded", "failed", "cancelled"}
States == {"running"} \cup EndStates
Ended(s) == s \in EndStates

Init == through = 0 /\ last = "none" /\ cancelled = FALSE /\ oldest = 1

Tell(s) == /\ ~Ended(last)
           /\ cancelled => s \in {"failed", "cancelled"}
           /\ through' = through + 1
           /\ last' = s
           /\ UNCHANGED <<cancelled, oldest>>

AcceptCancel == /\ ~Ended(last) /\ last # "none" /\ ~cancelled
                /\ through' = through + 1
                /\ cancelled' = TRUE
                /\ UNCHANGED <<last, oldest>>

Forget == /\ Ended(last)
          /\ \E n \in oldest .. through : oldest' = n
          /\ UNCHANGED <<through, last, cancelled>>

Next == (\E s \in States : Tell(s)) \/ AcceptCancel \/ Forget

Spec == Init /\ [][Next]_vars
=============================================================================
