-------------------------- MODULE MCRuntimeInstall --------------------------
(* Two processes; two submitted operations, a retry of one of them and one  *)
(* mishap, or one mishap more without the other operation or without the    *)
(* retry.  A retry by a selection of its own or by a plan is of one alone.  *)
EXTENDS RuntimeInstall, TLC

Symmetry == Permutations(Procs) \cup Permutations(Ops)

Submitted == {o \in Ops : log'[o] # NoLog \/ \E p \in Procs : w'[p].op = o}

MCNext ==
  /\ Next
  /\ command' # NoCommand /\ ~(Submitted \subseteq {command'.of})
       => command'.ask = NoIntent /\ mishaps' < MaxMishaps

MCSpec == Init /\ [][MCNext]_vars
=============================================================================
