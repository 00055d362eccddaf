----------------------------- MODULE MCMineruJob -----------------------------
(***************************************************************************)
(* A job and a preload in different modes of the server.                   *)
(***************************************************************************)
EXTENDS MineruJob

CONSTANTS c1, c2, basic, standard, n1, n2

TwoModes == [c \in Calls |-> IF c = c1 THEN basic ELSE standard]

\* A job of two files, and a preload.
TwoAndOne == [c \in Calls |-> IF c = c1 THEN {n1, n2} ELSE {n1}]
=============================================================================
