-------------------------- MODULE MCPaddleProcess --------------------------
(***************************************************************************)
(* Two jobs, a preload and two requests on the loop, and a fault.          *)
(***************************************************************************)
EXTENDS PaddleProcess

CONSTANTS j1, j2, p1, loop, free, s0, s1, s2, default

=============================================================================
