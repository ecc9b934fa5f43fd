---------------------------- MODULE MCRuntimePool ----------------------------
(* An instance of RuntimePool for TLC. *)
EXTENDS RuntimePool

CONSTANTS home, p1, p2, c1, c2, a0, a1, a2, a3
=============================================================================
