------------------------------- MODULE MCDaemon -------------------------------
(* An instance of Daemon for TLC. *)
EXTENDS Daemon, TLC

CONSTANTS d1, d2, d3, c1, c2
=============================================================================
