------------------------------ MODULE MC_Daemon ------------------------------
(* Instantiates Daemon for TLC: room for two groups, so that one run can   *)
(* see the client reach RUNNING twice.                                      *)
EXTENDS Daemon, TLC

CONSTANTS g1, g2

MC_Groups == {g1, g2}

=============================================================================
