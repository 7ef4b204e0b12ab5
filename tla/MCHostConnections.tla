------------------------- MODULE MCHostConnections -------------------------
(* Instances of HostConnections for TLC.                                   *)
EXTENDS HostConnections, TLC

CONSTANTS s1, s2
=============================================================================
