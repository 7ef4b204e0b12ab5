---------------------------- MODULE MCHostLogin ----------------------------
(* Instances of HostLogin for TLC.                                         *)
EXTENDS HostLogin, TLC
=============================================================================
