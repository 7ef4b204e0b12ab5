---------------------------- MODULE MCKnxTunnel ----------------------------
(* Reads are interchangeable for the invariants, and one write among them  *)
(* shows what becomes of a write that comes back; the liveness property of *)
(* the same run forbids the symmetry.                                      *)
EXTENDS KnxTunnel
=============================================================================
