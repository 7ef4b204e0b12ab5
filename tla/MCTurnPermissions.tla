-------------------------- MODULE MCTurnPermissions --------------------------
(* Instances of TurnPermissions for TLC.                                   *)
EXTENDS TurnPermissions, TLC

CONSTANTS i1, i2, n1, n2, q1, q2, p1, p2, p3, p4

Symmetry ==
  Permutations(Ips) \cup Permutations(Ports) \cup Permutations(Channels)
    \cup Permutations(Perms)
=============================================================================
