-------------------------- MODULE MCTurnAllocation --------------------------
(* Instances of TurnAllocation for TLC.                                    *)
EXTENDS TurnAllocation, TLC

CONSTANTS a1, a2, c1, c2, w1, w2

Symmetry ==
  Permutations(Allocs) \cup Permutations(Clients) \cup Permutations(Workers)
=============================================================================
