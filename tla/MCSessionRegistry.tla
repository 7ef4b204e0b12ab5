------------------------- MODULE MCSessionRegistry -------------------------
(* Instances of SessionRegistry for TLC.                                   *)
EXTENDS SessionRegistry, TLC

CONSTANTS h1, h2, t1, t2, a1, a2, a3, a4, m1, m2

OneHome == [u \in Users |-> m1]

TwoHomes == [u \in Users |-> IF u = h2 THEN m2 ELSE m1]

Symmetry == Permutations(Terminals) \cup Permutations(Addrs)
=============================================================================
