--------------------------- MODULE MCHitlRequests ---------------------------
(* Three calls of the routes at most, so that one may be late for both of    *)
(* the others.                                                               *)
EXTENDS HitlRequests, TLC

CONSTANTS o1, o2, o3

TwoOps == {o1, o2}
ThreeOps == {o1, o2, o3}

\* Operators are interchangeable; requests are ordered.
Symmetry == Permutations(Op)
=============================================================================
