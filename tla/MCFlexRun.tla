----------------------------- MODULE MCFlexRun -----------------------------
(* Three requests and as many runs, so that each request may create one.     *)
EXTENDS FlexRun, TLC

CONSTANTS q1, q2, q3, r1, r2, r3

Three == {q1, q2, q3}
TwoRuns == {r1, r2}
ThreeRuns == {r1, r2, r3}

\* Requests and runs are interchangeable.
Symmetry == Permutations(Request) \union Permutations(Run)
=============================================================================
