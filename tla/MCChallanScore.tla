--------------------------- MODULE MCChallanScore ---------------------------
(* Small instances of ChallanScore for TLC. *)
EXTENDS ChallanScore, TLC

CONSTANTS c1, c2, r1, r2, r3

TwoChallans == {c1, c2}
OneChallan == {c1}
TwoRequests == {r1, r2}
ThreeRequests == {r1, r2, r3}
Symmetry == Permutations(TwoChallans) \cup Permutations(ThreeRequests)
=============================================================================
