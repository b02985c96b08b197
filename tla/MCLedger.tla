------------------------------ MODULE MCLedger ------------------------------
(* Instance of MockLedger for TLC.                                         *)
EXTENDS MockLedger, TLC

CONSTANTS e1, e2, d1, d2, k1, k2

TwoEvents == {e1, e2}
TwoDigests == {d1, d2}
TwoKeys == {k1, k2}
Symmetry == Permutations(TwoEvents) \cup Permutations(TwoDigests) \cup Permutations(TwoKeys)
=============================================================================
