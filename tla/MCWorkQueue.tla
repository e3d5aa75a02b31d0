---------------------------- MODULE MCWorkQueue ----------------------------
(* Instances of WorkQueue for TLC: one host run, its work, and drains.     *)
EXTENDS WorkQueue, TLC

CONSTANTS p, a, b, d1, d2, NoOwner

OneRoot == {p}
OneItem == {a}
TwoItems == {a, b}
OneDrain == {d1}
TwoDrains == {d1, d2}

DrainSymmetry == Permutations({d1, d2})
ItemSymmetry == Permutations({a, b})
=============================================================================
