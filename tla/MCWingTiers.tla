----------------------------- MODULE MCWingTiers -----------------------------
(* An instance of WingTiers for TLC.                                         *)
EXTENDS WingTiers, TLC

CONSTANTS m1, m2, h1, h2

MCSymmetry == Permutations(Slot) \cup Permutations(Member)
=============================================================================
