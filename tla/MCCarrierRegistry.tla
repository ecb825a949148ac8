-------------------------- MODULE MCCarrierRegistry --------------------------
(* An instance of CarrierRegistry for TLC.                                   *)
EXTENDS CarrierRegistry, TLC

CONSTANTS a, c1, c2, x, site, b, h1, h2

MCOwner == [m \in Squadron |-> a]
MCSymmetry == Permutations(Slot) \cup Permutations(Squadron)
=============================================================================
