--------------------------- MODULE MCClaimsLedger ---------------------------
(* Instances of ClaimsLedger for TLC. *)
EXTENDS ClaimsLedger, TLC

(* Commanders, systems and slots are interchangeable. *)
Symmetric == Permutations(Cmdr) \cup Permutations(System) \cup Permutations(Req)
=============================================================================
