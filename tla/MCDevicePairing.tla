-------------------------- MODULE MCDevicePairing --------------------------
(* Instances of DevicePairing for TLC. *)
EXTENDS DevicePairing, TLC

CONSTANTS k1, k2, u1, p1, p2, h1, h2, c1, c2, r1, r2

(* A plugin of one commander, next to another commander's pilot.            *)
OneEntry == p1 :> k1
OneSecret == h1 :> p1
(* Two PCs of one commander. *)
TwoPCs == p1 :> k1 @@ p2 :> k1
OwnSecret == h1 :> p1 @@ h2 :> p2

(* Slots and codes are interchangeable.                                     *)
SlotsAndCodes == Permutations(Req) \cup Permutations(Code)
=============================================================================
