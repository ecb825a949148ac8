----------------------------- MODULE NewestReport -----------------------------
(***************************************************************************)
(* What the intake promises of everything the plugins observe (carriers,   *)
(* loadouts, stations, a site's requirements): "newest event timestamp     *)
(* wins".  Whatever the order reports arrive in, the timestamp on record   *)
(* for a key only ever grows.                                              *)
(***************************************************************************)
EXTENDS Naturals

CONSTANT Key
VARIABLE newest      \* the timestamp on record for each key, 0 for none

Init == newest = [k \in Key |-> 0]

Report(k) ==
    /\ newest'[k] > newest[k]
    /\ newest' = [newest EXCEPT ![k] = newest'[k]]

Next == \E k \in Key : Report(k)

Spec == Init /\ [][Next]_newest
=============================================================================
