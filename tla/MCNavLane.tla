------------------------------ MODULE MCNavLane ------------------------------
(* An instance of NavLane for TLC.                                           *)
EXTENDS NavLane

CONSTANTS sol, steel, h1, h2
=============================================================================
