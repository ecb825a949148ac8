----------------------------- MODULE MCAlertLane -----------------------------
(* An instance of AlertLane for TLC.                                         *)
EXTENDS AlertLane

CONSTANTS h1, h2
=============================================================================
