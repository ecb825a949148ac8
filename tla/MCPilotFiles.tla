----------------------------- MODULE MCPilotFiles ----------------------------
(* An instance of PilotFiles for TLC.                                        *)
EXTENDS PilotFiles, TLC

CONSTANTS rig, p1, p2, honk, alarm, roster, discord, h1, h2
=============================================================================
