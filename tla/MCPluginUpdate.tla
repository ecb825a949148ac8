---------------------------- MODULE MCPluginUpdate ----------------------------
(* An instance of PluginUpdate for TLC.                                      *)
EXTENDS PluginUpdate, TLC

CONSTANTS s1, s2, b1, b3

(* Two stable builds and two betas, one of which bears a number of its own   *)
(* and the other the number of a stable build.                               *)
MCVersion == s1 :> [number |-> 1, beta |-> FALSE] @@ s2 :> [number |-> 2, beta |-> FALSE]
          @@ b1 :> [number |-> 1, beta |-> TRUE]  @@ b3 :> [number |-> 3, beta |-> TRUE]
=============================================================================
