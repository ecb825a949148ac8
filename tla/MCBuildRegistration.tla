------------------------- MODULE MCBuildRegistration -------------------------
(* Instances of BuildRegistration for TLC. *)
EXTENDS BuildRegistration, TLC

(* Handlers, threads and Raven's ids are interchangeable. *)
BuildSymmetry == Permutations(Slot) \cup Permutations(Thread) \cup Permutations(Build)
=============================================================================
