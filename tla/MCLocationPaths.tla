---------------------------- MODULE MCLocationPaths ----------------------------
(* Instances of LocationPaths for TLC. *)
EXTENDS LocationPaths, TLC

Symmetric == Permutations(Locations) \cup Permutations(Paths) \cup Permutations(Places)
=============================================================================
