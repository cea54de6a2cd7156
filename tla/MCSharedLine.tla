----------------------------- MODULE MCSharedLine -----------------------------
(* Instances of SharedLine for TLC. *)
EXTENDS SharedLine, TLC

Symmetric == Permutations(Threads) \cup Permutations(Buffers)
=============================================================================
