----------------------------- MODULE MCDlRegistry -----------------------------
(* Instances of DlRegistry for TLC. *)
EXTENDS DlRegistry, TLC

CONSTANTS l1

\* One library is larger than the others, so that addresses are reused in part.
Sizes == [l \in Libs |-> IF l = l1 THEN 2 ELSE 1]

Symmetric == Permutations(Threads) \cup Permutations(Handles) \cup Permutations(Objects)
=============================================================================
