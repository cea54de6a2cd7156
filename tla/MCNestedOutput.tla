---------------------------- MODULE MCNestedOutput ----------------------------
(* Instances of NestedOutput for TLC. *)
EXTENDS NestedOutput, TLC

Flushed == {{}, {"flush_cf"}, {"nonewline_cf", "noprefix_cf", "coredump"}}

Symmetric == Permutations(Outputs)
=============================================================================
