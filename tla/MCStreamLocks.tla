---------------------------- MODULE MCStreamLocks ----------------------------
(* Instances of StreamLocks for TLC. *)
EXTENDS StreamLocks, TLC

CONSTANTS o1, o2, s1, s2, m1, m2, m3, a1, a2

\* Every stream has a lock of its own, and not every debug object: two that were given the same
\* stream share its lock, and set_ostream of one waits for what is written with the other.
OwnLocks == [s \in Streams |-> CASE s = s1 -> m1 [] s = s2 -> m2 [] OTHER -> m3]

\* What the debug objects have at first.
FirstAdapters == [o \in Objects |-> IF o = o1 THEN a1 ELSE a2]

Symmetric == Permutations(Threads) \cup Permutations(Adapters \ {First[o] : o \in Objects})
=============================================================================
