---------------------------- MODULE ExclusiveOutput ----------------------------
(***************************************************************************)
(* What the locks of a debug object promise to the program: the threads    *)
(* write to an ostream one at a time, and none of them writes to one that  *)
(* the program has destroyed after it was replaced.                        *)
(***************************************************************************)
EXTENDS FiniteSets

CONSTANTS Threads, Streams

VARIABLES
  writers,  \* the threads that are writing to a stream
  exists    \* the streams that are not destroyed

vars == <<writers, exists>>

Init ==
  /\ writers = [s \in Streams |-> {}]
  /\ exists = Streams

Begin(t, s) ==
  /\ s \in exists
  /\ writers[s] = {}
  /\ writers' = [writers EXCEPT ![s] = {t}]
  /\ UNCHANGED exists

End(t, s) ==
  /\ t \in writers[s]
  /\ writers' = [writers EXCEPT ![s] = {}]
  /\ UNCHANGED exists

Destroy(s) ==
  /\ writers[s] = {}
  /\ exists' = exists \ {s}
  /\ UNCHANGED writers

Next ==
  \E s \in Streams :
    \/ \E t \in Threads : Begin(t, s) \/ End(t, s)
    \/ Destroy(s)

Spec == Init /\ [][Next]_vars
=============================================================================
