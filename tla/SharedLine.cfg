SPECIFICATION Spec
CONSTANTS
  Threads = {t1, t2, t3}
  Buffers = {b1, b2, b3, b4, b5}
  NULL = NULL
  Gone = Gone
  MaxNest = 3
  TidyExits = TRUE
  EmptyParts = FALSE
SYMMETRY Symmetric
INVARIANT LinesNotMixed
INVARIANT TextHasItsPrefix
INVARIANT UnfinishedOnce
INVARIANT NoDangling
