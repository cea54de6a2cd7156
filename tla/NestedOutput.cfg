SPECIFICATION Spec
CONSTANTS
  Outputs = {o1, o2, o3, o4}
  Dummy = Dummy
  MaxSize = 2
  Choices <- Flushed
  AlwaysFlush = FALSE
  NestInOpening = FALSE
  MisuseInPart = FALSE
  MaxNest = 4
  MaxMarked = 4
SYMMETRY Symmetric
CHECK_DEADLOCK FALSE
INVARIANT TypeOK
INVARIANT LeavesNoTrace
INVARIANT FinishesOwnOutput
INVARIANT NoFalseAlarm
INVARIANT NoLeak
INVARIANT LinesNotMixed
INVARIANT FinishHasOutput
