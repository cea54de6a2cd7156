SPECIFICATION Spec
CONSTANTS
  Threads = {t1, t2, t3}
  Objects = {o1, o2}
  Streams = {s1, s2, cerr}
  cerr = cerr
  s1 = s1
  s2 = s2
  m1 = m1
  m2 = m2
  m3 = m3
  Mutexes = {m1, m2, m3}
  LockOf <- OwnLocks
  Adapters = {a1, a2, a3, a4}
  First <- FirstAdapters
  o1 = o1
  o2 = o2
  a1 = a1
  a2 = a2
  NULL = NULL
  UsesCerr = {}
  AppWrites = {s1}
  MaxOps = 1
INVARIANT NoUseAfterDelete
PROPERTY ImplementsExclusiveOutput
PROPERTY OperationsReturn
PROPERTY FatalEnds
