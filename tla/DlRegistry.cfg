SPECIFICATION Spec
CONSTANTS
  Threads = {t1, t2, t3}
  Libs = {l1, l2, l3}
  l1 = l1
  Linked = {l3}
  Plugins = {l1}
  Helpers = {l2}
  Size <- Sizes
  Pages = 4
  Handles = {h1, h2, h3}
  Objects = {f1, f2, f3}
  NULL = NULL
  Serial = TRUE
  UsesNoload = FALSE
  Forgets = FALSE
  Overlaps = FALSE
  MaxOpens = 2
SYMMETRY Symmetric
INVARIANT Synchronized
INVARIANT LookupSucceeds
INVARIANT NoUseAfterDelete
INVARIANT AssertionsHold
