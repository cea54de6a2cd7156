SPECIFICATION Spec
CONSTANTS
  Threads = {t1, t2}
  Libs = {l1, l2}
  l1 = l1
  Linked = {l1}
  Plugins = {l1, l2}
  Helpers = {}
  Size <- Sizes
  Pages = 3
  Handles = {h1, h2}
  Objects = {f1, f2, f3}
  NULL = NULL
  Serial = TRUE
  UsesNoload = FALSE
  Forgets = FALSE
  Overlaps = FALSE
  MaxOpens = 2
SYMMETRY Symmetric
INVARIANT Synchronized
