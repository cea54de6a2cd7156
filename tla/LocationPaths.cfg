SPECIFICATION Spec
CONSTANTS
  Locations = {x1, x2, x3}
  Paths = {p1, p2, p3}
  Places = {here, there}
  NULL = NULL
  AssignsBack = FALSE
SYMMETRY Symmetric
INVARIANT TypeOK
INVARIANT OwnedOnce
INVARIANT NoDoubleFree
INVARIANT KnownIsValid
INVARIANT UnknownPcIsPc
