\* Every declaration of the instance, demangled; and numbers of both precisions,
\* printed.
SPECIFICATION Spec
CONSTANTS
  Declarations <- MCDeclarations
  Names <- MCNames
  Reals <- MCReals
  MaxInsideType = 20
  Numbers <- MCNumbers
INVARIANT RoundTrip
INVARIANT SubstitutionsMatch
INVARIANT NeverGlued
INVARIANT SameExponent
INVARIANT PrintsTheNumber
CHECK_DEADLOCK FALSE
