SPECIFICATION Spec
CONSTANTS
  Threads = {t1, t2}
  Main = t1
  End = 6
  Symbols <- SomeSymbols
  NULL = NULL
INVARIANT TypeOK
INVARIANT FoundStays
INVARIANT LookupFinds
INVARIANT NamesExist
PROPERTY ImplementsAddressOwners
