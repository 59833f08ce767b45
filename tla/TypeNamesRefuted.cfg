SPECIFICATION Spec
CONSTANTS
  Names <- MCNames
  Programs <- MCPrograms
  Asks <- MCAsks
  MaxAsks = 2
\* Each of these is refuted: keep one to see its counterexample.
INVARIANTS
  RecursiveTypesAreAccepted
  PartsHaveCLayout
  NamesMeanVisible
CHECK_DEADLOCK FALSE
