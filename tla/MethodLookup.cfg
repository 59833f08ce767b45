SPECIFICATION Spec
CONSTANTS
  Classes = {A}
  Traits = {T, U}
  Methods = {m, n}
  Scopes = {file}
  MaxImpls = 3
SYMMETRY Interchange
INVARIANTS
  PlainCallsReachTheirMethod
  ImplementedTraitsAreComplete
  CopiesKnowTheirSelf
CHECK_DEADLOCK FALSE
