SPECIFICATION Spec
CONSTANTS
  EmitMain = {TRUE}
  Nested = {TRUE}
  FnName = {f}
  Type = {A}
  Label = {l}
  MaxTable = 3
  MaxDepth = 3
\* Each of these is refuted: keep one to see its counterexample.
INVARIANTS
  ParentChainsReachRoot
  OutOfFunctionsIsMain
CHECK_DEADLOCK FALSE
