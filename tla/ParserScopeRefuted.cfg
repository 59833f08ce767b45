SPECIFICATION Spec
CONSTANTS
  EmitMain = {FALSE}
  Nested = {FALSE}
  FnName = {f, g}
  Type = {A}
  Label = {l}
  MaxTable = 3
  MaxDepth = 4
\* Each of these is refuted: keep one to see its counterexample.
INVARIANTS
  LabelsPassInnerFunctions
  InnerFunctionsArePlain
  PrototypeIsAsWritten
CHECK_DEADLOCK FALSE
