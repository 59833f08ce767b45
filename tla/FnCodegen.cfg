CONSTANTS
  EmitMain = FALSE
  Label = {l1, l2}
  SharedLabels = FALSE
  InnerBreaks = FALSE
  Valued = {TRUE, FALSE}
  MaxConds = 2
  MaxNode = 4
SPECIFICATION Spec
INVARIANTS
  InsertionPointInBody
  FinishedFunctionsVerify
  PhisNamePredecessors
  PlainFunctionReturnsOwnValue
CHECK_DEADLOCK FALSE
