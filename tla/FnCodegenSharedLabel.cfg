CONSTANTS
  EmitMain = FALSE
  Label = {l1}
  SharedLabels = TRUE
  InnerBreaks = FALSE
  Valued = {TRUE, FALSE}
  MaxConds = 1
  MaxNode = 5
SPECIFICATION Spec
INVARIANT BranchesStayInFunction
CHECK_DEADLOCK FALSE
