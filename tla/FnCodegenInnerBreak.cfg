CONSTANTS
  EmitMain = FALSE
  Label = {}
  SharedLabels = FALSE
  InnerBreaks = TRUE
  Valued = {TRUE, FALSE}
  MaxConds = 1
  MaxNode = 4
SPECIFICATION Spec
INVARIANT BranchesStayInFunction
CHECK_DEADLOCK FALSE
