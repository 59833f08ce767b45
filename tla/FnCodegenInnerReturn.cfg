CONSTANTS
  EmitMain = FALSE
  Label = {}
  SharedLabels = FALSE
  InnerBreaks = FALSE
  Valued = {TRUE, FALSE}
  MaxConds = 1
  MaxNode = 4
SPECIFICATION Spec
INVARIANT RejectedIfNoReturn
CHECK_DEADLOCK FALSE
