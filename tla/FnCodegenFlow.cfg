CONSTANTS
  EmitMain = FALSE
  Label = {}
  SharedLabels = FALSE
  InnerBreaks = FALSE
  Valued = {FALSE}
  MaxConds = 2
  MaxNode = 5
SPECIFICATION FlowSpec
PROPERTY
  ImplementsStructuredFlow
CHECK_DEADLOCK FALSE
