CONSTANTS
  EmitMain = TRUE
  Label = {}
  SharedLabels = FALSE
  InnerBreaks = FALSE
  Valued = {TRUE, FALSE}
  MaxConds = 1
  MaxNode = 3
SPECIFICATION Spec
\* Each of these is refuted: keep one to see its counterexample.
INVARIANTS
  InsertionPointInBody
  TopLevelCodeContinues
CHECK_DEADLOCK FALSE
