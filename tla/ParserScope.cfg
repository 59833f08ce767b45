SPECIFICATION Spec
CONSTANTS
  EmitMain = {TRUE, FALSE}
  Nested = {FALSE}
  FnName = {f}
  Type = {A}
  Label = {l}
  MaxTable = 3
  MaxDepth = 4
INVARIANT ScopeFollowsGrammar
INVARIANT NamesGoToTheirScope
INVARIANT ImplMethodsAreMethods
INVARIANT LabelsInTheirFunction
CHECK_DEADLOCK FALSE
