SPECIFICATION Spec
CONSTANTS
  EmitMain = {TRUE, FALSE}
  FnName = {f, g}
  MaxLen = 8
INVARIANT FunctionNamesAreDistinct
INVARIANT SecondPassFindsPrototypes
INVARIANT CountsAgreeOnStatements
CHECK_DEADLOCK FALSE
