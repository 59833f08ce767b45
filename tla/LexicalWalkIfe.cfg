SPECIFICATION Spec
CONSTANTS
  EmitMain = {TRUE}
  FnName = {f}
  MaxLen = 6
INVARIANT LexicalCountsAgree
CHECK_DEADLOCK FALSE
