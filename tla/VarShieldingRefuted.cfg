CONSTANTS
  Name = {a, b}
  Param = {a}
  MaxTable = 2
  MaxLen = 4
  MaxWalk = 2
SPECIFICATION Spec
\* Each of these is refuted: keep one to see its counterexample.
INVARIANTS
  RecursiveCallSeesDeclaredType
  MethodCallSeesDeclaredSelf
CHECK_DEADLOCK FALSE
