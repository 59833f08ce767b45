CONSTANTS
  Params <- MCParams
  Locals <- MCLocals
  Fns <- MCFns
  Result <- MCResult
  Exprs <- MCExprs
  LetTypes <- MCLetTypes
  Types <- MCTypes
SPECIFICATION Spec
\* Each of these is refuted: keep one to see its counterexample.
INVARIANTS
  TypedLetIsChecked
  OpAssignTypesMatch
  AddressOfVariable
  FixedLiteralGuides
CHECK_DEADLOCK FALSE
