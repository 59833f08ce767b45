CONSTANTS
  Params <- MCParams
  Locals <- MCLocals
  Fns <- MCFns
  Result <- MCResult
  Exprs <- MCExprs
  LetTypes <- MCLetTypes
  Types <- MCTypes
SPECIFICATION Spec
CHECK_DEADLOCK FALSE
INVARIANTS
  CompiledHasTyping
  PlaceHasTypeOfValue
  OperandsAreSound
  ExplicitIsDecided
  UniformIsDetermined
