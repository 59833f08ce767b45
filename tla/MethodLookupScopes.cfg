SPECIFICATION Spec
CONSTANTS
  Classes = {A}
  Traits = {T, U}
  Methods = {m}
  Scopes = {file, block}
  MaxImpls = 2
INVARIANT DefinitionsAreCalled
CHECK_DEADLOCK FALSE
