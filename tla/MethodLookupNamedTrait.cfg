SPECIFICATION Spec
CONSTANTS
  Classes = {A}
  Traits = {T, U}
  Methods = {m}
  Scopes = {file}
  MaxImpls = 2
INVARIANT NamedTraitDecides
CHECK_DEADLOCK FALSE
