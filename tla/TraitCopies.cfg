SPECIFICATION Spec
CONSTANTS
  A = A
  B = B
  method = method
  sibling = sibling
  Classes = {A, B}
  Methods = {method, sibling}
  FieldType <- FieldTypes
  MaxBody = 3
  Bodies <- LongAndShort
INVARIANTS
  TypeOK
  BetweenCopiesAsParsed
  ParameterMeansImplementor
  CallersAreAccepted
CHECK_DEADLOCK FALSE
