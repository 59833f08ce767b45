SPECIFICATION Spec
CONSTANTS
  A = A
  B = B
  method = method
  sibling = sibling
  Classes = {A, B}
  Methods = {method, sibling}
  FieldType <- FieldTypes
  MaxBody = 2
  Bodies <- LongAndShort
\* Each of these is refuted: keep one to see its counterexample.
INVARIANTS
  NodesMeanImplementor
  SelfIsKnownInBodies
CHECK_DEADLOCK FALSE
