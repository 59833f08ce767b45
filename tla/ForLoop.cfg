CONSTANTS
  Types <- MCTypes
  Depth = 2
  MaxWrites = 1
SPECIFICATION Spec
INVARIANT
  TypeOK
PROPERTIES
  ItemsInOrder
  AllMembersVisited
  Terminates
  ImplementsForEach
CHECK_DEADLOCK FALSE
