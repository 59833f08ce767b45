SPECIFICATION Spec
CONSTANTS
  Names <- MCNames
  Programs <- MCPrograms
  Asks <- MCAsks
  MaxAsks = 2
INVARIANTS
  AcceptedHaveMeaning
  RefusedHaveNoMeaning
  ObjectsAreTheirTypes
  SameTypeSameObject
  SizedPartsHaveCLayout
CHECK_DEADLOCK FALSE
