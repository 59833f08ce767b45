SPECIFICATION Spec
CONSTANTS
  Types <- AllTypes
  Wide <- Long
  Dims = {1, 2, 5, 8, 10, 16}
INVARIANTS
  SlicesStartAtTheirRange
CHECK_DEADLOCK FALSE
