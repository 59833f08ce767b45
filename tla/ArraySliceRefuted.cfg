SPECIFICATION Spec
CONSTANTS
  Types <- AllTypes
  Wide <- Long
  Dims = {1, 2, 5, 8, 10, 16}
\* Each of these is refuted: keep one to see its counterexample.
INVARIANTS
  SlicesHaveAllOfTheirRange
  ItemsAreAddressed
CHECK_DEADLOCK FALSE
