CONSTANTS
  Letters = {1, 2}
  MaxLen = 4
SPECIFICATION Spec
INVARIANTS
  RollingRows
  DistanceIsLeast
