SPECIFICATION Spec
CONSTANTS
  MaxIndex = 5
  MaxOffset = 6
INVARIANTS
  Normalised
  NeverPanics
PROPERTY
  ImplementsPoints
CHECK_DEADLOCK FALSE
