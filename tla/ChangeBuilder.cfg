CONSTANTS
  MaxSize = 4
  MaxSteps = 5

SPECIFICATION BuilderSpec
CHECK_DEADLOCK FALSE

INVARIANTS
  ChangesExact
  BatchExact
