SPECIFICATION Spec
CONSTANTS
  N = 2
  Readers = {1}
  MaxPresses = 2
  DeadKeys = {}
CHECK_DEADLOCK FALSE
INVARIANT
  ReadReturnsKey
