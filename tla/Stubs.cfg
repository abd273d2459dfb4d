SPECIFICATION Spec
CONSTANTS
  Lines = {0, 1, 6}
  Faults = {3, 13, 17}
  MaxDepth = 3
INVARIANTS
  ReturnsWhereInterrupted
  AcksOwnLine
  MaskIsCopied
PROPERTIES
  TimerSilences
