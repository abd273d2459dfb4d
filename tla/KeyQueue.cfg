SPECIFICATION Spec
CONSTANTS
  KEY_QUEUE_SIZE = 4
  MaxPresses = 7
  Shifted = {1, 2, 5, 7}
PROPERTIES
  ImplementsMailbox
