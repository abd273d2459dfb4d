SPECIFICATION FairSpec
CONSTANTS
  N = 2
  Readers = {1, 2}
  MaxPresses = 2
  DeadKeys = {2}
INVARIANTS
  KeysConserved
  BlockedIsRecallable
PROPERTIES
  ResumesWhereStopped
  BlockedReaderServed
  NoStarvation
  ScanEnds
