SPECIFICATION FairSpec
CONSTANTS
  FLOPPY_RETRIES_SEEK = 3
  FLOPPY_RETRIES_READ = 10
INVARIANTS
  SpinsInterruptibly
  CommandsStartClean
  WaitEndsWithOwnInterrupt
  TransferSetUp
PROPERTIES
  MovesEnd
