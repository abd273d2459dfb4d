SPECIFICATION FairSpec
CONSTANTS
  Threads = {t1, t2}
  Consoles = {system, shell}
  Default = system
  Last = 2
  Reach = 2
  MaxWrites = 1
INVARIANTS
  NeverMixed
  StaleIsBeingDrawn
  InterruptsRecovered
PROPERTIES
  PrintedShowsUp
