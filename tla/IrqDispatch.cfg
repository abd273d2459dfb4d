SPECIFICATION FairSpec
CONSTANTS
  Irqs = {1, 6, 12}
  Threads = {main, other}
  Boot = main
INVARIANTS
  DispatchExclusive
  OnlyInterruptersDropped
  InServiceMatchesStacks
PROPERTIES
  EventuallyAcknowledged
