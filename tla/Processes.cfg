SPECIFICATION Spec
CONSTANTS
  GdtSizes = {5, 6, 7, 8, 9}
  TssSizes = {1, 2, 3, 4, 5, 6}
  ProcessSizes = {2, 3, 4, 7, 10}
INVARIANTS
  LinkedHaveTss
  ListIsNewestFirst
  StacksBelowVideo
  ViewedIsLinked
