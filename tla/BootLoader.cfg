SPECIFICATION FairSpecLoader
CONSTANTS
  sectorSize = 3
  SegmentSectors = 8
  sectorsPerTrack = 3
  numHeads = 2
  Cylinders = 4
  directoryLBA = 2
  clusterToSector = 2
  BootSizes = {1, 3, 5}
  KernelSizes = {0, 1, 4, 9, 18, 19, 21, 22, 24, 26}
  Disks <- MCDisks
INVARIANTS
  KernelWhole
  BootSurvives
PROPERTIES
  BootEnds
