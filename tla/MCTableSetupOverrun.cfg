CONSTANTS
  Kinds <- MCKinds
  Bits <- MCBits
  Segments <- MCSegments
  MinDirSize = 8
  MaxDirSize = 1048576
  InitSizes <- MCOddSizes
  MaxLevel = 20
SPECIFICATION Spec
CHECK_DEADLOCK FALSE
INVARIANT DirectoryCoversBuckets
