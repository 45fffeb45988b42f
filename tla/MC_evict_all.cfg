\* gwEvictBlocks(fs, 1) and a file with two blocks.
SPECIFICATION Spec
CONSTANTS
  f1 = f1
  a1 = a1
  a2 = a2
  NoFile = NoFile
  Files <- MCFiles
  Admins <- MCAdmin
  NumBuckets = 3
  MaxConnection = 3
  MaxOpen = 1
  CountLimit = 3
  NumToEvict = 1
  MaxBlocks = 2
  MaxTouches = 2
  MaxRounds = 2
  MaxSteals = 1
INVARIANT EvictsAtMostNum
CHECK_DEADLOCK FALSE
