\* Two administrators evict while the handle of a file uses, leaves and takes back two blocks.
SPECIFICATION FairSpec
CONSTANTS
  f1 = f1
  a1 = a1
  a2 = a2
  NoFile = NoFile
  Files <- MCFiles
  Admins <- MCAdmins
  NumBuckets = 3
  MaxConnection = 3
  MaxOpen = 1
  CountLimit = 3
  NumToEvict = 1
  MaxBlocks = 2
  MaxTouches = 2
  MaxRounds = 1
  MaxSteals = 1
INVARIANTS
  TypeOK
  
  VictimStays
PROPERTIES
  CoolestFirst
  ThrowsOnlyWhenNone
  
  SweepEnds
CHECK_DEADLOCK FALSE
