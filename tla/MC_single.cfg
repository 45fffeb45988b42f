SPECIFICATION FairSpec
CONSTANTS
  NumBuckets = 2
  MaxConnection = 1
  MaxOpen = 2
  Files = {f1, f2}
  NoFile = NoFile
  Clients = {c1}
  MaxBlocks = 2
  Quota = 2
  PreAllocate = 2
  PreActivate = 2
  Kinds = {"write", "read", "delete"}
  Cancels = {TRUE, FALSE}
  Accesses = {"new", "old"}
  Handover = TRUE
  OssFails = {}
  CloseBusy = FALSE
INVARIANTS
  TypeOK
  WrittenDataIsSafe
PROPERTIES
  AccessEnds
