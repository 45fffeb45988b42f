SPECIFICATION FairSpec
CONSTANTS
  NumBuckets = 3
  MaxConnection = 2
  MaxOpen = 2
  Files = {f1, f2}
  NoFile = NoFile
  Clients = {c1, c2}
  MaxBlocks = 2
  Quota = 2
  PreAllocate = 2
  PreActivate = 2
  Kinds = {"write"}
  Cancels = {FALSE}
  Accesses = {"new"}
  Handover = TRUE
  OssFails = {}
  CloseBusy = FALSE
INVARIANTS
  StatisticsAreExact
  HandleOwnsItsBuckets
  
  NoCallFails
PROPERTIES
  AccessEnds
