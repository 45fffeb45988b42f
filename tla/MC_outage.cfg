SPECIFICATION Spec
CONSTANTS
  NumBuckets = 2
  MaxConnection = 1
  MaxOpen = 2
  Files = {f1, f2}
  NoFile = NoFile
  Clients = {c1}
  MaxBlocks = 2
  Quota = 2
  PreAllocate = 2
  PreActivate = 2
  Kinds = {"write"}
  Cancels = {FALSE}
  Accesses = {"new", "old"}
  Handover = TRUE
  OssFails = {"get", "put"}
  CloseBusy = FALSE
VIEW LiveView
CHECK_DEADLOCK FALSE
INVARIANTS
  StatisticsConserved
  HandleOwnsItsBuckets
  WrittenDataIsSafe
