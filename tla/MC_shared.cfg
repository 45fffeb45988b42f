SPECIFICATION Spec
CONSTANTS
  NumBuckets = 6
  MaxConnection = 2
  MaxOpen = 2
  Files = {f1}
  NoFile = NoFile
  Clients = {c1, c2, c3}
  MaxBlocks = 2
  Quota = 2
  PreAllocate = 2
  PreActivate = 2
  Kinds = {"write", "read", "delete"}
  Cancels = {FALSE}
  Accesses = {"new", "old"}
  Handover = FALSE
  OssFails = {}
  CloseBusy = FALSE
SYMMETRY Symmetry
VIEW LiveView
INVARIANTS
  NoBucketLeaks
  QuietStateIsClean
