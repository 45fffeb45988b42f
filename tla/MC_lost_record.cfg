SPECIFICATION Spec
CONSTANTS
  NumBuckets = 2
  MaxConnection = 2
  MaxOpen = 2
  Files = {f1, f2}
  NoFile = NoFile
  Clients = {c1, c2}
  MaxBlocks = 2
  Quota = 1
  PreAllocate = 2
  PreActivate = 2
  Kinds = {"write"}
  Cancels = {FALSE}
  Accesses = {"new", "old"}
  Handover = TRUE
  OssFails = {}
  CloseBusy = FALSE
SYMMETRY Symmetry
CONSTRAINT NothingStolen
CHECK_DEADLOCK FALSE
INVARIANTS
  WrittenDataIsSafe
