SPECIFICATION Spec
CONSTANTS
  NumBuckets = 4
  MaxConnection = 2
  MaxOpen = 2
  Files = {f1}
  NoFile = NoFile
  Quota = 1
  PreAllocate = 1
  PreActivate = 1
  c1 = c1
  c2 = c2
  Clients <- MCClients
  Kinds <- MCKinds
  BucketSize = 2
  MaxSize = 3
  ReadLengths = {3}
  WriteLengths = {1, 2}
  Targets = {0, 3}
  MaxLate = 0
INVARIANTS FlushPublishes
