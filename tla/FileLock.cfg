SPECIFICATION FairSpec
CONSTANTS
  c1 = c1
  c2 = c2
  c3 = c3
  p1 = p1
  p2 = p2
  p3 = p3
  Lock = Lock
  Calls <- MCCalls
  ProcOf <- MCProcOf
  MaxInode = 2
  MaxCrashes = 2
  SlowWrites = FALSE
INVARIANTS
  Exclusive
  CommitIsFresh
  HolderKeepsLock
  NoFileIsLeft
PROPERTIES
  LiveOwnerIsSpared
  ImplementsSerialUpdates
  Recovered
