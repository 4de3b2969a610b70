CONSTANTS
  Garbage = Garbage
  None = None
  NStoreQueue = 2
  LineSize = 2
  NRob = 3
  NCQ = 2
  MaxBranches = 1
  MaxLatency = 1
  Contents0 <- SmallContents
  Operations <- Mixed
SPECIFICATION Spec
INVARIANTS LoadSeesOlderStores QueueFollowsRob LoadsFollowRob MemoryFollowsRetirement
