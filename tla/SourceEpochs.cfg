SPECIFICATION FairSpec
CONSTANTS
  QueueSize = 2
  MaxLosses = 2
  MaxId = 2
INVARIANTS
  MemoryIsOfOneConnection
PROPERTIES
  FramesAreSearched
CHECK_DEADLOCK FALSE
