\* A stopping request and a service shutdown in each other's way, on a search for two
\* targets.  One frame is queued at a time; the reader connects or finds the source lost.
SPECIFICATION Spec
CONSTANTS
  Targets = {t1, t2}
  Tracks = 1
  Requests = {r1}
  Shutdowns = {"shutdown"}
  QueueSize = 1
  MaxReports = 1
INVARIANTS
  OffersAreHonest
  SlotFreeBeforeTheNews
  ReaderIsSilenced
  AbortLeavesNothing
  FinishedStoryIsComplete
PROPERTIES
  StopEndsTheSearch
  EveryStopReturns
\* When the search has finished and every request was answered nothing is left.
CHECK_DEADLOCK FALSE
