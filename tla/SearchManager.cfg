\* Two searches, one target and one request id: a start may replace the search that runs
\* or be repeated, one finished search may be kept; clock, janitor, a status request, shutdown.
SPECIFICATION FairSpec
CONSTANTS
  Searches = {s1, s2}
  Targets = {t1}
  Keys = {k1}
  Threads = {h1}
  NoSearch = NoSearch
  NoKey = NoKey
  MaxEnrolled = 1
  MaxRetained = 1
  Ttl = 1
  MaxDelay = 1
  MaxTime = 2
INVARIANTS
  OneLiveSearch
  SpentTargetsAreGone
  JanitorWillCome
PROPERTIES
  ImplementsRegistry
  ClosedForGood
  ForgottenInOrder
  FinishedAreForgotten
\* When the manager is shut down and every search has finished, nothing is left to do.
CHECK_DEADLOCK FALSE
