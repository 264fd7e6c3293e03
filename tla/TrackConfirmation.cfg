SPECIFICATION Spec
CONSTANTS
  None = None
  Policies <- ThreeTiers
  Scores = {1, 2, 3}
  Statistic = "median"
  TopK = 3
  Grace = 2
  CandidateInterval = 2
  ShadowMode = TRUE
  Adjudicating = TRUE
  DepartureMinSamples = 2
  DepartureMargin = 0
  Tracks = {1}
  Gaps <- TwoGaps
  MaxTime = 8
INVARIANTS
  WindowsArePure
  HeardMatchesState
  NothingLingers
PROPERTIES
  HitsTakeTime
  DepartureSaysWhyOnce
  ClosestAttemptStands
CHECK_DEADLOCK FALSE
