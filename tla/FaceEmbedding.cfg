\* Up to four faces of which three are embedded, in chunks of two or three, on three places of
\* which the middle one cannot be told from its neighbours; one level of splits.
SPECIFICATION Spec
CONSTANTS
  Limit = 3
  Batches = {2, 3}
  MaxSplits = 1
  MaxDetected = 4
  Boxes = {0, 1, 2}
INVARIANTS
  OwnVector
  MissesAreCounted
\* The frame is over, or the search failed.
CHECK_DEADLOCK FALSE
