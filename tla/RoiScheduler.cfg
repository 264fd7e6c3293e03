SPECIFICATION FairSpec
CONSTANTS
  MaxId = 2
  MaxPerPass = 1
  BackoffMax = 3
  FaceEvery = 2
  RoiEvery = 2
  FaceCosts = {1}
  RoiCosts = {1, 2}
  Cap = 2
  Floor = 5
PROPERTIES
  EveryTrackGetsItsTurn
CHECK_DEADLOCK FALSE
