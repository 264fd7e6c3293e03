SPECIFICATION FairSpec
CONSTANTS
  MaxId = 1
  MaxPerPass = 1
  BackoffMax = 2
  FaceEvery = 2
  RoiEvery = 2
  FaceCosts = {1}
  RoiCosts = {1, 3}
  Cap = 2
  Floor = 5
PROPERTIES
  SlowPassIsForgiven
CHECK_DEADLOCK FALSE
