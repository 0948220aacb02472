SPECIFICATION FairSpec
CONSTANTS
  ConfigRate <- Config
  MinRate <- Least
  MaxRate <- Most
  MaxFrames = 4
  MaxPose = 1
INVARIANTS TypeOK CallsAreTaken DrawnIsEncoded
PROPERTIES NoIndexTwice RateFollowsLoss StopEndsSession
CHECK_DEADLOCK FALSE
