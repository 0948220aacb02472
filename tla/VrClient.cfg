SPECIFICATION FairSpec
CONSTANTS
  HistorySize = 2
  StreamedEyes <- OneEye
  MaxPose = 3
  MaxInCodec = 1
  MaxChanges = 2
INVARIANTS TypeOK WarpIsOfItsPose 
 
CHECK_DEADLOCK FALSE
