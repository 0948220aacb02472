SPECIFICATION FairSpec
CONSTANTS
  ReportStall <- Report
  FatalStall <- Fatal
  MaxSessions = 2
  MaxFrames = 2
INVARIANTS TypeOK StoppedIsReleased PipelineComplete FramesMeetEncoders
PROPERTIES NoFalseAlarm LostDeviceEndsProcess
CHECK_DEADLOCK FALSE
