SPECIFICATION FairSpec
CONSTANTS
  HnsPerSecond = 2
  ConfiguredRate = 2
  ConfiguredBitrate = 1
  Bitrates <- TwoBitrates
  MaxTracked = 2
  MaxAsks = 1
  MaxFrames = 3
  MaxFailures = 1
  MaxRequests = 1
INVARIANTS TypeOK NeverUnasked OutputMatchedInTime DrainFlushes RequestsKept
PROPERTY CallsReturn
CHECK_DEADLOCK FALSE
