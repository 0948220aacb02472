SPECIFICATION Spec
CONSTANTS
  Eyes = {left}
  Sizes <- MixedSizes
  PayloadBytes = 2
  MaxFrameBytes = 5
  MaxIndex = 1
  MaxRuns = 2
  NoFrame = NoFrame
  Spliced = Spliced
INVARIANT TypeOK
PROPERTY ImplementsDelivery
CHECK_DEADLOCK FALSE
