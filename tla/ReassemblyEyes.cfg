SPECIFICATION Spec
CONSTANTS
  Eyes = {left, right}
  Sizes <- OddSizes
  PayloadBytes = 2
  MaxFrameBytes = 5
  MaxIndex = 2
  MaxRuns = 1
  NoFrame = NoFrame
  Spliced = Spliced
INVARIANTS NothingDiscarded MissingCounted
PROPERTY AbandonedIsAskedFor
CHECK_DEADLOCK FALSE
