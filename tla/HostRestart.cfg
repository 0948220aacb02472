SPECIFICATION Spec
CONSTANTS
  Eyes = {left}
  Sizes <- OneFragment
  PayloadBytes = 2
  MaxFrameBytes = 5
  MaxIndex = 1
  MaxRuns = 2
  NoFrame = NoFrame
  Spliced = Spliced
INVARIANT RestartedHostIsShown
CHECK_DEADLOCK FALSE
