SPECIFICATION Spec
CONSTANTS
  Buffers = {b1, b2}
  MaxFrames = 2
  MaxStarts = 1
SYMMETRY BufferSymmetry
INVARIANT StartsWithKeyframe
CHECK_DEADLOCK FALSE
