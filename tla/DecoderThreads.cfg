SPECIFICATION Spec
CONSTANTS
  Buffers = {b1, b2}
  MaxFrames = 3
  MaxStarts = 2
SYMMETRY BufferSymmetry
INVARIANTS TypeOK WaitingIsNewest 
 
CHECK_DEADLOCK FALSE
