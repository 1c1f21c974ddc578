SPECIFICATION MCSpec
CONSTANTS
  Shift <- PageShifts
  IndexWidth = 2
  Port = {0}
  NumIds = 3
  FifoDepth = 1
  Buffer = {1, 2}
  BufLen <- Lengths
  MaxSegments = 4
  Offsets = {0}
  Lookups = 1
  MaxRef = 4
INVARIANT ZerosEndList
CHECK_DEADLOCK FALSE
