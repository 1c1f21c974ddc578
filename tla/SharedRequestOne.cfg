SPECIFICATION Spec
CONSTANTS
  Limit = 20
  ReqSize = 2
  Lens = {2}
  MaxMsg = 7
  MifoDepth = 20
INVARIANTS NothingDropped
CHECK_DEADLOCK FALSE
