SPECIFICATION Spec
CONSTANTS
  Limit = 20
  ReqSize = 5
  Lens = {3, 5}
  MaxMsg = 7
  MifoDepth = 20
INVARIANTS InOrder
CHECK_DEADLOCK FALSE
