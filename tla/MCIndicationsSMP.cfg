SPECIFICATION MCSpec
CONSTANTS
  Boards = {"zynq"}
  Portal <- MCOnePortal
  Channel <- MCOneChannel
  Poller <- MCPoller
  Owner <- MCOneOwner
  MaxInd = 2
  SMP = TRUE
  FifoDepth = 2
  Proc <- MCProc
  Loads <- MCLoads
  MaxPending = 1
  SockBuf = 1
  p1 = p1
  p2 = p2
PROPERTIES ReenabledByUserMode
CHECK_DEADLOCK FALSE
