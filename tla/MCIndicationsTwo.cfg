SPECIFICATION MCSpec
CONSTANTS
  Boards = {"pcie"}
  Portal <- MCPortal
  Channel <- MCOneChannel
  Poller <- MCTwoPollers
  Owner <- MCTwoOwners
  MaxInd = 2
  SMP = FALSE
  FifoDepth = 2
  Proc <- MCProc
  Loads <- MCLoads
  MaxPending = 1
  SockBuf = 1
  p1 = p1
  p2 = p2
PROPERTIES EveryRiseIsSent
CHECK_DEADLOCK FALSE
