SPECIFICATION MCSpec
CONSTANTS
  Boards = {"zynq", "pcie", "sim"}
  Portal <- MCPortal
  Channel <- MCChannel
  Poller <- MCPoller
  Owner <- MCOwner
  MaxInd = 2
  SMP = FALSE
  FifoDepth = 2
  Proc <- MCProc
  Loads <- MCLoads
  MaxPending = 1
  SockBuf = 1
  p1 = p1
  p2 = p2
INVARIANTS NoLostWakeup PcieNoLostWakeup OwnAnswer LevelKnown
PROPERTIES AllHandled
CHECK_DEADLOCK FALSE
