SPECIFICATION MCSpec
CONSTANTS
  Limit = 15
  ReqSize = 3
  Lens <- MCLens
  MaxMsg = 7
  c1 = c1
  c2 = c2
  c3 = c3
  Client <- MCClient
  Port = {0, 1, 3}
  Served = {1, 3}
  Answering = {3}
  Method = {0, 1}
  Runaway = 0
  Script <- MCScript
  Portal = {1, 2, 3}
  Number <- MCNumber
  Handled = {1, 2}
  HasFd = {1}
  HasClient = {3}
  SimFd = 0
  MaxEvents = 1
  FifoMethod = {"sglist", "idReturn"}
  Words <- MCWords
  Count = 2
  MaxCalls = 4
INVARIANTS NoOverwrite CallsAreMessages LeavingBounded TablesExact WholeRequests
PROPERTIES ImplementsChannel CallsReturn PollersServe
CHECK_DEADLOCK FALSE
