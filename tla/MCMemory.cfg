SPECIFICATION MCSpec
CONSTANTS
  NumTags = 4
  FifoDepth = 2
  Client = {1, 2}
  Mmu = {1, 2}
  numTags = 4
  ServerDepth = 1
  DoneDepth = 2
  PipelineDepth = 2
  MaxBurst = 2
  Asks <- MCAsks
  MaxReq = 5
INVARIANTS IInv TypesOK RightReads RightWrites MessagesRight WholeCommands CompletionsExact
PROPERTIES ImplementsCompletionOrder TransfersEnd RingsDrain
CHECK_DEADLOCK FALSE
