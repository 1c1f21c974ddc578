SPECIFICATION MCSpec
CONSTANTS
  Shift <- PageShifts
  IndexWidth = 2
  Port = {0}
  NumIds = 3
  FifoDepth = 1
  Buffer = {1, 2}
  BufLen <- Lengths
  MaxSegments = 3
  Offsets = {2, 6}
  Lookups = 1
  MaxRef = 4
INVARIANTS TranslationsRight TablesComplete TranslationOff
PROPERTIES ReferenceReturns MastersServed
CHECK_DEADLOCK FALSE
