SPECIFICATION Spec
CONSTANTS
  Char = {a, b}
  NUL = nul
  MaxM = 4
  MaxN = 6
INVARIANTS OccurrenceFound
CHECK_DEADLOCK FALSE
