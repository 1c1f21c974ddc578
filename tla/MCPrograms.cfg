SPECIFICATION MCSpec
CONSTANTS
  chA = chA
  chB = chB
  nul = nul
  Suite <- MCSuite
  Name <- MCName
INVARIANTS VerdictRight ExclusiveUse CreditsKept TextsRight SearchRight
PROPERTIES ProgramsEnd
CHECK_DEADLOCK FALSE
