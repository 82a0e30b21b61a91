SPECIFICATION MemorySpec
CONSTANTS
  MaxTurns = 4
  Texts <- SmallTexts
  MaxWorking = 2
  Attempts = 2
  StaleMax = 2
  MaxLines = 3
  MaxRestarts = 1
INVARIANTS
  RunStateKept
  VisitsRemembered
CHECK_DEADLOCK FALSE
