CONSTANTS
  NumTurns = 3
  Key <- MCKey
  MaxConcurrent = 2
  Polls = {1, 2}
  NumTasks = 3
  Retriers = {1}
  MaxRetries = 1
  MaxCrashes = 1
  SlowCalls = FALSE
SPECIFICATION FairSpec
CHECK_DEADLOCK FALSE
INVARIANTS
  OneCall
  RunningIsWorked
  FailedIsRefunded
PROPERTY DeliversNarration
