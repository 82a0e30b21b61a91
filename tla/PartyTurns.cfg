CONSTANTS
  a = a
  b = b
  p1 = p1
  k1 = k1
  Members = {a, b}
  Reqs = {p1}
  Clocks = {k1}
  MaxTurn = 2
  MaxFailures = 1
  MaxRestarts = 1
SPECIFICATION FairSpec
CHECK_DEADLOCK FALSE
INVARIANT EveryoneActs
PROPERTY
  DeadlineResolves
