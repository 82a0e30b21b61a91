CONSTANTS
  a = a
  b = b
  c = c
  v1 = v1
  r1 = r1
  r2 = r2
  Users = {a, b, c}
  Votes = {v1}
  Reqs = {r1, r2}
  MaxRestarts = 1
SPECIFICATION FairSpec
CHECK_DEADLOCK FALSE
INVARIANTS
  MajorityIsReal
  TimersFit
PROPERTY VoteEnds
