SPECIFICATION Spec
CONSTANTS
  Stages = {"S0", "S1", "S2", "S5"}
  First = "S0"
  Last = "S5"
  Transitions <- Steps
  Facts = {"a", "b", "c", "d"}
  Routes = {"expose", "ally"}
  None = None
  Lock = 3
  Betrayals = 2
  Stale = 5
  Hints = 3
  Closing = 5
  MinTurns = 15
  Budgets = {17}
INVARIANTS
  NeverStuck
PROPERTIES
  RouteKept
  ActorsFinish
CHECK_DEADLOCK FALSE
