CONSTANTS
  r1 = r1
  r2 = r2
  h1 = h1
  h2 = h2
  Scenarios = 2
  Heroes = {h1, h2}
  Requests = {r1, r2}
  Settings <- TheSettings
SYMMETRY Symmetry
SPECIFICATION Spec
CHECK_DEADLOCK FALSE
INVARIANTS
  NoWayBack
  Carried
  OneHero
