CONSTANTS
  r1 = r1
  r2 = r2
  k1 = k1
  k2 = k2
  k3 = k3
  k4 = k4
  Requests = {r1, r2}
  Keys = {k1, k2, k3, k4}
  Settings <- TheSettings
SYMMETRY Symmetry
SPECIFICATION Spec
CHECK_DEADLOCK FALSE
INVARIANTS
  TurnLogContiguous
  EffectsKept
  ChargesMatchTurns
  Playable
  RefundOnlyFailed
PROPERTY KeepsHistory
