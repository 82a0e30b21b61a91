SPECIFICATION WorldSpec
CONSTANTS
  Locations = {"market", "harbor"}
  Incidents = {"riot", "theft", "plot"}
  Def <- IncidentDefs
  Hub = "hub"
  NoTransition = NoTransition
  Durations <- SmallDay
  AccrualTurns = 2
  SoftDeadline = 2
  HeatScale <- SmallHeat
  HeatDeltas <- SmallDeltas
  EventFlags <- SmallFlags
  Clues = {100}
  MaxOpen = 2
  MaxCombats = 1
  MaxClock = 6
  MaxTalks = 2
INVARIANTS
  TimeKept
  ConsequencesApplied
PROPERTIES
  DeadlinesKept
CHECK_DEADLOCK FALSE
