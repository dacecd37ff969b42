CONSTANTS
  MaxTurns = 3
  PartTurns = {}
  ConfigFile <- MCConfigFile
  Endpoints <- MCEndpoints
SPECIFICATION Spec
INVARIANT OnlyCompletedAnswersStored
CHECK_DEADLOCK FALSE
