CONSTANTS
  MaxTurns = 3
  PartTurns = {}
  ConfigFile <- MCConfigFile
  Endpoints <- MCEndpoints
SPECIFICATION Spec
INVARIANT FollowUpSeesHistory
CHECK_DEADLOCK FALSE
