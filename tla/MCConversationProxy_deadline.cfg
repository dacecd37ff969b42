CONSTANTS
  MaxTurns = 3
  PartTurns = {}
  ConfigFile <- MCConfigFile
  Endpoints <- MCEndpoints
SPECIFICATION Spec
INVARIANT UpstreamContextLive
CHECK_DEADLOCK FALSE
