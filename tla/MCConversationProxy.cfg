CONSTANTS
  MaxTurns = 3
  PartTurns = {2}
  ConfigFile <- MCConfigFile
  Endpoints <- MCEndpoints
SPECIFICATION Spec
INVARIANTS TypeOK SystemMessageLeads StoredHistoryExtendsLoaded ViewShowsHistory
PROPERTY ImplementsConversationHistory EveryTurnAnswered
CHECK_DEADLOCK FALSE
