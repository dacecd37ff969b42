CONSTANTS
  Replies <- MCReplies
  ProviderConfigs <- MCProviderConfigs
  Enabled = TRUE
  Default = "firecrawl"
SPECIFICATION Spec
INVARIANTS TypeOK RoundTripBound LedgerMatchesHistory StreamedSearchItemsMatchLedger WorkAfterDisconnectBounded
PROPERTY Terminates
CHECK_DEADLOCK FALSE
