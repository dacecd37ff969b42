CONSTANTS
  Replies <- MCReplies
  ProviderConfigs <- MCProviderConfigs
  Enabled = TRUE
  Default = "firecrawl"
SPECIFICATION Spec
INVARIANT EveryToolCallAnswered
CHECK_DEADLOCK FALSE
