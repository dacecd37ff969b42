CONSTANTS
  Replies <- MCReplies
  ProviderConfigs <- MCProviderConfigs
  Enabled = TRUE
  Default = "firecrawl"
SPECIFICATION Spec
INVARIANT StreamedItemsMatchCompleted
CHECK_DEADLOCK FALSE
