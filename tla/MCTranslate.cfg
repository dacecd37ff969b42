CONSTANTS
  Requests <- MCRequests
  ModelMapping <- MCModelMapping
SPECIFICATION Spec
INVARIANTS TypeOK ContentWellFormed MessagesFollowSpec
CHECK_DEADLOCK FALSE
