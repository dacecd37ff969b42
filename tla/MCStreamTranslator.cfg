CONSTANTS
  Texts <- MCTexts
  CallIds <- MCCallIds
  Names <- MCNames
  Args <- MCArgs
  ToolDeltas <- MCToolDeltas
  MaxToolDeltas = 1
  MaxLines = 4
SPECIFICATION Spec
INVARIANT TypeOK
INVARIANT EventsFollowLifecycle
INVARIANT TextDoneMatchesDeltas
CHECK_DEADLOCK FALSE
