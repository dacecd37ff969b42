CONSTANTS
  Texts <- MCTexts
  CallIds <- MCCallIds
  Names <- MCNames
  Args <- MCArgs
  ToolDeltas <- MCToolDeltas
  MaxToolDeltas = 1
  MaxLines = 4
SPECIFICATION Spec
INVARIANT ArgumentsConcatenated
CHECK_DEADLOCK FALSE
