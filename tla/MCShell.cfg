SPECIFICATION Spec
CONSTANTS
  Lines <- MCLines
  MaxTokens = 4
  MAXARGS = 3
  Slot = {1, 2, 3, 4, 5, 6}
  Sh = 1
  NOFILE = 8
INVARIANT ParserAgrees
INVARIANT WiredAsWritten
INVARIANT InOrder
PROPERTY PromptReturns
CHECK_DEADLOCK FALSE
