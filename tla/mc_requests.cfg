CONSTANTS
  Calls <- MCCalls
  NumWorkers = 2
  RateLimit = 1
  Retries <- MCRetries
  Rows = {1, 2}
  MaxTurns = 2
  PromptLength = 2
  ResponseLength = 8
  ModelLength = 11
  Merge = TRUE
  AskLengths = {1, 2}
  Words = {1}
  ToolWords = {1, 3}
  MaxCalls <- MCMaxCalls
  Grants <- MCGrants
  Limiters <- MCLimiters
  MaxBatches = 2
SPECIFICATION Spec
INVARIANTS ToolsComeBack RowsComeOutRight
PROPERTIES BatchEnds
CHECK_DEADLOCK FALSE
