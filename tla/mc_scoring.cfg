CONSTANTS
  Rows = {1, 2}
  NumCases = 3
  Replies <- MCReplies
  MaxConcurrent = 2
  Considered = 2
  Processes = 2
  MaxBatches = 2
SPECIFICATION ScoringSpec
INVARIANTS ScoreOfItsCases PermitsReturned
PROPERTIES EveryBatchScored
CHECK_DEADLOCK FALSE
