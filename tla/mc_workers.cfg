SPECIFICATION WorkerSpec
CONSTANTS
  GenerationGroups = {0, 1}
  MaxUpdates = 2
  MaxGenerations = 3
  MaxRestarts = 1
INVARIANTS GeneratesWithLatest TurnsKeptApart
CHECK_DEADLOCK FALSE
