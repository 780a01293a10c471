SPECIFICATION VSpec
CONSTANTS
  Ranks = {r1, r2}
  UseCritic = TRUE
  KeepActor = 2
  KeepCritic = 2
  ResumeModes = {"auto"}
  SaveFreq = 2
  TotalSteps = 5
  TotalEpochs = 2
  BatchesPerEpoch = 3
  CriticWarmup = 2
  MaxRuns = 3
  TrainSize = 7
  TrainBatchSize = 2
  TotalTrainingSteps = 5
  ValSize = 3
  ValBatchSize = 2
  GroupSize = 2
  TestFreq = 3
  ValBefore = TRUE
  ValOnly = {TRUE, FALSE}
  MaxSteps = 2
CHECK_DEADLOCK FALSE
INVARIANTS Recoverable NothingLost Validated
PROPERTIES Durable
