SPECIFICATION EvaluationSpec
CONSTANTS
  MaxInteractions = 5
  MaxSteps = 6
  MaxRetrieve = 2
  MaxStray = 3
  UseSac = TRUE
  ImageIdx = {1, 2}
  ObjNames = {"o1", "o2"}
  GridMax = 1
  ViewIdx = {1, 2, 3, 12}
  GtAnswer = "A"
  Answers = {"A", "B"}
  Codes <- MCCodes
  Responses <- MCResponses
  GtObjects <- MCGtObjects
  GtViews <- MCGtViews
  Question <- MCQuestion
CHECK_DEADLOCK FALSE
INVARIANTS ReportsRight WonByAnsweringNow ObeyingSucceeds WinsCount
PROPERTIES CallsKeepTheMap IsWorker
