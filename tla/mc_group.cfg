SPECIFICATION FairSpec
CONSTANTS
  NodeCount = 2
  PerNode = 2
  Deployments <- MCDeployments
  MaxRows = 5
  MaxCalls = 1
INVARIANTS CallsFindTheGroup RowsComeBack
PROPERTIES CallsEnd
CHECK_DEADLOCK FALSE
