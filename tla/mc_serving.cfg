SPECIFICATION ServingSpec
CONSTANTS
  Dp = 3
  Tp = 1
  PerNode = 2
  Ports = {1, 2, 3}
  MaxTaken = 1
  Servers = {1, 2, 3}
  Sessions = {s1, s2, s3}
  MaxCache = 2
  MaxRequests = 5
INVARIANTS EveryRankServed LiveSessionsRoutable
PROPERTIES Starts SessionsStay
CHECK_DEADLOCK FALSE
