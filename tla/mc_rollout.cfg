SPECIFICATION FairSpec
CONSTANTS
  MaxInteractions = 2
  MaxSteps = 3
  Groups = 2
  N = 2
  MaxTry = 2
  WonRewards = {5}
CHECK_DEADLOCK FALSE
INVARIANTS GroupsUsable TargetMet
PROPERTIES Terminates EndsOnce
