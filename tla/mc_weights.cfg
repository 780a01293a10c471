\* See README.md: the "weights" run.
SPECIFICATION Spec
CONSTANTS
    Models <- MCModels
    MaxCrashes = 1
INVARIANT EveryRankHasItsPart
INVARIANT EngineGetsTheModel
INVARIANT SavedModelIsTheModel
