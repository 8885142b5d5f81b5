SPECIFICATION Spec
CONSTANTS
    MaxRuns = 1
    Capacity = 1
    NumAgents = 2
    NumLevels = 1
    MaxProgress = 0
    MayMiss = FALSE
INVARIANT FailureIsAnnounced
