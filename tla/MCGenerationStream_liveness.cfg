SPECIFICATION FairSpec
CONSTANTS
    MaxRuns = 1
    Capacity = 2
    NumAgents = 3
    NumLevels = 2
    MaxProgress = 1
    MayMiss = FALSE
PROPERTY TaskEnds
PROPERTY StreamEnds
PROPERTY FailureIsShown
