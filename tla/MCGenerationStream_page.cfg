SPECIFICATION Spec
CONSTANTS
    MaxRuns = 2
    Capacity = 1
    NumAgents = 3
    NumLevels = 1
    MaxProgress = 1
    MayMiss = TRUE
INVARIANT TypeOK
INVARIANT OneStream
INVARIANT ProgressIsExact
INVARIANT CompletedIsReal
PROPERTY FollowsProtocol
