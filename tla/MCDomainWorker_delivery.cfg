SPECIFICATION FairSpec
CONSTANTS
    chess1 = chess1
    chess2 = chess2
    grit = grit
    title = title
    broken = broken
    tactics = tactics
    courage = courage
    w1 = w1
    w2 = w2
    Message = {grit, broken}
    Worker = {w1, w2}
    MaxReceives = 2
    BatchSize = 2
    Malformed = {broken}
    NodeTypeOf <- MCType
    NameOf <- MCName
    SuggestedLevel <- MCSuggested
    NoLevel = NoLevel
    Concept <- MCConcept
    Score <- MCScore
    GeneratedName <- MCSameName
    Seed = {courage, tactics}
    SeedNode <- MCSeedNode
    NoNode = NoNode
    Limit = 2
    Keyless = {w2}
INVARIANT TypeOK
INVARIANT AckedIsSettled
INVARIANT SuccessIsLinked
INVARIANT NoDuplicateNodes
INVARIANT GeneralizationsWellTyped
PROPERTY EveryJobDrains
PROPERTY KeepsQueuePromise
CHECK_DEADLOCK FALSE
