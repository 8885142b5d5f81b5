SPECIFICATION Spec
CONSTANTS
    chess1 = chess1
    chess2 = chess2
    grit = grit
    title = title
    broken = broken
    tactics = tactics
    courage = courage
    w1 = w1
    w2 = w2
    Message = {chess1}
    Worker = {w1}
    MaxReceives = 2
    BatchSize = 1
    Malformed = {}
    NodeTypeOf <- MCType
    NameOf <- MCName
    SuggestedLevel <- MCSuggested
    NoLevel = NoLevel
    Concept <- MCConcept
    Score <- MCScore
    GeneratedName <- MCSameName
    Seed = {tactics}
    SeedNode <- MCSeedNode
    NoNode = NoNode
    Limit = 3
    Keyless = {}
INVARIANT DroppedGoesToDLQ
CHECK_DEADLOCK FALSE
