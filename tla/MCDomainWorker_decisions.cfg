SPECIFICATION Spec
CONSTANTS
    chess1 = chess1
    chess2 = chess2
    grit = grit
    title = title
    broken = broken
    tactics = tactics
    courage = courage
    w1 = w1
    w2 = w2
    Message = {chess1, chess2, title}
    Worker = {w1, w2}
    MaxReceives = 1
    BatchSize = 1
    Malformed = {}
    NodeTypeOf <- MCType
    NameOf <- MCName
    SuggestedLevel <- MCSuggested
    NoLevel = NoLevel
    Concept <- MCConcept
    Score <- MCScore
    GeneratedName <- MCOtherName
    Seed = {tactics}
    SeedNode <- MCSeedNode
    NoNode = NoNode
    Limit = 2
    Keyless = {}
SYMMETRY WorkerSymmetry
INVARIANT GeneralizationsWellTyped
PROPERTY ReuseIsJustified
PROPERTY DecisionIsCarriedOut
CHECK_DEADLOCK FALSE
