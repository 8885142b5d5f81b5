SPECIFICATION AsyncSpec
CONSTANTS
    chess1 = chess1
    chess2 = chess2
    grit = grit
    title = title
    broken = broken
    tactics = tactics
    courage = courage
    w1 = w1
    w2 = w2
    Message = {chess1, chess2}
    Worker = {w1, w2}
    MaxReceives = 1
    BatchSize = 2
    Malformed = {}
    NodeTypeOf <- MCType
    NameOf <- MCName
    SuggestedLevel <- MCSuggested
    NoLevel = NoLevel
    Concept <- MCConcept
    Score <- MCScore
    GeneratedName <- MCOtherName
    Seed = {tactics}
    SeedNode <- MCSeedNode
    NoNode = NoNode
    Limit = 3
    Keyless = {}
SYMMETRY WorkerSymmetry
INVARIANTS
    AsyncTypeOK
    SuccessIsLinked
    GeneralizationsAcyclic
    RequirementsReachable
    EveryJobIsAccountedFor
CHECK_DEADLOCK FALSE
