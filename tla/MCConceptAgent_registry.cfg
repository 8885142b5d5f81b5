SPECIFICATION Spec
CONSTANTS
    t1 = t1
    t2 = t2
    Task = {t1, t2}
    Agents <- MCAgents
    Name <- MCName
    NoName = NoName
    Score <- MCScore
    GeneratedName <- MCGeneratedName
    MaxConcepts = 2
    SeedNode <- MCSeedNode
SYMMETRY TaskSymmetry
INVARIANT RegistryIsReal
CHECK_DEADLOCK FALSE
