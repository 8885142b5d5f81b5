SPECIFICATION Spec
CONSTANTS
    Name <- MCName
    LevelNumber <- MCLevelNumber
    LabelOf <- MCLabelOf
    Registries <- MCRegistries
    DomainNames <- MCDomainNames
    MaxFound = 2
INVARIANTS
    TypeOK
    FailureWritesNothing
    RelationshipsWellTyped
    LevelAsSaid
    EachIsTried
PROPERTY TrackedIsReal
