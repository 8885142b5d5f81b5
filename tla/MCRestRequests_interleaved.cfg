SPECIFICATION Spec
CONSTANTS
    none = none
    None = none
    Scenarios <- MCScenarios
    SeedDomain <- MCSeedDomain
    SeedComponent <- MCSeedComponent
INVARIANTS
    TypeOK
    RequirementOnItsLevel
    UpdateReplaces
    ErrorAddsNothing
    UndisturbedIsComplete
    SignedUpCanLogIn
