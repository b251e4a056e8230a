SPECIFICATION Spec
CONSTANTS
    Ids <- MCIds
    Plans <- MCPlans
    MaxAttempts = 2
    MaxConcurrency = 2
INVARIANTS
    TypeOK
    StepsJustified
    StoredVerdictHonest
PROPERTIES
    RunEnds
    LifecycleKept
CHECK_DEADLOCK FALSE
