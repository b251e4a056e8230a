SPECIFICATION FairSpec
CONSTANTS
    Jobs = {j1}
    Schedulers = {s1}
    Manuals = {}
    Admins = {a1}
    NoRow = NoRow
    NextFire <- MCNextFire
    Backoff <- MCBackoff
    FirePeriod = 2
    MaxAttempts = 2
    MaxConcurrentRuns = 1
    StaleAfter = 2
    GuardWindow = 1
    RunImmediately = TRUE
    MaxTime = 3
    MaxFaults = 1
PROPERTIES
    
    DisabledJobSettles
