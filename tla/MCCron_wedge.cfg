SPECIFICATION FairSpec
CONSTANTS
    Jobs = {j1}
    Schedulers = {s1}
    Manuals = {}
    Admins = {a1}
    NoRow = NoRow
    NextFire <- MCNextFire
    Backoff <- MCBackoff
    FirePeriod = 2
    MaxAttempts = 2
    MaxConcurrentRuns = 1
    StaleAfter = 1
    GuardWindow = 1
    RunImmediately = TRUE
    MaxTime = 2
    MaxFaults = 0
PROPERTY RefusedJobRunsLater
