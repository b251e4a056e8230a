SPECIFICATION FairSpec
CONSTANTS
    Tasks = {t1, t2}
    Workers = {w1}
    Submitters = {s1, s2}
    SeedDemo = TRUE
    NoTask = NoTask
    MaxFaults = 2
INVARIANTS
    TypeOK
    

    
CHECK_DEADLOCK FALSE
