SPECIFICATION FairSpec
CONSTANTS
    Servers = {s1, s2}
    Runs = {r1, r2}
    r1 = r1
    r2 = r2
    token = token
    Keys = {token}
    RunKeys <- MCRunKeys
    Nobody = nobody
    Loader = loader
    MaxCalls = 1
    MaxEdits = 1
    MaxFaults = 1
INVARIANTS
    TypeOK
    ProcessesCurrent
    ResultIsOwn
    OverlayContained
PROPERTIES
    RunsEnd
CHECK_DEADLOCK FALSE
