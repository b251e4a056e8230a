SPECIFICATION Spec
CONSTANTS
    Repo = {r1}
    Scheduler = {s1}
    Handler = {h1}
    Admin = admin
    NoRepo = NoRepo
    Jobs <- MCJobs
    MaxCommit = 2
    MaxFaults = 1
    MaxRequests = 1
    MaxRenames = 1
INVARIANTS
    TypeOK
    IndexesHonest
PROPERTIES
    RefinesMirror
    
CHECK_DEADLOCK FALSE
