SPECIFICATION Spec
CONSTANTS
    MaxConn = 3
    Caller = {h1}
    Topic = {t1}
    Wild = Wild
    Pattern = {Wild}
    Call = {k1, k2}
    MaxInbox = 1
    MaxEvents = 2
    MaxRequests = 2
    MaxApprovals = 1
SYMMETRY Symmetry
INVARIANTS
    TypeOK
    TablesAgree
    ExecutionBacked

    
CHECK_DEADLOCK FALSE
