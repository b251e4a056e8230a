CONSTANTS
    Request = {q1, q2}
    MaxCases = 4
    MaxAttempts = 2
    MaxMishaps = 1
    ItemKind <- MCItemKind
    MaxCollected = 3
    MaxRounds = 3
    MinEvidence = 2
    MaxRequests = 2
    Group = {"g1", "g2"}
    Service = {"svc"}
    Hits <- MCHits
    Limit = 1
    MaxChanges = 2
    MaxLookups = 2
    Repo = {"r1", "r2"}
    Path = {"p1", "p2"}
    Alike <- MCAlike
    MaxMoves = 1
    Text <- MCText
    MaxLines = 3
    Margin = 1
    LinesBefore = 2
    LinesAfter = 1
    ByteLimit = 12
    LongExcerpt = 8
    LeastExcerpt = 2
    Floor = 1
    Mark = 1
    Small = 1
SPECIFICATION MCSliceSpec
INVARIANT FaultLineKept
CHECK_DEADLOCK FALSE
