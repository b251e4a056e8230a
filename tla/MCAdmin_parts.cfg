CONSTANTS
    Worker = {w1, w2}
    Repo = {repo}
    Remote = {remote}
    Service = {kept, service}
    Key = {key}
    Provider = {provider}
    BuiltinProvider = {mimo}
    Anchor = kept
    Job = {sync, job}
    BuiltinJob = {sync}
    MaxHandlers = 3
    Browser = {b1, b2}
    UserName = {n1, n2}
    Password = {p1}
    MaxUsers = 3
    MaxSessions = 3
    Server = {s1, s2}
    Title = {t1, t2}
    Command = {c1, c2}
    Editor = {e1}
    PoolThread = {d1, d2}
    MaxJobs = 3
    Process = {admin, api}
    External = {ext}
    MaxChanges = 4
    ChannelEditor = {e1, e2}
    ChannelName = {c1, c2}
    MaxChannels = 3
    MaxTemplates = 1
    MaxEdits = 3
    MaxNotices = 1
    Chatter = {t1, t2}
    MaxChats = 3
    MaxFlaws = 1
SPECIFICATION MCSpec
INVARIANTS
    TypeOK
    AccessGuarded
    DiscoveryHonest
    PlaybookAvailable
    
    
PROPERTIES
    DocumentCoherent
CHECK_DEADLOCK FALSE
