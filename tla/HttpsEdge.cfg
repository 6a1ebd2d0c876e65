SPECIFICATION MCSpec
CONSTANTS
    Peers = {p1, p2}
    Threads = {t1, t2}
    Scale = 2
    GlobalRate = 2
    GlobalBurst = 2
    PeerRate = 1
    PeerBurst = 1
    MaxTrackedIps = 1
    CleanupBatch = 1
    IdleTtls = {4}
    MaxWait = 1
    MaxClock = 5
    MaxAdmitted = 3
    MaxAccepts = 2
    MaxArrivals = 2
    PeerIps = {a1}
    MaxConnections = 2
    MaxPerIp = 1
    MaxRequests = 2
    MaxStreams = 2
    SessionLimit = 1
    HistoryCapacity = 1
    MaxChanges = 2
    Hostnames = {h1, h2}
    MaxKeys = 2
    MaxTtl = 2
    Skew = 1
    MaxTime = 3
    MaxGen = 2
    MaxWrites = 3
INVARIANTS
    SessionsExact
    RequestsAccounted
    RateLimitSound
    AcceptedSound
    AccessSound
PROPERTIES
    ShutdownReleases
    RingFollows
CHECK_DEADLOCK FALSE
