CONSTANTS
    t1 = t1
    c1 = c1
    Conns = {c1, c2}
    Tunnels = {t1}
    Opens = {o1, o2}
    None = None
    TunnelOf <- const_SharedTunnel
    MaxSessions = 2
    CommandCapacity = 1
    MaxVersion = 1
    Links = {k1, k2, k3}
    MaxLinks = 2
    Mishaps = 2
SPECIFICATION MCSpec
INVARIANTS RegistrySound LinkAgrees
PROPERTIES EnqueueAuthorized RegistryLive LinkRecovers
CHECK_DEADLOCK FALSE
