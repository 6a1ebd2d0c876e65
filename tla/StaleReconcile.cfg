CONSTANTS
    t1 = t1
    c1 = c1
    Conns = {c1}
    Tunnels = {t1}
    Opens = {}
    None = None
    TunnelOf <- const_SharedTunnel
    MaxSessions = 1
    CommandCapacity = 1
    MaxVersion = 2
    Links = {k1}
    MaxLinks = 1
    Mishaps = 0
SPECIFICATION MCSpec
PROPERTIES
    NoRollback
CHECK_DEADLOCK FALSE
