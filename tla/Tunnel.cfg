SPECIFICATION MCSpec
CONSTANTS
    r1 = r1
    c1 = c1
    Routes = {r1, r2}
    SessionRoutes = {r1}
    PublicRoutes = {r2}
    Conns = {c1, c2}
    Peers = {p1}
    LastRouteId = 2
    MaxRoutes = 1
    MaxConns = 2
    MaxPerIp = 1
    Ids = {1, 2}
    MaxStreams = 1
    InboundCapacity = 1
    ControlCapacity = 1
    HeaderSize = 2
    MaxPayload = 2
    MaxFrames = 2
INVARIANTS
    IngressSound
    AgentStreamsSound
    DecodeExact
PROPERTIES
    IngressLive
    AgentSessionEnds
CHECK_DEADLOCK FALSE
