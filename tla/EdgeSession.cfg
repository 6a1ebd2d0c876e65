SPECIFICATION MCSpec
CONSTANTS
    LastId = 2
    MaxStreams = 1
    InboundCapacity = 1
    ControlCapacity = 1
    MaxBeat = 2
    AgentSends = {"open", "data", "end", "reset"}
INVARIANT SessionSound
PROPERTY SessionEnds
CHECK_DEADLOCK FALSE
