SPECIFICATION Spec
CONSTANTS
    LastId = 2
    MaxStreams = 1
    InboundCapacity = 1
    ControlCapacity = 1
    MaxBeat = 1
    AgentSends = {"open", "data"}
PROPERTIES TeardownCompletes
CHECK_DEADLOCK FALSE
