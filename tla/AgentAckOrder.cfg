SPECIFICATION Spec
CONSTANTS
    Streams <- const_OneStream
    Capacity = 2
    ControlCapacity = 2
    MaxBurst = 8
    AwaitAck = FALSE
    SeqModulus = 2
PROPERTIES
    OpenBeforeData
CHECK_DEADLOCK FALSE
