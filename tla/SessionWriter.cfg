SPECIFICATION Spec
CONSTANTS
    Streams <- const_Streams
    Capacity = 3
    ControlCapacity = 1
    MaxBurst = 1
    AwaitAck = TRUE
    SeqModulus = 2
INVARIANTS
    QueueServes
PROPERTIES
    OpenBeforeData
    ImplementsRelay
CHECK_DEADLOCK FALSE
