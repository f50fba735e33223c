SPECIFICATION Spec
CONSTANTS
    NumFrames = 4
    C2SCap = 2
    S2CCap = 3
    Faults = {"timeout", "stall", "idle", "drop", "reject", "reset", "crash", "ping", "error"}
    Inflight = 2
    EncoderDelay = 1
    EncoderCap = 2
    Reorder = FALSE
    MinTicks <- MCMinTicks
    Pts <- MCPtsRepeated
INVARIANTS
    TypeOK
    FlowControl
    InflightExact
    QueueEmptyWhenBlocked
    OneFrameResent
    PacketsInOrder
PROPERTIES
    SuccessMeansSent
    EncodesInOrder
