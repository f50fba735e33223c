SPECIFICATION Spec
CONSTANTS
    NumFrames = 3
    C2SCap = 2
    S2CCap = 3
    Faults = {}
    Inflight = 2
    EncoderDelay = 0
    EncoderCap = 1
    Reorder = FALSE
    MinTicks <- MCMinTicks
    Pts <- MCPts
INVARIANT PendingFrameUnsent
