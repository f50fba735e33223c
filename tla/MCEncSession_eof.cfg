SPECIFICATION Spec
CONSTANTS
    NumFrames = 4
    C2SCap = 4
    S2CCap = 4
    Faults = {}
    Inflight = 4
    EncoderDelay = 1
    EncoderCap = 2
    Reorder = FALSE
    MinTicks <- MCMinTicks
    Pts <- MCPts
INVARIANT QueuedPacketsReturned
