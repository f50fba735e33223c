SPECIFICATION FairSpec
CONSTANTS
    NumFrames = 5
    C2SCap = 2
    S2CCap = 3
    Faults = {}
    Inflight = 4
    EncoderDelay = 1
    EncoderCap = 2
    Reorder = TRUE
    MinTicks <- MCMinTicks
    Pts <- MCPtsRepeated
INVARIANT
    DoneMeansComplete
PROPERTIES
    CallsReturn
    SessionEnds
