SPECIFICATION FairSpec
CONSTANTS
    NumFrames = 4
    C2SCap = 2
    S2CCap = 3
    Faults = {"timeout", "stall", "idle", "drop", "reset", "crash", "ping", "error"}
    MaxDrainErrors = 1
    MaxPings = 1
INVARIANTS
    TypeOK
    DoneMeansDrained
    CompleteAtEnd
PROPERTIES
    DecodesInOrder
    SessionEnds
