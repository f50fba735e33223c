SPECIFICATION Spec
CONSTANTS
    InitialCapacity = 2
    NumFrames = 4
    MaxRunning = 2
INVARIANTS
    RingIsQueue
    CrashExplained
    NeverUnderestimates
