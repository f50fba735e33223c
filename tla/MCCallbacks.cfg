SPECIFICATION Spec
CONSTANTS
    MinTicks <- MCMinTicks
    NumSamples = 3
    Timings <- MCAnyTimings
    MaxRunning = 3
INVARIANTS
    TypeOK
    DoneIsLast
    WireInOutputOrder
PROPERTY SerialTracker
