SPECIFICATION Spec
CONSTANTS
    MinTicks <- MCMinTicks
    Ticks <- MCTicks
    Workloads = {"any", "display", "decode"}
    MaxSamples = 4
INVARIANTS
    TypeOK
    DtsAtMostPts
    EveryPtsEmitted
    DisplayOrderKeepsDts
    ValidDecodeOrderUntouched
CHECK_DEADLOCK FALSE
