SPECIFICATION Spec
CONSTANTS
    NumFrames = 4
    C2SCap = 1
    S2CCap = 1
    Faults = {"timeout", "stall"}
    MaxDrainErrors = 1
    MaxPings = 1
INVARIANT
    NeverAborts
