SPECIFICATION Spec
CONSTANTS
    NumFrames = 4
    KeyAsked <- MCKeyAsked
    EncoderCap = 3
    MaxCallbacks = 3
    Faults = {"nobuffer", "slow", "blank", "error"}
INVARIANTS
    BlankNeverSent
    KeysAskedPlusOne
    DecodableFromStart
    EveryFrameHasPacket
