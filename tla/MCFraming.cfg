SPECIFICATION Spec
CONSTANTS
    Payload <- MCPayload
    Garbage = {1, 3, 20}
    MaxReports = 3
INVARIANTS
    AcceptedAreSent
    LossIsReported
    WaitsForOwedBytes
PROPERTY ReaderEnds
