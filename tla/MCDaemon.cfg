SPECIFICATION Spec
CONSTANTS
    Clients = {c1, c2}
    MaxWorkers = 2
    DownCap = 2
    MaxMedia = 2
INVARIANTS
    ConnectedMeansAgreed
    RefusedKnowsWhy
    OnlyAbortsKill
PROPERTY AcceptedIsServed
