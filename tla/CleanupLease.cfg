SPECIFICATION Spec
CONSTANTS
    Worker = {w1, w2}
    Task = {k1, k2}
    BatchSizes = {2, 4}
    PollInterval = 1
    OperationTimeout = 1
    InitialBackoff = 1
    MaxBackoff = 3
    MaxDuration = 3
    MaxSkew = 1
    MaxAttempts = 3
    MaxStops = 1
    NoTask = NoTask
SYMMETRY Symmetry
INVARIANTS
    SharedTaskIsExplained
PROPERTIES
    RetriesBackOff
