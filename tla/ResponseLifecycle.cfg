SPECIFICATION FairSpec
CONSTANTS
    MaxWrites = 3
INVARIANTS
    TypeOK
    WireIsOneResponse
    ReportIsTrue
PROPERTIES
    NoWriteAfterEnd
    RequestEnds
CHECK_DEADLOCK FALSE
