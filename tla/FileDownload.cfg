SPECIFICATION FairSpec
CONSTANTS
    Request = {r1, r2}
    Chunks = 2
    Lengths = {1, 2, 3}
CONSTRAINT Bound
INVARIANTS
    BodiesAreWhole
    NothingIsLeftOpen
    DeletedStaysDeleted
PROPERTIES
    DownloadEnds
CHECK_DEADLOCK FALSE
