SPECIFICATION Spec
CONSTANTS
    Upload = {u1, u2}
INVARIANTS
    PublishedBlobIsWhole
    CommittedBlobIsThere
    DrainedExitOwesNothing
    PoolOutlivesItsUsers
PROPERTIES
    ShutdownEnds
CHECK_DEADLOCK FALSE
