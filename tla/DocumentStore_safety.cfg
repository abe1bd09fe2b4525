SPECIFICATION Spec
CONSTANTS
    Document = {f1, j}
    File = {f1}
    Deleter = {c1, c2}
    Reader = {r1}
    Worker = {w1, w2}
    BatchSize = 2
    AmbiguousCommit = TRUE
    MaxCrashes = 2
    NoDocument = NoDocument
SYMMETRY Symmetry
INVARIANTS
    AcknowledgedUploadIsDurable
    DeletedBlobHasTask
    AcknowledgedDeleteIsFinal
    BrokenReadIsExplained
PROPERTIES
    RemovalFollowsDeletion
CHECK_DEADLOCK FALSE
