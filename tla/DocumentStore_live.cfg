SPECIFICATION FairSpec
CONSTANTS
    Document = {f1, f2}
    File = {f1, f2}
    Deleter = {c1, c2}
    Reader = {}
    Worker = {w1}
    BatchSize = 1
    AmbiguousCommit = FALSE
    MaxCrashes = 1
    NoDocument = NoDocument
PROPERTIES
    ImplementsLifecycle
CHECK_DEADLOCK FALSE
