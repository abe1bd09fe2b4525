SPECIFICATION Spec
CONSTANTS
    MaxWrites = 2
INVARIANTS
    PanicIsReported
CHECK_DEADLOCK FALSE
