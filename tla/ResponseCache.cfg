SPECIFICATION FairSpec
CONSTANTS
    Writer = {w1}
    Request = {r1, r2, r3}
    Third = r3
    User = {alice, bob}
    LargeUser = {bob}
    NoRequest = NoRequest
CONSTRAINT Bound
INVARIANTS
    BodylessGetIsExplained
    AcknowledgedWritesAreSeen
    AnswersStayPrivate
PROPERTIES
    EveryRequestEnds
CHECK_DEADLOCK FALSE
