SPECIFICATION Spec
CONSTANTS
    Writer = {}
    Request = {r1, r2, r3}
    Third = r3
    User = {bob}
    LargeUser = {bob}
    NoRequest = NoRequest
INVARIANTS
    NoBodylessGet
CHECK_DEADLOCK FALSE
