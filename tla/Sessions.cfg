SPECIFICATION Spec
CONSTANTS
    Login = {l1, l2}
    Registration = {r1, r2}
    Authentication = {a1, a2}
    Authorization = {z1}
    Logout = {o1, o2}
    Token = {t1, t2}
    NoAccount = NoAccount
    NoToken = NoToken
    SessionTTL = 2
    Precision = 2
    Second = 2
    MaxTokenAttempts = 2
    MaxTime = 2
INVARIANTS
    NothingIsTakenOver
    LoggedOutStaysOut
    OneLogoutSucceeds
    TokenLastsItsTime
SYMMETRY Symmetry
CHECK_DEADLOCK FALSE
