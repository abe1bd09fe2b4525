SPECIFICATION RepositorySpec
CONSTANTS
    Runs = {r1, r2, r3}
    Latest = 2
    NoRun = NoRun
    User = {u1, u2}
    FirstUser = u1
    UnknownLogin = {ghost}
    ghost = ghost
    Id = {1, 2}
    Name = {"i1", "true"}
    Rank <- MCRank
    CreationTime = {1, 2}
    TicksPerSecond = 2
    Value = {"i1", "I1", "i2", "second1", "tick3", "true", "false"}
    IdOf <- MCIdOf
    TimeOf <- MCTimeOf
    MaxListLimit = 1
    NoLogin = NoLogin
    NoKey = NoKey
    NoValue = NoValue
    NotOne = NotOne
    NoEntry = NoEntry
    NoRequest = NoRequest
INVARIANTS
    LedgerTellsTheSchema
    NoScriptMeetsItsOwnChanges
    SuccessMeansMigrated
    AnswerIsOwnList
    ListAgreesWithRead
PROPERTIES
    LockIsReleased
