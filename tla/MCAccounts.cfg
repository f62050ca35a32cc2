CONSTANTS
    MaxRequests = 3
    MaxActive = 2
    NoValue = NoValue
    NoCache = NoCache
    u1 = u1
    u2 = u2
    Users <- MCUsers
    WithMail = {u1}
    Polls = {q}
    Callers = {h}
    MaxDirFaults = 1
    MaxDeletes = 1
    Idle = Idle
SPECIFICATION MCSpec
INVARIANTS AllTypesOK AttributesKept PasswordUsable ProfileReadsFresh EnsuredOnce OnboardedWhole
PROPERTY EveryoneReached
CHECK_DEADLOCK FALSE
