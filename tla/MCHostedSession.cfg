SPECIFICATION Spec
CONSTANTS
    p1 = p1
    p2 = p2
    Procs = {p1, p2}
    NoProc = NoProc
    NoSession = NoSession
    NoToken = NoToken
    NoPending = NoPending
    MaxFaults = 2
    MaxCalls = 2
    MaxAges = 1
CHECK_DEADLOCK FALSE
INVARIANT ReuseOnlyAfterLoss
INVARIANT CacheNeverAhead
INVARIANT LogoutFinal
INVARIANT NoFamilyAdrift
PROPERTY GivenUpOnlyWhenDead
PROPERTY EventuallySignedIn
