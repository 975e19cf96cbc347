SPECIFICATION Spec
CONSTANTS
    update = update
    remove = remove
    a = a
    b = b
    k1 = k1
    Absent = Absent
    Writes = {update}
    Keys = {k1}
    Key <- OneKey
    Contents = {a, b, c}
    Base <- MCBase
    Local <- MCLocal
    Invalid = {}
    TellsPending = TRUE
    ServerFaults = TRUE
    MaxCalls = 2
    MaxSubmissions = 2
    MaxLookups = 2
    MaxForgets = 1
    MaxEdits = 1
    MaxAuthFlips = 1
INVARIANT WriteInv
INVARIANT AppliedOncePerRecord
INVARIANT CommittedIsReal
INVARIANT SettledStaysSettled
CHECK_DEADLOCK FALSE
