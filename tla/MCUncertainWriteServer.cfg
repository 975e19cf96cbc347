SPECIFICATION FairSpec
CONSTANTS
    update = update
    remove = remove
    a = a
    b = b
    k1 = k1
    Absent = Absent
    Writes = {update, remove}
    Keys = {k1}
    Key <- OneKey
    Contents = {a, b}
    Base <- MCBase
    Local <- MCLocal
    Invalid = {remove}
    TellsPending = FALSE
    ServerFaults = TRUE
    MaxCalls = 1
    MaxSubmissions = 2
    MaxLookups = 1
    MaxForgets = 1
    MaxEdits = 0
    MaxAuthFlips = 0
INVARIANT OneAnswer
INVARIANT WaitersHaveClaimant
PROPERTY WaiterAnswered
CHECK_DEADLOCK FALSE
