SPECIFICATION RoleSpec
CONSTANTS
    c1 = c1
    c2 = c2
    c3 = c3
    p1 = p1
    p2 = p2
    p3 = p3
    Claims = {c1, c2, c3}
    Procs = {p1, p2, p3}
    Proc <- MCProc
    Pid <- MCPid
    Host <- MCHost
    IfAvailable <- MCIfAvailable
    NoDir = NoDir
    NoRecord = NoRecord
    Garbled = Garbled
    ReadFaults = FALSE
    WriteFaults = FALSE
    ClockSteps = FALSE
    SubSecond = FALSE
    MaxRemovals = 0
INVARIANT RestartReclaims
INVARIANT DeadHolderNeverSkipped
PROPERTY BlamedHolderIsDead
PROPERTY RequestSettles
CHECK_DEADLOCK FALSE
