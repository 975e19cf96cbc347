SPECIFICATION Spec
CONSTANTS
    c1 = c1
    c2 = c2
    c3 = c3
    p1 = p1
    p2 = p2
    p3 = p3
    Claims = {c1, c2, c3}
    Procs = {p1, p2, p3}
    Proc <- OneProc
    Pid <- ReusedPid
    Host <- TwoHosts
    NoDir = NoDir
    NoRecord = NoRecord
    Garbled = Garbled
    ReadFaults = FALSE
    WriteFaults = FALSE
    ClockSteps = FALSE
    MaxRemovals = 1
INVARIANT LockInv
CHECK_DEADLOCK FALSE
