SPECIFICATION Spec
CONSTANTS
    c1 = c1
    c2 = c2
    c3 = c3
    p1 = p1
    p2 = p2
    p3 = p3
    Claims = {c1, c2, c3}
    Procs = {p1, p2, p3}
    Proc <- MCProc
    Pid <- ReusedPid
    Host <- OneHost
    NoDir = NoDir
    NoRecord = NoRecord
    Garbled = Garbled
    ReadFaults = TRUE
    WriteFaults = TRUE
    ClockSteps = TRUE
    MaxRemovals = 0
INVARIANT MutualExclusion
INVARIANT HolderKeepsRecord
INVARIANT EvidenceOfTheDead
PROPERTY HonestDiagnosis
PROPERTY RollbackMovesOwn
PROPERTY ImplementsMutex
CHECK_DEADLOCK FALSE
