SPECIFICATION Spec
CONSTANTS
    o1 = o1
    o2 = o2
    o3 = o3
    Ops = {o1, o2, o3}
    Need <- MCNeed
    NoOp = NoOp
    NoFile = NoFile
    Torn = Torn
    EntryWithFile = TRUE
    ReadOnlyToo = TRUE
    CompactAfter = 1
    MaxFaults = 2
    MaxCrashes = 2
INVARIANT StoreInv
INVARIANT ResolvedSurvives
INVARIANT RefusedLeavesNothing
INVARIANT IndexMatchesFiles
PROPERTY ImplementsStore
