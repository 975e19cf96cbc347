SPECIFICATION Spec
CONSTANTS
    a = a
    s = s
    Absent = Absent
    Contents = {a, s}
    Canon <- Managed
    t1 = t1
    t2 = t2
    Tasks = {t1, t2}
    MaxIds = 3
    MaxAttempts = 2
    MaxSubmissions = 1
    MaxResolutions = 1
    MaxFaults = 2
    MaxForeign = 1
    MaxAccessFlips = 1
    MaxMishaps = 2
SYMMETRY TaskSymmetry
CONSTRAINT Sound
INVARIANT EditAccounted NoSelfConflict DeliveredInOrder RetiredNeverCommits
CHECK_DEADLOCK FALSE
