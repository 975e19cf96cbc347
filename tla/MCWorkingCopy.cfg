SPECIFICATION PullSpec
CONSTANTS
    a = a
    s = s
    Absent = Absent
    Contents = {a, s}
    Canon <- Managed
    r1 = r1
    r2 = r2
    t1 = t1
    Tasks = {t1}
    Realms = {r1, r2}
    MaxIds = 1
    MaxAttempts = 1
    MaxSubmissions = 1
    MaxResolutions = 0
    MaxFaults = 0
    MaxForeign = 2
    MaxAccessFlips = 0
    MaxPulls = 2
    PullMarkAttempts = 1
SYMMETRY RealmSymmetry
CONSTRAINT Sound
INVARIANT EditAccounted
INVARIANT DigestHonest
PROPERTY PullNeverBack
CHECK_DEADLOCK FALSE
