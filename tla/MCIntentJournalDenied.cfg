SPECIFICATION Spec
CONSTANTS
    a = a
    s = s
    Absent = Absent
    Contents = {a, s}
    Canon <- Managed
    Tasks = {t1}
    MaxIds = 3
    MaxAttempts = 2
    MaxSubmissions = 1
    MaxResolutions = 0
    MaxFaults = 2
    MaxForeign = 0
    MaxAccessFlips = 1
    MaxMishaps = 3
INVARIANT RefusedIsNotApplied
CHECK_DEADLOCK FALSE
