CONSTANTS
    UID = {u1, u2}
    Name = {n1}
    First = 1
    Last = 2
    FullWidth = 0
    Top = 9
    NoUID = NoUID
    CacheSize = 1
    MaxFaults = 0
SPECIFICATION GCSpec
INVARIANT VacantMeansUnused
CHECK_DEADLOCK FALSE
