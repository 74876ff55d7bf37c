CONSTANTS
    UID = {u1, u2}
    Name = {n1}
    First = 1
    Last = 2
    FullWidth = 1
    Top = 2
    NoUID = NoUID
    CacheSize = 1
    MaxFaults = 1
SPECIFICATION GCSpec
INVARIANT GCTypeOK
INVARIANT UntouchedHeld
PROPERTY SettledStays
PROPERTY LeaksCollected
CHECK_DEADLOCK FALSE
