SPECIFICATION Spec
CONSTANTS
    u1 = u1
    u2 = u2
    p1 = p1
    p2 = p2
    v1 = v1
    v2 = v2
    v3 = v3
    Net = {u1}
    Partition = {p1}
    ID = {v1, v2}
    FirstIDs = {v1}
    Nil = Nil
    MaxCreates = 2
    MaxFaults = 1
INVARIANTS
    NetworkTypeOK
    IDHeldWhileUsed
    ProviderCurrent
PROPERTIES
    Converges
CHECK_DEADLOCK FALSE
