SPECIFICATION Spec
CONSTANTS
    a1 = a1
    a2 = a2
    Addr = {a1, a2}
    Owner = {c1, c2}
    LoadBalancer = {c1, c2}
    Server = {s1}
    Wants <- MCWants
    Ask = Ask
    Nil = Nil
    InitialIPs = {a1}
    MaxChurn = 2
    MaxFaults = 1
INVARIANTS
    ClaimTypeOK
    ClaimBacked
    ClaimsUsed
    FreeLooksFree
PROPERTIES
    ReleasesOwn
SYMMETRY OwnerSymmetry
CHECK_DEADLOCK FALSE
