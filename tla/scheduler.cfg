SPECIFICATION Spec
CONSTANTS
    i1 = i1
    i2 = i2
    n1 = n1
    n2 = n2
    NoNode = NoNode
    Instance = {i1}
    Node = {n1, n2}
    InitialNodes = {n1}
    Namespace <- MCNamespace
    Labels <- MCLabels
    NodeAffinity <- MCAnyNode
    AntiAffinity <- MCNoTerms
    Spread <- MCNoTerms
    MaxAttempts = 2
    MaxChurn = 1
    MaxRestarts = 1
INVARIANTS
    SchedulerTypeOK
    NeverCorrupted
    CacheConsistent
    CacheSettles
PROPERTY ScheduledUnlessFailed
CHECK_DEADLOCK FALSE
