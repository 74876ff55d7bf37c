SPECIFICATION Spec
CONSTANTS
    i1 = i1
    i2 = i2
    n1 = n1
    n2 = n2
    NoNode = NoNode
    Instance = {i1, i2}
    Node = {n1}
    InitialNodes = {n1}
    Namespace <- MCNamespace
    Labels <- MCLabels
    NodeAffinity <- MCAnyNode
    AntiAffinity <- MCRefuse
    Spread <- MCNoTerms
    MaxAttempts = 2
    MaxChurn = 0
    MaxRestarts = 0
INVARIANT AntiAffinityKept
CHECK_DEADLOCK FALSE
