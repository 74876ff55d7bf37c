SPECIFICATION ScaledSpec
CONSTANTS
    g1 = g1
    a1 = a1
    a2 = a2
    NIC = {n1, n2}
    Gateway = {g1}
    IP = {a1, a2}
    IPSets <- MCOneIP
    networkRef <- MCOneNetwork
    Ports = {2, 4}
    MinPort = 4
    MaxPort = 7
    NoGateway = NoGateway
    NoTable = NoTable
    MinIPs = 0
    MaxIPs = 2
    MaxChurn = 1
    MaxFaults = 0
    MaxLag = 1
INVARIANTS
    NATTypeOK
    SectionsDisjoint
    TablesSettle
    ScaledToRequests
PROPERTIES
    AllocationsStay
SYMMETRY NICSymmetry
CHECK_DEADLOCK FALSE
