SPECIFICATION Spec
CONSTANTS
    g1 = g1
    g2 = g2
    a1 = a1
    a2 = a2
    NIC = {n1, n2}
    Gateway = {g1}
    IP = {a1, a2}
    IPSets <- MCTwoIPs
    networkRef <- MCOneNetwork
    Ports = {2, 4}
    MinPort = 4
    MaxPort = 7
    NoGateway = NoGateway
    NoTable = NoTable
    MaxChurn = 1
    MaxFaults = 0
    MaxLag = 1
INVARIANTS
    UnservedReleased
SYMMETRY NICSymmetry
CHECK_DEADLOCK FALSE
