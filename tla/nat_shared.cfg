SPECIFICATION Spec
CONSTANTS
    g1 = g1
    g2 = g2
    a1 = a1
    a2 = a2
    NIC = {n1}
    Gateway = {g1, g2}
    IP = {a1, a2}
    IPSets <- MCOneIP
    networkRef <- MCOneNetwork
    Ports = {2}
    MinPort = 4
    MaxPort = 7
    NoGateway = NoGateway
    NoTable = NoTable
    MaxChurn = 1
    MaxFaults = 1
    MaxLag = 1
INVARIANTS
    TablesSettle
PROPERTIES
    ClaimsNotStolen
    CalmsDown
CHECK_DEADLOCK FALSE
