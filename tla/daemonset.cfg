SPECIFICATION Spec
CONSTANTS
    n1 = n1
    Node = {n1}
    Label = {"a", "b"}
    Inst = {1, 2}
    Specs <- MCSpecs
    Nil = Nil
    InitialSpec <- MCWide
    InitialNodes <- MCNodes
    MaxChurn = 1
    MaxFaults = 1
    MaxLag = 2
INVARIANTS
    DSTypeOK
    SatisfiedMeansSeen
    OnePerNode
PROPERTIES
    DedupeKeepsOne
    Settles
CHECK_DEADLOCK FALSE
