CONSTANTS
    UID = {u1, u2, u3}
    Name = {n1, n2}
    First = 1
    Last = 2
    FullWidth = 2
    Top = 9
    NoUID = NoUID
SPECIFICATION Spec
INVARIANT TypeOK
INVARIANT AddressesUnique
INVARIANT HeldByClaimer
INVARIANT StoreAgrees
INVARIANT FullMeansAllTried
PROPERTY ReleasesOnlyOwn
PROPERTY RequestsAnswered
PROPERTY ImplementsAssignment
CHECK_DEADLOCK FALSE
