CONSTANTS
    a = a
    b = b
    Clients <- TwoClients
    Rate = 2
    Window = 3
    MaxTime = 8
SPECIFICATION Spec
SYMMETRY Symmetry
INVARIANTS
    TypeOK
    BurstBound
PROPERTIES
    IsTokenBucket
