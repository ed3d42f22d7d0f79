CONSTANTS
    Texts <- All
    MaxUint = 20
    MaxListed = 3
SPECIFICATION Spec
INVARIANTS
    TypeOK
    ListedByPrecedence
    TiesByArrival
    AcceptsSemVer
