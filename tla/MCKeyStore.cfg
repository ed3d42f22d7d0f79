CONSTANTS
    k1 = k1
    k2 = k2
    r1 = r1
    r2 = r2
    Main = Main
    Missing = Missing
    Keys <- OneKey
    Requests <- TwoRequests
    Configs <- TwoConfigs
    DefaultConfig <- Default
    MaxTime = 2
SPECIFICATION Spec
SYMMETRY Symmetry
INVARIANTS
    TypeOK
    ServesAcceptedKeys
    DecidedByCurrentKeys
    RotationSurvives
