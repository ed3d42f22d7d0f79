CONSTANTS
    c1 = c1
    c2 = c2
    c3 = c3
    s1 = s1
    None = None
    Versions = {1, 2}
    Contents <- TwoContents
    Sessions <- OneSession
    MaxFaults = 0
SPECIFICATION Spec
SYMMETRY Symmetry
INVARIANTS
    LatestIsNotStale
    AckedStaysServed
