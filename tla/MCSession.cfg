CONSTANTS
    v1 = v1
    p1 = p1
    p2 = p2
    c1 = c1
    c2 = c2
    s1 = s1
    None = None
    Versions <- OneVersion
    Platforms <- TwoPlatforms
    Contents <- TwoContents
    Sessions <- OneSession
    MaxFaults = 1
SPECIFICATION SessionSpec
SYMMETRY Symmetry
INVARIANTS
    InstallsWhatWasPublished
    CalmSessionsSucceed
VIEW View
CONSTRAINT Bounded
