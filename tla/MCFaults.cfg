CONSTANTS
    v1 = v1
    p1 = p1
    p2 = p2
    c1 = c1
    c2 = c2
    None = None
    Versions <- OneVersion
    Platforms <- TwoPlatforms
    Contents <- OneContent
    MaxFaults = 3
SPECIFICATION Spec
SYMMETRY Symmetry
PROPERTIES
    OkMeansPublished
    FailuresStayLocal
