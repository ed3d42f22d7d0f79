CONSTANTS
    c1 = c1
    c2 = c2
    c3 = c3
    s1 = s1
    None = None
    Versions = {1}
    Contents <- ThreeContents
    Sessions <- OneSession
    MaxFaults = 1
SPECIFICATION Spec
SYMMETRY Symmetry
INVARIANTS
    TypeOK
    FetchedWasServed
    AckedStaysServed
PROPERTIES
    ModulePublishesAtomically
