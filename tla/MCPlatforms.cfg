CONSTANTS
    v1 = v1
    p1 = p1
    p2 = p2
    c1 = c1
    c2 = c2
    None = None
    Versions <- OneVersion
    Platforms <- TwoPlatforms
    Contents <- TwoContents
    MaxFaults = 1
SPECIFICATION Spec
SYMMETRY Symmetry
INVARIANTS
    TypeOK
    MetadataNamesArtifact
    ChecksumsMatchMetadata
    NoOrphanArtifacts
    AckedStaysPublished
PROPERTIES
    PublishesAtomically
CONSTRAINT Bounded
