CONSTANTS
    p1 = p1
    p2 = p2
    zip1 = zip1
    zip2 = zip2
    latest = latest
    Damaged = Damaged
    None = None
    Processes <- TwoProcesses
    MaxRuns = 3
    Ids <- TwoIds
    Contents <- TwoContents
    Fits <- ProviderFits
    SizeOf <- Sizes
    MaxBytes = 1
    Tags <- OneTag
    Foreign <- ForeignManifests
SPECIFICATION Spec
SYMMETRY Symmetry
INVARIANTS
    TypeOK
    ServedAsDescribed
    TagsAreWhole
    CopiesWereAccepted
    SuccessMeansBoth
