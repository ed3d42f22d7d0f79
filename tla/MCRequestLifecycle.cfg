CONSTANTS
    r1 = r1
    r2 = r2
    r3 = r3
    Nobody = Nobody
    Requests <- ThreeRequests
    Asks <- MixedAsks
    Stalling <- OneStalls
SPECIFICATION Spec
CHECK_DEADLOCK FALSE
INVARIANTS
    TypeOK
    AnsweredIsAudited
    CleanStopFinishesAll
PROPERTIES
    RequestsEnd
    ReadersNeverWait
    ShutdownEnds
