\* Three builders left alone, two of one image set, one that does not sync.
SPECIFICATION Spec
CONSTANTS
    b1 = b1
    b2 = b2
    b3 = b3
    daily = daily
    live = live
    Operator = Operator
    Nobody = Nobody
    Builders <- ThreeBuilders
    ImageSets <- BothSets
    SetOf <- SharedAndOther
    NoSync <- Third
    Faults <- NoFaults
    MaxFaults = 0
INVARIANTS
    ImageSetExclusion
    SemaphoreCountsUsers
    OneRsync
    NothingLeftBehind
PROPERTIES
    SharedSpec
