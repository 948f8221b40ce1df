\* A parallel build passes the sync lock before the first build has taken it.
SPECIFICATION Spec
CONSTANTS
    b1 = b1
    b2 = b2
    b3 = b3
    daily = daily
    live = live
    Operator = Operator
    Nobody = Nobody
    Builders <- TwoBuilders
    ImageSets <- BothSets
    SetOf <- Apart
    NoSync <- Nowhere
    Faults <- NoFaults
    MaxFaults = 0
INVARIANTS
    ConsistentArchive
