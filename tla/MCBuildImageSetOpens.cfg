\* A signal during cleanup decrements the semaphore twice.
SPECIFICATION FaultSpec
CONSTANTS
    b1 = b1
    b2 = b2
    b3 = b3
    daily = daily
    live = live
    Operator = Operator
    Nobody = Nobody
    Builders <- ThreeBuilders
    ImageSets <- BothSets
    SetOf <- SharedAndOther
    NoSync <- Nowhere
    Faults <- SignalFaults
    MaxFaults = 1
INVARIANTS
    OpensOnlyWhenUnused
