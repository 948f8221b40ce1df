\* Two builders that crash, are sent signals, are refused or take too long.
SPECIFICATION FaultSpec
CONSTANTS
    b1 = b1
    b2 = b2
    b3 = b3
    daily = daily
    live = live
    Operator = Operator
    Nobody = Nobody
    Builders <- TwoBuilders
    ImageSets <- OneSet
    SetOf <- Shared2
    NoSync <- Nowhere
    Faults <- AllFaults
    MaxFaults = 2
PROPERTIES
    BuildsEnd
    OrphanLocks
