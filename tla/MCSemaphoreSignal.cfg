\* A signal makes the trap remove the lock file twice.
SPECIFICATION SignalSpec
CONSTANTS
    p1 = p1
    p2 = p2
    p3 = p3
    Nobody = Nobody
    Procs <- ThreeProcs
    Retries = 1
    MaxCalls = 4
    MaxFaults = 1
INVARIANTS
    MutualExclusion
CHECK_DEADLOCK FALSE
