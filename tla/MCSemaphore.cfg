\* Three callers, two of which may be killed outright: exclusion, the life of
\* the file, the refinement, and what a dead process leaves behind.
SPECIFICATION CrashSpec
CONSTANTS
    p1 = p1
    p2 = p2
    p3 = p3
    Nobody = Nobody
    Procs <- ThreeProcs
    Retries = 2
    MaxCalls = 4
    MaxFaults = 2
INVARIANTS
    MutualExclusion
    FileMeansInUse
PROPERTIES
    AtomicSpec
    EveryCallEnds
    OrphanLockIsForever
CHECK_DEADLOCK FALSE
