\* Two image sets, one of which crashes.
SPECIFICATION CrashSpec
CONSTANTS
    s1 = s1
    s2 = s2
    Nobody = Nobody
    NoId = NoId
    ImageSets <- Two
    KeepDays <- DailyBoth
    LastDay = 3
    MaxSuffix <- Busy
    MaxCrashes = 1
INVARIANTS
    CurrentIsComplete
    AnnouncedInManifest
    FreshBuildId
PROPERTIES
    ManifestLockIsForever
    NewestKeptUntilCrash
\* The model's days and build IDs run out.
CHECK_DEADLOCK FALSE
