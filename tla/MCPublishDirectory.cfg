\* Two builds of an image set with three architectures; one crash.
SPECIFICATION Spec
CONSTANTS
    Arches <- ThreeArches
    CpuArch <- Processor
    SizeLimit = 7
    Gigabyte = 10
    IsEdubuntu = FALSE
    Requests <- SomeRequests
    Outcomes <- SomeOutcomes
    SumsFiles = {"MD5SUMS"}
    Keys = TRUE
    MaxBuilds = 2
    MaxCrashes = 1
INVARIANTS
    PublishedIsWhole
    ChecksumsOfNewestTrue
    ReportIsOfItsBuild
PROPERTIES
    EarlierBuildsUnchanged
    OthersCarriedOver
    KillsOnlyItsOwn
    PublicationEnds
\* The model's builds run out.
CHECK_DEADLOCK FALSE
