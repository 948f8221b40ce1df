\* Three publications of images or sources with two statuses.
SPECIFICATION Spec
CONSTANTS
    Releases = {"dist", "source"}
    ArchesOf <- MCArchesOf
    Requests <- MCRequests
    Statuses = {"beta", "release"}
    Release = "release"
    Dates = {1, 3}
    Built <- MCBuilt
    MaxFailures = 1
    MaxPublications = 3
INVARIANTS
    OwnLinksResolve
    SumsTrue
    ManifestHolds
PROPERTIES
    PoolOnlyUnseen
\* The model's publications run out.
CHECK_DEADLOCK FALSE
