\* Images and sources with two statuses: links of sources are left behind.
SPECIFICATION Spec
CONSTANTS
    Releases = {"dist", "source"}
    ArchesOf <- MCArchesOf
    Requests <- MCRequests
    Statuses = {"beta", "release"}
    Release = "release"
    Dates = {1, 3}
    Built <- MCBuilt
    MaxFailures = 0
    MaxPublications = 2
INVARIANT LinksResolve
\* The model's publications run out.
CHECK_DEADLOCK FALSE
