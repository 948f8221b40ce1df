\* Three sources on two architectures, each in three to six forms.
SPECIFICATION Spec
CONSTANTS
    Architectures <- BothArches
    noBreakArchAll <- AllFor
    Worlds <- SomeWorlds
INVARIANTS
    NeverWorse
    DpkgAssertions
PROPERTIES
    InvalidatedClosed
    FailedRunRestores
    NothingLeftToAccept
    Ends
CHECK_DEADLOCK FALSE
