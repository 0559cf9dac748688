CONSTANTS
    File <- FourFiles
    Malformed <- ThirdFile
    MaxFiles = 2
    Mode = {"delete", "manifest"}
    Compress = TRUE
    LocalOutput = FALSE
    MaxFaults = 2
SPECIFICATION FairSpec
INVARIANTS NothingLost CopiesBounded
PROPERTIES EventuallyCompacted
CHECK_DEADLOCK FALSE
