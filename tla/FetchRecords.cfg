CONSTANTS
    f1 = f1
    f2 = f2
    Process = {f1, f2}
    NoFile = NoFile
    MayCopy = TRUE
    CrashInLock = FALSE
    MaxFaults = 1
    Record <- TwoRecords
    Paging = {"number", "after"}
    PageSize = 1
    Inclusive = FALSE
    NewestFirst = TRUE
    Mutable = TRUE
    Ties = FALSE
    MaxTime = 2
SPECIFICATION FairSpec
INVARIANTS TypeOK NothingSkipped VisibleWithSidecar OnePromotes
PROPERTIES EventuallyLanded
