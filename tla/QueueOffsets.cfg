CONSTANTS
    m1 = m1
    m2 = m2
    t1 = t1
    t2 = t2
    Process = {m1}
    NoFile = NoFile
    MayCopy = FALSE
    CrashInLock = FALSE
    MaxFaults = 1
    Partition = {t1, t2}
    Trigger = {"drain", "continuous"}
    BatchSize = 2
    Poison <- PoisonSecond
    MaxOffset = 2
SPECIFICATION FairSpec
INVARIANTS TypeOK CommittedLanded NothingDropped
PROPERTIES EventuallyLanded
