CONSTANTS
    w1 = w1
    w2 = w2
    o1 = o1
    o2 = o2
    Worker = {w1, w2}
    Operator = {}
    Hash <- TwoHashes
    Path <- TwoPaths
    HashOf <- DistinctFiles
    NoHash = "none"
    ManifestPolicy = "optional"
    RetryCap = 2
    StaleTimeout = 1
    RequeueCap = 2
    SerialWriter = FALSE
    LateErrors = FALSE
    MaxCrashes = 1
    MaxOverruns = 0
SPECIFICATION Spec
SYMMETRY WorkerSymmetry
INVARIANTS TypeOK ExclusiveLoad AttemptsWithinBudget FailedLandedNothing
PROPERTIES CommittedIsFinal TerminalNeedsRequeue ImplementsLifecycle
