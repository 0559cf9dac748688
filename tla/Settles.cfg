CONSTANTS
    w1 = w1
    w2 = w2
    o1 = o1
    o2 = o2
    Worker = {w1, w2}
    Operator = {o1}
    Hash <- OneHash
    Path <- TwoPaths
    HashOf <- SameContent
    NoHash = "none"
    ManifestPolicy = "required"
    RetryCap = 1
    StaleTimeout = 0
    RequeueCap = 1
    SerialWriter = TRUE
    LateErrors = TRUE
    MaxCrashes = 1
    MaxOverruns = 1
SPECIFICATION FairSpec
INVARIANTS CommittedHasLanded NoDuplicateRows
PROPERTIES EventuallySettled
