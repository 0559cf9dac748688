CONSTANTS
    w1 = w1
    w2 = w2
    o1 = o1
    o2 = o2
    Worker = {w1}
    Operator = {}
    Hash <- OneHash
    Path <- OnePath
    HashOf <- OneFile
    NoHash = "none"
    ManifestPolicy = "required"
    RetryCap = 2
    StaleTimeout = 1
    RequeueCap = 2
    SerialWriter = TRUE
    LateErrors = FALSE
    MaxCrashes = 0
    MaxOverruns = 0
SPECIFICATION Spec
INVARIANT RequiredManifestBeforeLoad
