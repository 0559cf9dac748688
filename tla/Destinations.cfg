SPECIFICATION Spec
CONSTANTS
    File = {1, 2, 3}
    Key = {k1, k2}
    Puts <- MCPuts
    Deletes <- MCDeletes
    NoFile = NoFile
    Setups <- AllSetups
    Foreign = {}
    MaxFaults = 3
    MaxJobs = 4
INVARIANTS
    TypeOK
    RowsOnce
    LandedBeforeCommit
    NeverMixed
    CdcConverges
PROPERTIES
    CommitShowsTable
    ImplementsLifecycle
    EventuallyLoaded
CHECK_DEADLOCK FALSE
