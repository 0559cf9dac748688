SPECIFICATION Spec
CONSTANTS
    File = {1, 2, 3}
    Key = {k1, k2}
    Puts <- MCPuts
    Deletes <- MCDeletes
    NoFile = NoFile
    Setups <- BigQueryCdc
    Foreign = {}
    MaxFaults = 2
    MaxJobs = 3
PROPERTY MarkedFilesCommit
CHECK_DEADLOCK FALSE
