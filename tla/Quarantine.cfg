CONSTANTS
    None = None
    RowNumber <- FourRows
    Version <- OldAndNew
    Original <- TwoOriginals
    Config <- Configs
    Kind = {"sql", "databricks"}
    Careful = TRUE
    Stable = TRUE
    MaxFaults = 2
SPECIFICATION Spec
INVARIANTS TypeOK CommittedIsAccounted RowInOnePlace CleanFailure
