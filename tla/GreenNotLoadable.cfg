SPECIFICATION Spec
CONSTANTS
    a1 = a1
    a2 = a2
    Author = {a1}
    Name = {"id", "amt", "tag"}
    NoName = "none"
    Sample = {"old.csv", "new.csv", "ebcdic.csv", "book.xlsx"}
    NoSample = NoSample
    Worksheet = {"jan", "feb"}
    Header <- MCHeader
    EncodingOf <- MCEncoding
    Table = {"Orders", "orders", "items"}
    Connector = {"sqlite", "bigquery"}
    NeedsSetting = {"bigquery"}
    Id = {"orders", "items"}
    Slug <- MCSlug
    CdcChoice <- MCCdcChoice
    Workspace <- MCEmpty
    Command <- MCEncoded
    NoId = NoId
    NoTable = NoTable
    NoDraft = NoDraft
    Missing = Missing
    Torn = Torn
    MaxSessions = 1
    MaxEdits = 0
    MaxCrashes = 0
INVARIANT GreenMeansLoadable
CHECK_DEADLOCK FALSE
