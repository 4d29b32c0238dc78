SPECIFICATION FairSpec
CONSTANTS
    Key = {1, 2, 3}
    TableOf <- TwoTables
    Ops = {"I", "U", "D", "X"}
    Settings <- MCSettings
    RowsPerChunk = 2
    MaxLog = 3
    MaxPending = 2
    MaxAttempts = 2
    MaxFaults = 1
    MaxRedeliveries = 2
INVARIANTS
    ShowsSource NothingLost
PROPERTIES
    PrefixConsistent 
