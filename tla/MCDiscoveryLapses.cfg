SPECIFICATION SpecDiscovery
CONSTANTS
    Backends = {"sqlite", "postgres", "jira"}
    Databases <- Lapsing
    MaxSources = 4
    MaxFields = 2
    Configured <- KeyLists
    PageSize = 1
    MaxChanges = 0
INVARIANTS
    SimpleKeysDiscovered
    NothingCut
CHECK_DEADLOCK FALSE
