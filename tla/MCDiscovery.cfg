SPECIFICATION SpecDiscovery
CONSTANTS
    Backends = {"sqlite", "postgres", "timescaledb", "mysql", "hana", "jira", "redis"}
    Databases <- Migration
    MaxSources = 2
    MaxFields = 2
    Configured <- KeyLists
    PageSize = 2
    MaxChanges = 2
INVARIANTS
    SourcesGenuine
    RelationshipsGenuine
    NothingCut
CHECK_DEADLOCK FALSE
