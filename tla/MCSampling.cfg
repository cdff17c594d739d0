SPECIFICATION Spec
CONSTANTS
    Backends = {"mongo", "neo4j"}
    Entries <- AllEntries
    Databases <- Stores
    MaxSources = 2
    MaxFields = 2
    SampleSize = 2
    MaxNesting = 1
    MaxChanges = 1
INVARIANTS
    FieldsOwned
    TypesAgreed
    EdgesUnambiguous
CHECK_DEADLOCK FALSE
