SPECIFICATION Spec
CONSTANTS
    MaxDepth = 12
    MaxTerms = 100
    MaxMembers = 3
    MaxWeight = 100
    Asks <- MongoAsks
    Policy <- Small
    TextOrder <- Texts
    ValuesOf <- CellValues
INVARIANTS
    AlwaysAsPlanned
    EveryEditShows
CHECK_DEADLOCK FALSE
