SPECIFICATION Spec
CONSTANTS
    MaxDepth = 12
    MaxTerms = 100
    MaxMembers = 3
    MaxWeight = 100
    Asks <- LapsingAsks
    Policy <- Generous
    TextOrder <- Texts
    ValuesOf <- CellValues
INVARIANTS
    NoGuess
    NoSelfJoin
CHECK_DEADLOCK FALSE
