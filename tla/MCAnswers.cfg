SPECIFICATION Spec
CONSTANTS
    MaxDepth = 12
    MaxTerms = 100
    MaxMembers = 3
    MaxWeight = 100
    Asks <- AllAsks
    Policy <- Small
    TextOrder <- Texts
    ValuesOf <- CellValues
INVARIANTS
    RegroundingStable
    MeaningKept
    NoGuess
    JoinsInScope
    AnswerAsPlanned
    LimitTold
    EditsShow
CHECK_DEADLOCK FALSE
