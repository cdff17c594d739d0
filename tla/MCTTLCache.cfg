SPECIFICATION Spec
CONSTANTS
    Keys = {k1, k2, k3}
    Values = {a, b}
    TTL = 2
    MaxEntries = 2
    Nothing = Nothing
    Horizon = 5
INVARIANTS
    TypeOK
    BoundedDict
    ExpiryBounded
PROPERTIES
    LossHasCause
    AnswersFresh
