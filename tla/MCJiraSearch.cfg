SPECIFICATION Spec
CONSTANTS
    i1 = i1
    i2 = i2
    i3 = i3
    t1 = t1
    t2 = t2
    t3 = t3
    t4 = t4
    Issue = {i1, i2, i3}
    Issues <- Found
    Limits = {1, 2, 3, 4}
    Tokens <- Handed
    PlaceOf <- Places
    NoToken = NoToken
    Budget = 2
    Horizon = 2
INVARIANTS
    TypeOK
    FirstRows
    PagesReadOnce
PROPERTIES
    Ends
CHECK_DEADLOCK FALSE
