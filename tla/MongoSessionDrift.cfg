SPECIFICATION SpecMongo
CONSTANTS
    Documents = {d1, d2}
    SampleSize = 2
    Limits = {1, 2}
    MaxChanges = 1
INVARIANTS
    DriftFailsSafely
CHECK_DEADLOCK FALSE
