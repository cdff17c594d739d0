SPECIFICATION Spec
CONSTANTS
    Backends = {"mysql", "influx"}
    Names = {"amount", "state"}
    MaxWidth = 2
    MaxHeight = 2
INVARIANTS
    EveryErrorTranslated
    EveryAnswerWhole
CHECK_DEADLOCK FALSE
