SPECIFICATION Spec
CONSTANTS
    Backends = {"sqlite", "postgres", "mysql", "mongo", "neo4j", "influx", "redis"}
    Names = {"amount", "state"}
    MaxWidth = 2
    MaxHeight = 2
INVARIANTS
    ConnectionsClosed
    ErrorsTranslated
    AnswersWhole
CHECK_DEADLOCK FALSE
