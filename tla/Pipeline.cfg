SPECIFICATION SeveralSpec
CONSTANTS
    a = a
    b = b
    w = w
    y = y
    x = x
    here = here
    there = there
    Memories = {a, b, w, y, x}
    Statement <- Statements
    DefaultMaxChars = 3
    MaxChars = 2
    MinScore = 5
    Requests = {1, 2}
    Scopes = {here, there}
    NoScope = NoScope
    Turns <- SomeTurns
    Old = {a, y}
    Terms = {1, 2}
    Queries <- SomeQueries
    CheckpointTerms = {2}
    Hits <- SomeHits
    Near <- SomeNear
    Limit = 1
    Swept = {a}
    EvidenceLimit = 2
INVARIANTS
    AuditSparesAdmitted
    AnswersAreCurrent
    AnswersAreComplete
    NothingTwice
    SyncReportIsTrue
PROPERTIES
    EveryRequestEnds
CHECK_DEADLOCK FALSE
