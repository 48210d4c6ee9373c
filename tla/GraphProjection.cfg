SPECIFICATION SomeSpec
CONSTANTS
    c1 = c1
    c2 = c2
    c3 = c3
    here = here
    there = there
    away = away
    f1 = f1
    f2 = f2
    Candidates = {c1, c2, c3}
    Scopes = {here, there, away}
    NoMemory = NoMemory
    EvidenceLimit = 1
    MaxPurges = 0
    Facts = {f1, f2}
    Plain = {c1, c2}
    Relates <- OneRelated
    Group <- Cleaned
INVARIANTS
    GraphCatchesUp
    GraphScopesApart
SYMMETRY
    Alike
CHECK_DEADLOCK FALSE
