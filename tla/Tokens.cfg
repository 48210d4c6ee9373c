SPECIFICATION Spec
CONSTANTS
    Threads = {r1, r2}
    MaxPairs = 5
INVARIANTS
    LoginIsKept
PROPERTIES
    NoSpentTokens
SYMMETRY Symmetry
CHECK_DEADLOCK FALSE
