SPECIFICATION Spec
CONSTANTS
    c1 = c1
    c2 = c2
    c3 = c3
    c4 = c4
    here = here
    there = there
    Candidates = {c1, c2, c3, c4}
    Scopes = {here, there}
    NoMemory = NoMemory
    EvidenceLimit = 2
    MaxPurges = 1
INVARIANTS
    SupersededIsRetired
    ChainsEnd
    KeptIsRecorded
PROPERTIES
    EditsAreVersioned
SYMMETRY
    Alike
CHECK_DEADLOCK FALSE
