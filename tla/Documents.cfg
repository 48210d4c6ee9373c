SPECIFICATION SomeSpec
CONSTANTS
    c1 = c1
    c2 = c2
    c3 = c3
    here = here
    there = there
    f1 = f1
    f2 = f2
    Candidates = {c1, c2, c3}
    Scopes = {here, there}
    Files = {f1, f2}
    NoMemory = NoMemory
    EvidenceLimit = 1
    MaxPurges = 0
    Words <- SomeWords
    Milestones = {c3}
    MilestoneSize = 2
    AutoSize = 3
    GroupSizes = {1}
    MaxVersion = 2
    MaxThreads = 2
    MaxRequests = 1
INVARIANTS
    SectionsHaveSources
    PagesScopesApart
PROPERTIES
    OnlyOverlapsDrop
SYMMETRY
    Alike
CHECK_DEADLOCK FALSE
