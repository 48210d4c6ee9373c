SPECIFICATION DocSpec
CONSTANTS
    c1 = c1
    c2 = c2
    c3 = c3
    here = here
    there = there
    f1 = f1
    f2 = f2
    Candidates = {c1, c2, c3}
    Scopes = {here}
    Files = {f1}
    NoMemory = NoMemory
    EvidenceLimit = 1
    MaxPurges = 0
    Words <- SomeWords
    Milestones = {c3}
    MilestoneSize = 2
    AutoSize = 3
    GroupSizes = {1, 2}
    MaxVersion = 2
    MaxThreads = 1
    MaxRequests = 0
INVARIANTS
    StaleSectionsGo
CHECK_DEADLOCK FALSE
