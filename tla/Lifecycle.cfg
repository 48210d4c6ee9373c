SPECIFICATION FairSpec
CONSTANTS
    m1 = m1
    r1 = r1
    r2 = r2
    s1 = s1
    s2 = s2
    Memories = {m1}
    Recalls = {r1, r2}
    Sweeps = {s1, s2}
    DecayTicks = 1
    ExpireTicks = 2
    Prompt = FALSE
    MaxRecalls = 2
INVARIANTS
    RetiredForAReason
    OnlyOverlapsForgetUses
PROPERTIES
    OnlyOverlapsRevive
    EventuallyRetired
