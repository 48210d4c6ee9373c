SPECIFICATION Spec
CONSTANTS
    r1 = r1
    r2 = r2
    r3 = r3
    short = short
    detailed = detailed
    Requests = {r1, r2, r3}
    Values = {short, detailed}
    Signals <- SomeSignals
    Threshold = 2
INVARIANTS
    PreferenceStays
    EvidenceIsReal
    OneUnlessDisturbed
    EvidenceIsConsumed
SYMMETRY Symmetry
CHECK_DEADLOCK FALSE
