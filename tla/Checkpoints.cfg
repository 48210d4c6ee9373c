SPECIFICATION Spec
CONSTANTS
    r1 = r1
    r2 = r2
    r3 = r3
    t1 = t1
    t2 = t2
    x = x
    y = y
    NoTurn = NoTurn
    Requests = {r1, r2, r3}
    Turns = {t1, t2}
    Texts = {x, y}
    Contents <- SomeContents
INVARIANTS
    TurnsCheckpointedOnce
    NewerThanSeen
    SeenIsKept
SYMMETRY Symmetry
CHECK_DEADLOCK FALSE
