\* A reader that fills and one that is shown what it has filled, two changes, two
\* lives of an entry.
CONSTANTS
    r1 = r1
    r2 = r2
    w1 = w1
    w2 = w2
    None = None
    Readers = {r1, r2}
    Writers = {w1, w2}
    TTL = 2
    MaxFill = 1
    MaxTime = 4
SYMMETRY Symmetry
SPECIFICATION Spec
INVARIANTS TypeOK NewItemShown
PROPERTY ImplementsStaleMenu
CHECK_DEADLOCK FALSE
