\* Three calls: two that overlap and one after them, or all of them at once.
CONSTANTS
    a1 = a1
    a2 = a2
    c1 = c1
    c2 = c2
    c3 = c3
    Old = {a1, a2}
    Calls = {c1, c2, c3}
    Requests <- AllRequests
SYMMETRY Symmetry
SPECIFICATION Spec
INVARIANTS TypeOK DefaultsBounded SetDefaultRepairs DefaultKept
CHECK_DEADLOCK FALSE
