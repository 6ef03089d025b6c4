\* One restaurant or none at first, and three calls of any kind for it or for the
\* restaurants that the others create.
CONSTANTS
    r1 = r1
    n1 = n1
    n2 = n2
    c1 = c1
    c2 = c2
    c3 = c3
    Absent = Absent
    NoImage = NoImage
    NoRow = NoRow
    Old = {r1}
    Calls = {c1, c2, c3}
    Names = {n1, n2}
    Statuses = {"OPEN", "CLOSED"}
    Requests <- SomeRequests
SYMMETRY Symmetry
SPECIFICATION Spec
INVARIANTS TypeOK NamesUnique StatusKept  ListsAsFilled
CHECK_DEADLOCK FALSE
