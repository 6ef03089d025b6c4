SPECIFICATION Spec
CONSTANTS
    o1 = o1
    o2 = o2
    v1 = v1
    v2 = v2
    Created <- NoneCreated
    Orders = {o1}
    Deliveries = {v1}
    Drivers = {p1, p2}
    Admin = admin
    NoDriver = NoDriver
    NoRow = NoRow
    CreateCalls = {k1}
    AcceptCalls = {a1, a2}
    StatusCalls = {s1}
    OrderInputs = {"PREPARING"}
    StatusInputs = {"WAITING"}
    PoolSize = 2
INVARIANTS
    OneWinner
    CheckStillHolds
    DriverAgreement
    LocksHold
PROPERTIES
    AssignmentStable
SYMMETRY Symmetry
