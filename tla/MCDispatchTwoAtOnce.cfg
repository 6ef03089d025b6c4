SPECIFICATION Spec
CONSTANTS
    o1 = o1
    o2 = o2
    v1 = v1
    v2 = v2
    Created <- NoneCreated
    Orders = {o1, o2}
    Deliveries = {v1, v2}
    Drivers = {p1}
    Admin = admin
    NoDriver = NoDriver
    NoRow = NoRow
    CreateCalls = {k1, k2}
    AcceptCalls = {a1, a2}
    StatusCalls = {}
    OrderInputs = {"PREPARING"}
    StatusInputs = {"DELIVERED"}
    PoolSize = 2
INVARIANTS
    OneDeliveryAtATime
SYMMETRY Symmetry
