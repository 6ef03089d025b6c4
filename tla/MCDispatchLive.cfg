SPECIFICATION FairSpec
CONSTANTS
    o1 = o1
    o2 = o2
    v1 = v1
    v2 = v2
    Created <- BothCreated
    Orders = {o1, o2}
    Deliveries = {v1, v2}
    Drivers = {p1}
    Admin = admin
    NoDriver = NoDriver
    NoRow = NoRow
    CreateCalls = {}
    AcceptCalls = {a1, a2}
    StatusCalls = {s1}
    OrderInputs = {}
    StatusInputs = {"DELIVERED"}
    PoolSize = 2
PROPERTIES
    RequestsEnd
