SPECIFICATION FairSpec
CONSTANTS
    o1 = o1
    o2 = o2
    v1 = v1
    v2 = v2
    Created <- NoneCreated
    Orders = {o1}
    Deliveries = {v1}
    Drivers = {p1}
    Admin = admin
    NoDriver = NoDriver
    NoRow = NoRow
    CreateCalls = {k1}
    AcceptCalls = {}
    StatusCalls = {}
    OrderInputs = {"PREPARING", "CANCELLED"}
    StatusInputs = {"DELIVERED"}
    PoolSize = 1
PROPERTIES
    DeliveryOnlyIfPreparing
