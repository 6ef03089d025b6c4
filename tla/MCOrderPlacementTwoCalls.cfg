SPECIFICATION FairSpec
CONSTANTS
    r1 = r1
    r2 = r2
    i1 = i1
    i2 = i2
    a1 = a1
    a2 = a2
    u1 = u1
    u2 = u2
    NoRow = NoRow
    Restaurants = {r1}
    Items = {i1, i2}
    Addresses = {a1}
    Customers = {u1}
    MenuOf <- OneMenu
    OwnerOf <- Owners
    Prices = {10}
    Carts <- TwoCallCarts
    Calls = {k1, k2}
    OrderIds = {o1, o2}
    MaxAmount = 90
    PoolSize = 2
INVARIANTS
    OrdersAnswerCalls
PROPERTIES
    PlacementEnds
    ImplementsSales
CHECK_DEADLOCK FALSE
