SPECIFICATION Spec
CONSTANTS
    r1 = r1
    r2 = r2
    i1 = i1
    i2 = i2
    a1 = a1
    a2 = a2
    u1 = u1
    u2 = u2
    NoRow = NoRow
    Restaurants = {r1, r2}
    Items = {i1, i2}
    Addresses = {a1, a2}
    Customers = {u1, u2}
    MenuOf <- TwoMenus
    OwnerOf <- Owners
    Prices = {0, 25}
    Carts <- OneCallCarts
    Calls = {k1}
    OrderIds = {o1}
    MaxAmount = 90
    PoolSize = 2
INVARIANTS
    TypeOK
    AmountsAgree
    ReferencesExist
PROPERTIES
    ImplementsSales
CHECK_DEADLOCK FALSE
