CONSTANTS
    NULL = NULL
    NoDriver = NoDriver
    c1 = c1
    c2 = c2
    d1 = d1
    d2 = d2
    o1 = o1
    v1 = v1
    v2 = v2
    v3 = v3
    k1 = k1
    k2 = k2
    Commuters = {c1, c2}
    Drivers = {d1, d2}
    Owners = {o1}
    Vehicles = {v1, v2}
    VehicleOwner <- MCVehicleOwner
    VehicleDriver <- MCVehicleDriver
    PlatformPct = 10
    DriverPct = 25
    Requests = {p1, p2, p3}
    Keys = {k1, k2}
    Amounts = {15}
    Calls <- LockCalls
    WithholdPct = 50
    MaxConns = 3
    MCFloat = 20
    MCRevenue = 0
    Opening <- MCOpening
    OpenAccounts <- LockAccounts
SPECIFICATION FairSpec
INVARIANTS
    NoLockCycle
PROPERTIES
    EveryRequestAnswered
