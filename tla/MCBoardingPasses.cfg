CONSTANTS
    NULL = NULL
    NoDriver = NoDriver
    k1 = k1
    d1 = d1
    o1 = o1
    v1 = v1
    r1 = r1
    Commuters = {k1}
    Drivers = {d1}
    Owners = {o1}
    Vehicles = {v1}
    VehicleOwner <- MCOwner
    VehicleDriver <- MCDriver
    PlatformPct = 10
    DriverPct = 30
    Passes = {p1, p2}
    Scans = {x1, x2}
    Codes = {c1, c2}
    Routes = {r1}
    Catalogue = {}
    HolderOf <- MCHolder
    RouteOf <- MCRoute
    FareOf <- MCFare
    Amounts = {15}
    Opening <- Broke
    Capacity = 1
    ttl = 0
    sweepGrace = 1
    window = 2
    max = 1
    maxCodeGenerationAttempts = 2
    MaxTime = 2
    MaxRestarts = 1
    MaxBalance = 15
SYMMETRY Interchangeable
CHECK_DEADLOCK FALSE
SPECIFICATION Spec
INVARIANTS
    TypeOK
    SeatOncePerPass
    LimitPerWindow
    LiveCodeResolves
