CONSTANTS
    NULL = NULL
    NoDriver = NoDriver
    k1 = k1
    d1 = d1
    o1 = o1
    v1 = v1
    r1 = r1
    Commuters = {k1}
    Drivers = {d1}
    Owners = {o1}
    Vehicles = {v1}
    VehicleOwner <- MCOwner
    VehicleDriver <- MCDriver
    PlatformPct = 10
    DriverPct = 30
    Passes = {p1}
    Scans = {x1, x2}
    Codes = {c1}
    Routes = {r1, r2}
    Catalogue = {r2}
    HolderOf <- MCHolder
    RouteOf <- MCRoute
    FareOf <- MCFare
    Amounts = {15}
    Opening <- Broke
    Capacity = 1
    ttl = 1
    sweepGrace = 1
    window = 2
    max = 1
    maxCodeGenerationAttempts = 1
    MaxTime = 1
    MaxRestarts = 0
    MaxBalance = 15
SYMMETRY Interchangeable
CHECK_DEADLOCK FALSE
SPECIFICATION Spec
INVARIANTS
    BoardedTookSeat
