CONSTANTS
    NULL = NULL
    r1 = r1
    Sessions = {s1, s2}
    Callers = {u1}
    Watchers = {w1}
    Vehicles = {v1, v2}
    Routes = {r1, r2}
    RouteOf <- MCRouteOf
    Capacity = 1
    eventBuffer = 2
    MaxMessages = 1
CHECK_DEADLOCK FALSE
SPECIFICATION FairSpec
INVARIANTS
    TypeOK
    NoGhostVehicle
    CaughtUpViewIsCurrent
PROPERTIES
    PublisherNeverWaits
