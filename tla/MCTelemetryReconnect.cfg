CONSTANTS
    NULL = NULL
    r1 = r1
    Sessions = {s1, s2}
    Callers = {}
    Watchers = {w1}
    Vehicles = {v1}
    Routes = {r1, r2}
    RouteOf <- MCRouteOf
    Capacity = 1
    eventBuffer = 1
    MaxMessages = 1
CHECK_DEADLOCK FALSE
SPECIFICATION Spec
INVARIANTS
    OnlineWhileConnected
