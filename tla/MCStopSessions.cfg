CONSTANTS
    NULL = NULL
    d1 = d1
    d2 = d2
    s1 = s1
    q1 = q1
    q3 = q3
    A = A
    B = B
    C = C
    U = U
    r1 = r1
    r2 = r2
    Stops = {A, B, C, U}
    LegsOf <- MCLegs
    At <- MCAt
    RouteOf <- MCRouteOf
    StopOf <- MCStopOf
    Zero <- MCZero
    alertBuffer = 1
    Drivers = {d1, d2}
    Sessions = {s1}
    DriverOf <- OneDriver
    Requests = {q1, q2, q3}
    Acks = {a1}
    Routes = {r1, r2}
    Catalogue = {}
    Positions = {2}
    MaxMessages = 2
CHECK_DEADLOCK FALSE
SPECIFICATION FairSpec
PROPERTIES
    AckIsFinal
    SessionEnds
