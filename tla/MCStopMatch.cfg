CONSTANTS
    NULL = NULL
    d1 = d1
    d2 = d2
    s1 = s1
    q1 = q1
    q3 = q3
    A = A
    B = B
    C = C
    U = U
    r1 = r1
    r2 = r2
    Stops = {A, B, C, U}
    LegsOf <- MCLegs
    At <- MCAt
    RouteOf <- MCRouteOf
    StopOf <- MCStopOf
    Zero <- MCZero
    alertBuffer = 1
    Drivers = {d1, d2}
    Sessions = {s1, s2}
    DriverOf <- TwoDrivers
    Requests = {q1, q2}
    Acks = {}
    Routes = {r1, r3}
    Catalogue = {r3}
    Positions = {2, 6, 7}
    MaxMessages = 1
CHECK_DEADLOCK FALSE
SPECIFICATION Spec
INVARIANTS
    TypeOK
    AnswerMatchesAlert
PROPERTIES
    NearestNotPassed
