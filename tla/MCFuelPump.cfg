CONSTANTS
    NULL = NULL
    o1 = o1
    o2 = o2
    v1 = v1
    v2 = v2
    Owners = {o1, o2}
    Vehicles = {v1, v2}
    VehicleOwner <- MCVehicleOwner
    Amounts = {1, 2}
    Requests = {p1, p2, p3}
    Calls <- PumpCalls
    OpenQuota <- MCOpenQuota
    OpenWithheld <- MCOpenWithheld
    MaxWithheld = 5
SPECIFICATION FairSpec
INVARIANTS
    TypeOK
    ChecksNeverFire
    QuotaMatchesSessions
PROPERTIES
    EveryCallAnswered
