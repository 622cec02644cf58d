CONSTANTS
    NULL = NULL
    Features <- MCFeatures
    Blank = ""
    variantCanonical <- MCCanonical
    BaseCents = 5
    PerKmCents = 2
    MinFareCents = 7
    MaxFareCents = 9
    SeedStops <- MCStops
    ForwardCorridors <- MCCorridors
    reverseRouteNames <- MCReverse
    Leftovers <- MCLeftovers
    StopNames <- MCStopNames
    RouteNames <- MCRouteNames
    NameOrder <- MCOrder
    Questions <- MCQuestions
    Plans <- MCPlans
CHECK_DEADLOCK FALSE
SPECIFICATION Spec
INVARIANTS
    TypeOK
    NamesUnique
    FinishedRunIsWhole
    SeededRideIsFound
    SearchIsBest
    BlankOnlyOnDeletedRoute
PROPERTIES
    ClearRestoresBaseline
    BaselineUntouched
