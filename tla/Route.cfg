SPECIFICATION FairSpec
CONSTANTS
    MaxJourneys = 2
    Ways <- MCWays
    WordSize = 268435456
INVARIANTS
    TypeOK
    DecodesRoute
    RouteOfTrip
    GivesUpLate
PROPERTIES
    FetchEnds
CHECK_DEADLOCK FALSE
