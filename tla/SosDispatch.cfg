SPECIFICATION FairSpec
CONSTANTS
    p1 = p1
    p2 = p2
    Phones <- TwoPhones
    MaxRuns = 2
    MaxDashboards = 2
    MaxDisarms = 1
    MayRefuse = TRUE
INVARIANTS
    TypeOK
    FlagCoversDispatch
    AlertReachesContacts
    MarksOwnAlert
    FlagStuckOnlyAtExit
    StaysDisarmable
PROPERTIES
    DispatchTerminates
    PromiseKept
