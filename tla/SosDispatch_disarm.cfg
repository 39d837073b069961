SPECIFICATION Spec
CONSTANTS
    p1 = p1
    p2 = p2
    Phones <- TwoPhones
    MaxRuns = 1
    MaxDashboards = 1
    MaxDisarms = 1
    MayRefuse = FALSE
INVARIANTS
    DisarmResolves
