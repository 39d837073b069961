SPECIFICATION Spec
CONSTANTS
    Users = {1}
    Groups = {g1, g2}
    Slots = {s1}
    MaxCalls = 1
    MaxLoads = 1
    MaxBroadcasts = 1
    MaxFailures = 0
SYMMETRY Symmetry
INVARIANT EveryGroupTold
CHECK_DEADLOCK FALSE
