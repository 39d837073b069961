SPECIFICATION Spec
CONSTANTS
    Users = {1}
    Groups = {g1, g2}
    Slots = {s1, s2}
    MaxCalls = 2
    MaxLoads = 1
    MaxBroadcasts = 1
    MaxFailures = 1
SYMMETRY Symmetry
INVARIANTS
    ListCovers
    BroadcastReaches
PROPERTIES
    EmergencyStays
CHECK_DEADLOCK FALSE
