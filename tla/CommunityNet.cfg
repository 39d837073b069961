SPECIFICATION Spec
CONSTANTS
    Users = {1, 2}
    Groups = {g1}
    Slots = {s1, s2}
    MaxCalls = 2
    MaxLoads = 1
    MaxBroadcasts = 0
    MaxFailures = 1
SYMMETRY Symmetry
INVARIANTS
    TypeOK
    MembershipAgrees
CHECK_DEADLOCK FALSE
