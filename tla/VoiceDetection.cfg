SPECIFICATION FairSpec
CONSTANTS
    MaxCalls = 3
    MaxStarts = 2
    Threshold = 5
    Decay = 2
    Hits = {3, 5}
INVARIANTS
    TypeOK
    ScoreUnderControl
    RestartUnderWay
PROPERTIES
    DisabledGoesSilent
    ListensAgain
CHECK_DEADLOCK FALSE
