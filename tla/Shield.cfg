SPECIFICATION FairShieldSpec
CONSTANTS
    MaxJourneys = 1
    SafetyCountdown = 1
    StationaryLimit = 1
    DeviationLimit = 1
    LostLimit = 1
    Conditions = {"still", "offline"}
    c1 = c1
    c2 = c2
    Contacts <- TwoContacts
    MaxEmergencies = 1
INVARIANTS
    AlertTypeOK
    AlertAccounted
    ContactsToldTheRisk
PROPERTIES
    QueuedOnlyOffline
    FlushCompletes
    DispatchCompletes
