SPECIFICATION FairSpec
CONSTANTS
    MaxJourneys = 2
    SafetyCountdown = 2
    StationaryLimit = 2
    DeviationLimit = 2
    LostLimit = 1
    Conditions = {"route", "late", "offline", "hidden"}
INVARIANTS
    TypeOK
    SafetyCheckConsistent
PROPERTIES
    EmergencyOnlyUnanswered
    CountedRiskNotRetriggered
    OfflineNoticed
    RiskIsAnswered
