SPECIFICATION Spec
CONSTANTS
    MaxJourneys = 1
    SafetyCountdown = 2
    StationaryLimit = 2
    DeviationLimit = 3
    LostLimit = 1
    Conditions = {"late"}
PROPERTIES
    ConfirmedRiskNotRetriggered
