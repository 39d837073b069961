SPECIFICATION ShieldSpec
CONSTANTS
    MaxJourneys = 1
    SafetyCountdown = 1
    StationaryLimit = 1
    DeviationLimit = 1
    LostLimit = 1
    Conditions = {"offline"}
    c1 = c1
    c2 = c2
    Contacts <- TwoContacts
    MaxEmergencies = 1
PROPERTIES
    UndeliveredStaysQueued
