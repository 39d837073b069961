SPECIFICATION FairSpec
CONSTANTS
    MaxJourneys = 2
    MaxAdds = 2
    MaxCalls = 1
INVARIANTS
    TypeOK
    GhostsOnlyFromMishaps
    OneDocumentATrip
PROPERTIES
    DocumentKeepsTrip
    EmergencyShown
CHECK_DEADLOCK FALSE
