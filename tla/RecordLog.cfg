SPECIFICATION Spec
CONSTANTS
    MaxPayloadSize = 2
    LengthSpan = 8
    MaxRecords = 3
    MaxCrashes = 3
INVARIANTS
    TypeOK
    AckedSurvive
    TornNotCorrupt
    ReplaysPrefix
