SPECIFICATION Spec
CONSTANTS
    MaxField = 12
    UserKeys = {0, 3, 4}
    MaxEdits = 3
INVARIANTS
    ReplayRebuilds
    LevelsOrdered
    OpenRefusesOnly
CHECK_DEADLOCK FALSE
