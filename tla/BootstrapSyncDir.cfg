SPECIFICATION Spec
CONSTANTS
    MaxManifests = 2
    Faults = {"syncdir"}
INVARIANT CurrentIsReplayable
CHECK_DEADLOCK FALSE
