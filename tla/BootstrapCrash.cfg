SPECIFICATION Spec
CONSTANTS
    MaxManifests = 4
    Faults = {"create", "append", "install", "remove", "kill", "power"}
INVARIANTS TypeOK CurrentIsReplayable CommittedStays OrphanNotReused
