SPECIFICATION Spec
CONSTANTS
    Keys <- TwoKeys
    Workloads <- MixedWorkloads
    Cycles = 3
    EventChCap = 2
    MaxFailures = 1
INVARIANTS
    TypeOK
    OneInDoubt
    AcksRequired
    NoFalseAlarm
    PayloadsStrict
PROPERTY RunEnds
CHECK_DEADLOCK FALSE
