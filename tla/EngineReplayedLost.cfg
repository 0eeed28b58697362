SPECIFICATION Spec
CONSTANTS
    a = a
    b = b
    Keys <- TwoKeys
    Batches <- PairAndDelete
    SyncOnWrite = TRUE
    FlushSize = 0
    MaxBatches = 2
    MaxFiles = 1
    Faults = {"kill", "power"}
INVARIANT AtomicBatchVisibility
