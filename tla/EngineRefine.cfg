SPECIFICATION Spec
CONSTANTS
    a = a
    b = b
    Keys <- TwoKeys
    Batches <- PairAndDelete
    SyncOnWrite = TRUE
    FlushSize = 2
    MaxBatches = 3
    MaxFiles = 2
    Faults = {"kill", "wal", "manifest", "sst"}
PROPERTY ImplementsKVStore
