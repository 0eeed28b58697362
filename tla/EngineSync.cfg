SPECIFICATION Spec
CONSTANTS
    a = a
    b = b
    Keys <- TwoKeys
    Batches <- PairAndDelete
    SyncOnWrite = TRUE
    FlushSize = 2
    MaxBatches = 3
    MaxFiles = 2
    Faults = {"kill", "power", "wal", "manifest", "sst"}
INVARIANTS TypeOK AckedWritesVisible LayerOrder RecoverySucceeds
PROPERTY SSTImmutable
