SPECIFICATION FairSpec
CONSTANTS
    Threads = {t1, t2, t3}
    Flusher = flusher
    FlushSize = 1
    MaxWrites = 3
    Nil = nil
INVARIANTS TypeOK NoLostWakeup SingleFlight NothingLost FlushPersists CloseWaitsForFlush EmptyRotationHarmless
PROPERTIES FlushErrSticky CallsReturn HandoffCompletes
