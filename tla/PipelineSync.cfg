SPECIFICATION Spec
CONSTANTS
    Threads = {t1, t2, t3}
    Flusher = flusher
    FlushSize = 0
    MaxWrites = 4
    Nil = nil
SYMMETRY ThreadSymmetry
INVARIANT PublishedPathIsID
CHECK_DEADLOCK FALSE
