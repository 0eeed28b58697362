SPECIFICATION Spec
CONSTANTS
    Threads = {t1, t2}
    Flusher = flusher
    FlushSize = 0
    MaxWrites = 2
    Nil = nil
INVARIANT NoPanic
