SPECIFICATION Spec
CONSTANTS
    Threads = {t1, t2}
    Iters = {i1, i2}
    None = None
INVARIANTS
    NoOrphanIterator
