SPECIFICATION SerialSpec
CONSTANTS
    Threads = {t1, t2, t3}
    Iters = {i1, i2, i3}
    None = None
INVARIANTS
    NoOrphanIterator
    TrackedForClose
PROPERTIES
    ContractSpec
