SPECIFICATION FairSpec
CONSTANTS
    Threads = {t1, t2, t3}
    Iters = {i1, i2}
    None = None
INVARIANTS
    TypeOK
    SoleCloser
    ClosedFlagIsTruthful
    CollectedOwnsNothing
PROPERTIES
    CloseReturns
    CollectedIsClosed
