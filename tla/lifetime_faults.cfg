SPECIFICATION SerialFaultSpec
CONSTANTS
    Threads = {t1, t2}
    Iters = {i1, i2, i3}
    None = None
    Main = t1
INVARIANTS
    FTypeOK
    NothingLeaks
    OrphansWereCutOff
PROPERTIES
    DestroyedLast
    DroppedGetsClosed
