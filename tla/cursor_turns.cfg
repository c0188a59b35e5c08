SPECIFICATION FairTurnsSpec
CONSTANTS
    Threads = {t1, t2}
    Keys <- MCKeys
    Values = {v, w}
    Absent = Absent
    None = None
INVARIANTS
    TypeOK
    ScanFollowsView
    StopHidesOnlyErrors
    NextMovesValid
PROPERTIES
    ClosedIsInert
    LoopEnds
