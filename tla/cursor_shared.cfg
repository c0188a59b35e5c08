SPECIFICATION Spec
CONSTANTS
    Threads = {t1, t2}
    Keys <- MCSmallKeys
    Values = {v, w}
    Absent = Absent
    None = None
INVARIANTS
    PairsAreEntries
