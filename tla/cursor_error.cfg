SPECIFICATION TurnsSpec
CONSTANTS
    Threads = {t1}
    Keys <- MCSmallKeys
    Values = {v}
    Absent = Absent
    None = None
INVARIANTS
    StopMeansAll
