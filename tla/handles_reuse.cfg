SPECIFICATION Spec
CONSTANTS
    Sessions = {s1, s2}
    Paths = {p1, p2}
    Addrs = {m1, m2}
    a = a
    b = b
    Default = default
    Names = {default, a, b}
    Requests <- SmallRequests
    Keys = {k}
    Values = {v}
    Absent = Absent
    None = None
    MaxBatch = 1
SYMMETRY Symmetry
VIEW StateView
PROPERTIES
    StaleHandleRefused
