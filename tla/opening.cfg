SPECIFICATION Spec
CONSTANTS
    Objects = {o1}
    Factories = {f1, f2, f3}
    BlockBased = BlockBased
    Settings = {plain, prefix}
    Initial = plain
    IntRange <- MCIntRange
    WordSize = 16
    DefaultSize = 1
    SmallSize = 1
    Assigned <- MCAssigned
    Clients = {c1, c2}
    Names = {default, a}
    Default = default
    Other = Other
    None = None
SYMMETRY Symmetry
INVARIANTS
    TypeOK
PROPERTIES
    PromiseSpec
    OpenSettingsAreFrozen
