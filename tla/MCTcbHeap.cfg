SPECIFICATION HeapSpec
CONSTANTS
    a = a
    b = b
    c = c
    l1 = l1
    NoTask = NoTask
    NoList = NoList
    Task = {a, b, c}
    Lists = {l1}
    kMaxPriorities = 2
    kTickRateMs = 1
    Ticks = {1, 2, 3}
SYMMETRY TaskSymmetry
INVARIANTS
    LinksMirror
PROPERTIES
    ImplementsOps
