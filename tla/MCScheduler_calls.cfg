SPECIFICATION SchedSpec
CONSTANTS
    a = a
    b = b
    c = c
    e = e
    Idle = Idle
    NoTask = NoTask
    NoList = NoList
    Task = {a, b, c, e, Idle}
    Lists = {}
    kMaxPriorities = 2
    kMaxTasks = 4
    kTickRateMs = 2
    TaskPriority <- OneBesideIdle
    Delays = {0, 3}
    kWaitForever = 99
    TickRange = 3
    Api = {"create_task", "delay_ms", "delay_until",
           "suspend", "resume", "delete"}
SYMMETRY AboveSymmetry
INVARIANTS
    TypeOK
    ListsConsistent
    ListsSorted
    OnlyRunningExecutes
    NoLostPreemption
    IInv
PROPERTIES
    DelayUntilExact
    SleepNotCutShort
