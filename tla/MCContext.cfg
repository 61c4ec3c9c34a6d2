SPECIFICATION ContextSpec
CONSTANTS
    a = a
    b = b
    Idle = Idle
    NoTask = NoTask
    NoList = NoList
    Task = {a, b, Idle}
    Lists = {}
    kMaxPriorities = 2
    kMaxTasks = 3
    kTickRateMs = 1
    TaskPriority <- OnePriority
    Delays = {1}
    kWaitForever = 99
    TickRange = 1
    Api = {"create_task", "delay_ms", "delete"}
    StackSlots = 7
SYMMETRY AppSymmetry
INVARIANTS
    ContextTypeOK
    ContextPreserved
    OverflowCaught
