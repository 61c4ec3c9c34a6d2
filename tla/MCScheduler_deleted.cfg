SPECIFICATION FairSchedSpec
CONSTANTS
    a = a
    b = b
    c = c
    e = e
    Idle = Idle
    NoTask = NoTask
    NoList = NoList
    Task = {a, b, Idle}
    Lists = {}
    kMaxPriorities = 3
    kMaxTasks = 3
    kTickRateMs = 1
    TaskPriority <- AnyPriority
    Delays = {1}
    kWaitForever = 99
    TickRange = 1
    Api = {"delay_ms", "suspend", "delete"}
PROPERTIES
    DeletedTerminal
