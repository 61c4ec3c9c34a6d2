SPECIFICATION SchedSpec
CONSTANTS
    a = a
    b = b
    c = c
    e = e
    Idle = Idle
    NoTask = NoTask
    NoList = NoList
    Task = {a, b, Idle}
    Lists = {}
    kMaxPriorities = 2
    kMaxTasks = 3
    kTickRateMs = 1
    TaskPriority <- AnyPriority
    Delays = {1, 2}
    kWaitForever = 99
    TickRange = 1
    Api = {"delay_ms", "resume"}
INVARIANTS
    ResumeHarmless
