SPECIFICATION SiteSpec
CONSTANTS
    a = a
    b = b
    c = c
    e = e
    s1 = s1
    Idle = Idle
    NoTask = NoTask
    NoList = NoList
    NoSite = NoSite
    Task = {a, b, c, e, Idle}
    Lists = {}
    Site = {s1}
    kMaxPriorities = 2
    kMaxTasks = 5
    kTickRateMs = 1
    TaskPriority <- OnePriority
    Delays = {1}
    kWaitForever = 99
    TickRange = 1
    Api = {"create_task"}
INVARIANTS
    OneTaskPerStack
