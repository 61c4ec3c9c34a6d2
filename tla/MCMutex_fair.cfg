SPECIFICATION FairMutexSpec
CONSTANTS
    a = a
    b = b
    c = c
    m1 = m1
    m2 = m2
    Idle = Idle
    NoTask = NoTask
    NoList = NoList
    Task = {a, b, c, Idle}
    Lists = {m1}
    kMaxPriorities = 4
    kMaxTasks = 4
    kTickRateMs = 1
    TaskPriority <- LowMediumHigh
    Delays = {1}
    kWaitForever = 99
    TickRange = 1
    Api = {"lock", "unlock", "delay_ms"}
INVARIANTS
    NotOverBoosted
PROPERTIES
    HighestGetsMutex
