SPECIFICATION EventSpec
CONSTANTS
    a = a
    b = b
    c = c
    A = A
    B = B
    Idle = Idle
    NoTask = NoTask
    NoList = NoList
    waiters = waiters
    Task = {a, b, c, Idle}
    Lists = {waiters}
    Bit = {A, B}
    Requests <- SomeRequests
    kMaxPriorities = 3
    kMaxTasks = 4
    kTickRateMs = 1
    TaskPriority <- TwoLevels
    Delays = {1}
    kWaitForever = 99
    TickRange = 1
    Api = {"wait_bits", "set_bits", "clear_bits", "set_bits_from_isr"}
INVARIANTS
    NobodyWaitsForSetBits
    NoLostPreemption
PROPERTIES
    SetBitsExact
    WaitDecidedOnce
