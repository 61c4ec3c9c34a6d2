SPECIFICATION FairSemSpec
CONSTANTS
    a = a
    b = b
    Idle = Idle
    NoTask = NoTask
    NoList = NoList
    Sem = Sem
    Task = {a, b, Idle}
    Lists = {Sem}
    kMaxPriorities = 3
    kMaxTasks = 3
    kTickRateMs = 1
    TaskPriority <- TwoPriorities
    Delays = {2}
    kWaitForever = 99
    TickRange = 1
    Api = {"take", "try_take", "give", "give_from_isr", "try_take_from_isr",
           "suspend", "resume", "delete", "delay_ms"}
    InitCount = 1
    CountMax = 2
INVARIANTS
    SemTypeOK
    ListsConsistent
    NoLostPreemption
    KernelAssertsHold
    TokensConserved
    NobodyWaitsForAToken
PROPERTIES
    WaitDecidedOnce
    TimedTakeReturns
    SleepersWake
    RoundRobin
