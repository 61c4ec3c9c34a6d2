SPECIFICATION QueueSpec
CONSTANTS
    a = a
    b = b
    x = x
    y = y
    Idle = Idle
    NoTask = NoTask
    NoList = NoList
    NoItem = NoItem
    senders = senders
    receivers = receivers
    Task = {a, b, Idle}
    Lists = {senders, receivers}
    Item = {x, y}
    capacity = 2
    kMaxPriorities = 3
    kMaxTasks = 3
    kTickRateMs = 1
    TaskPriority <- TwoLevels
    Delays = {1}
    kWaitForever = 99
    TickRange = 1
    Api = {"send", "receive", "send_from_isr", "receive_from_isr",
           "suspend", "resume"}
SYMMETRY ItemSymmetry
INVARIANTS
    QueueTypeOK
    NobodyWaitsInVain
    KernelAssertsHold
PROPERTIES
    ImplementsChannel
