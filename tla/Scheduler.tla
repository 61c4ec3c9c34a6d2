----------------------------- MODULE Scheduler -----------------------------
(***************************************************************************)
(* Scheduler (src/src/scheduler.cpp) on one Cortex-M4 core.                *)
(*                                                                         *)
(* A critical section masks all interrupts, so each one is a single step.  *)
(* Between them interrupts are free: SysTick and, once it is pended, the   *)
(* PendSV exception that switches tasks come between the unlocked check of *)
(* a call, its critical section, its task_yield() and its return.  Thread  *)
(* code runs only while no PendSV is pending.                              *)
(***************************************************************************)
EXTENDS Kernel

CONSTANTS
    Idle,          \* the task start() creates; its body only waits
    kMaxTasks,     \* config::kMaxTasks: slots of task_table_
    TaskPriority,  \* the priorities the application creates a task with
    Delays,        \* the delays and timeouts in ms the application uses
    kWaitForever,  \* the timeout that never ends
    TickRange,     \* number of values of TickType (2^32 on the target)
    Api            \* the calls the application makes

VARIABLES
    kern,          \* the kernel data of module Kernel
    current_task,  \* Scheduler::current_task_
    started,       \* Scheduler::started_
    pendsv,        \* ICSR.PENDSVSET: a context switch is pending
    tick_count,    \* Scheduler::tick_count_
    call,          \* per task: the kernel call it is inside of, and where
    panic          \* the ACRTOS_ASSERT that stopped the system, or "none"

svars == <<kern, current_task, started, pendsv, tick_count, call, panic>>

SchedulerApi == {"create_task", "delay_ms", "delay_until",
                 "suspend", "resume", "delete"}

\* Calls that wait for an IPC object: they look at timeout_expired when their
\* task_yield() has returned.
WaitingApi == {"take", "lock", "send", "receive", "wait_bits"}

\* Calls that sleep: they return when their task_yield() has returned.
SleepingApi == {"delay_ms", "delay_until"}

ASSUME SchedulerAssumption ==
    /\ Idle \in Task
    /\ kMaxTasks \in Nat \ {0}
    /\ TaskPriority \in [Task -> SUBSET Priorities]
    /\ Delays \subseteq Nat
    /\ kWaitForever \in Nat
    /\ TickRange \in Nat \ {0}

\* The asserts that guard the kernel's own data, whatever the application does.
KernelAsserts == {"ready queue empty", "already in delay list",
                  "already parked", "receiver beside items"}

\* at: "run" in the task's own code, "check" after the test of create_task's
\* is_created flag (module CallSites), "cs" between an unlocked check and the
\* critical section, "yield" between a critical section and the task_yield()
\* that follows it, "ret" between task_yield() and the return.
NoCall == [op |-> "none", at |-> "run", arg |-> NoTask]

CallType == [op  : {"none"} \cup SchedulerApi \cup WaitingApi \cup
                   {"give", "unlock", "sent", "received", "set_bits"},
             at  : {"run", "check", "cs", "yield", "ret"},
             arg : Task \cup {NoTask} \cup Lists \cup 0..(TickRange - 1)]

TypeOK ==
    /\ kern \in KernelType
    /\ current_task \in Task \cup {NoTask}
    /\ started \in BOOLEAN
    /\ pendsv \in BOOLEAN
    /\ tick_count \in 0..(TickRange - 1)
    /\ call \in [Task -> CallType]
    /\ panic \in KernelAsserts \cup
                 {"none", "kMaxTasks too small", "resuming a delayed task",
                  "locking an owned mutex", "unlock by another task",
                  "stack overflow", "call site reached twice"}

SchedInit ==
    /\ kern = EmptyKernel
    /\ current_task = NoTask
    /\ started = FALSE
    /\ pendsv = FALSE
    /\ tick_count = 0
    /\ call = [t \in Task |-> NoCall]
    /\ panic = "none"

----------------------------------------------------------------------------
(* Thread execution *)

\* Thread code of t can take its next step.
Thread(t) == panic = "none" /\ ~pendsv /\ current_task = t

\* t is in its own code and calls op.  The idle task calls nothing.
Calls(t, op) == Thread(t) /\ t # Idle /\ call[t] = NoCall /\ op \in Api

\* t is inside op, at the given place.
Inside(t, op, at) == Thread(t) /\ call[t].op = op /\ call[t].at = at

GoTo(t, op, at, arg) ==
    call' = [call EXCEPT ![t] = [op |-> op, at |-> at, arg |-> arg]]

Return(t) == call' = [call EXCEPT ![t] = NoCall]

\* The end of a critical section: task_yield() follows if yields.
Leave(t, op, arg, yields) ==
    IF yields THEN GoTo(t, op, "yield", arg) ELSE Return(t)

\* A failed ACRTOS_ASSERT: acrtos_assert_failed masks interrupts and spins.
AssertFails(label) ==
    /\ panic' = label
    /\ UNCHANGED <<kern, current_task, started, pendsv, tick_count, call>>

\* Mutant of Handles: a task that is still being created has a handle.
Handles_early == {u \in Task \ {Idle} : kern.state[u] # "Free"}

\* Tasks whose handle somebody has: idle's is local to start(), and a task that
\* is being created is not known before it is ready.
Handles ==
    {u \in Task \ {Idle} :
        /\ kern.state[u] # "Free"
        /\ \A t \in Task : ~(/\ call[t].op = "create_task"
                             /\ call[t].at = "cs"
                             /\ call[t].arg = u)}

----------------------------------------------------------------------------
(* Boot: main() creates tasks and calls start() *)

MainCreate(u, p) ==
    /\ panic = "none" /\ ~started
    /\ u # Idle /\ kern.state[u] = "Free"
    /\ task_count(kern) < kMaxTasks
    /\ kern' = add_to_ready_queue(allocate_tcb(kern, u, p), u)
    /\ UNCHANGED <<current_task, started, pendsv, tick_count, call, panic>>

start ==
    /\ panic = "none" /\ ~started
    /\ task_count(kern) < kMaxTasks
    /\ kern' = add_to_ready_queue(allocate_tcb(kern, Idle, 0), Idle)
    /\ started' = TRUE
    /\ UNCHANGED <<current_task, pendsv, tick_count, call, panic>>

\* The task_yield() at the end of start_hardware_and_yield.  SysTick is already
\* running and may have switched to the first task before.
BootYield ==
    /\ Thread(NoTask) /\ started
    /\ pendsv' = TRUE
    /\ UNCHANGED <<kern, current_task, started, tick_count, call, panic>>

\* The table has no slot left for start()'s idle task or for create_task().
table_full == task_count(kern) >= kMaxTasks /\ AssertFails("kMaxTasks too small")

NoSlotForIdle == panic = "none" /\ ~started /\ table_full

NoSlot == \E t \in Task : Calls(t, "create_task") /\ table_full

----------------------------------------------------------------------------
(* Exceptions *)

\* Mutant of next_tick: the counter does not wrap.
next_tick_no_wrap(n) == n + 1

next_tick(n) == (n + 1) % TickRange

\* SysTick_Handler -> rtos_tick_handler -> Scheduler::tick
tick ==
    /\ panic = "none" /\ started
    /\ tick_count' = next_tick(tick_count)
    /\ kern' = delay_tick(kern)
    /\ pendsv' = (pendsv \/ needs_preemption(kern', current_task))
    /\ UNCHANGED <<current_task, started, call, panic>>

\* Mutant of SwitchOut: the outgoing task is linked but its state not written.
SwitchOut_stale(k, t) ==
    IF t # NoTask /\ k.state[t] = "Running" THEN ready_add(k, t) ELSE k

\* The outgoing task goes back to the ready lists unless it is blocked,
\* suspended, deleted or already ready again.
SwitchOut(k, t) ==
    IF t # NoTask /\ k.state[t] = "Running" THEN add_to_ready_queue(k, t) ELSE k

\* PendSV_Handler -> schedule_next_task
schedule_next_task ==
    LET k    == SwitchOut(kern, current_task)
        next == highest_priority_task(k)
    IN  /\ panic = "none" /\ pendsv
        /\ IF next = NoTask
           THEN AssertFails("ready queue empty")
           ELSE /\ pendsv' = FALSE
                /\ kern' = [pop_highest(k) EXCEPT !.state[next] = "Running"]
                /\ current_task' = next
                /\ UNCHANGED <<started, tick_count, call, panic>>

----------------------------------------------------------------------------
(* Calls of the running task *)

\* task_yield() after a critical section.
task_yield(t) ==
    /\ Thread(t) /\ t \in Task /\ call[t].at = "yield"
    /\ pendsv' = TRUE
    /\ IF call[t].op \in WaitingApi \cup SleepingApi
       THEN GoTo(t, call[t].op, "ret", call[t].arg)
       ELSE Return(t)
    /\ UNCHANGED <<kern, current_task, started, tick_count, panic>>

\* create_task -> create_task_impl: allocate_tcb is one critical section ...
create_task_impl(t, u, p) ==
    /\ u # Idle /\ kern.state[u] = "Free"
    /\ task_count(kern) < kMaxTasks
    /\ kern' = allocate_tcb(kern, u, p)
    /\ GoTo(t, "create_task", "cs", u)
    /\ UNCHANGED <<current_task, started, pendsv, tick_count, panic>>

create_task(t, u, p) == Calls(t, "create_task") /\ create_task_impl(t, u, p)

\* ... and add_to_ready_queue the next.  The priorities compared after it are
\* read outside the critical section; only Mutex ever changes them.
create_task_ready(t) ==
    LET u == call[t].arg IN
    /\ Inside(t, "create_task", "cs")
    /\ kern' = add_to_ready_queue(kern, u)
    /\ Leave(t, "create_task", NoTask, kern.priority[u] > kern.priority[t])
    /\ UNCHANGED <<current_task, started, pendsv, tick_count, panic>>

\* The critical section of both delay functions.
sleep(t, op, arg, ticks) ==
    IF in_delay_list(kern, t)
    THEN AssertFails("already in delay list")
    ELSE /\ kern' = delay_insert([kern EXCEPT !.state[t] = "Blocked"], t, ticks)
         /\ GoTo(t, op, "yield", arg)
         /\ UNCHANGED <<current_task, started, pendsv, tick_count, panic>>

\* delay_ms(0) returns at once.
delay_ms(t, ms) ==
    /\ Calls(t, "delay_ms")
    /\ ms_to_ticks(ms) # 0
    /\ sleep(t, "delay_ms", NoTask, ms_to_ticks(ms))

\* Mutant of remaining: the distance of the two counter values, wrap ignored.
remaining_no_wrap(wake, now) == IF wake > now THEN wake - now ELSE now - wake

\* wake - now, as TickType subtracts and int32_t reads it.
remaining(wake, now) ==
    LET d == (wake - now) % TickRange
    IN  IF 2 * d >= TickRange THEN d - TickRange ELSE d

\* A time that is not in the future returns at once.
delay_until(t, wake) ==
    /\ Calls(t, "delay_until")
    /\ remaining(wake, tick_count) > 0
    /\ sleep(t, "delay_until", wake, remaining(wake, tick_count))

\* The task runs again: delay_ms or delay_until returns.
sleep_return(t) ==
    /\ Inside(t, "delay_ms", "ret") \/ Inside(t, "delay_until", "ret")
    /\ Return(t)
    /\ UNCHANGED <<kern, current_task, started, pendsv, tick_count, panic>>

\* suspend_task looks for Deleted before its critical section ...
suspend_check(t, u) ==
    /\ Calls(t, "suspend") /\ u \in Handles
    /\ kern.state[u] # "Deleted"
    /\ GoTo(t, "suspend", "cs", u)
    /\ UNCHANGED <<kern, current_task, started, pendsv, tick_count, panic>>

\* ... and only for Suspended in it.
suspend_task(t) ==
    LET u == call[t].arg IN
    /\ Inside(t, "suspend", "cs")
    /\ IF kern.state[u] = "Suspended"
       THEN Return(t) /\ UNCHANGED kern
       ELSE /\ kern' = [unlink(kern, u) EXCEPT !.state[u] = "Suspended"]
            /\ Leave(t, "suspend", NoTask, u = t)
    /\ UNCHANGED <<current_task, started, pendsv, tick_count, panic>>

\* resume_task asserts before its critical section that u is not delayed ...
resume_check(t, u) ==
    /\ Calls(t, "resume") /\ u \in Handles
    /\ IF in_delay_list(kern, u)
       THEN AssertFails("resuming a delayed task")
       ELSE /\ GoTo(t, "resume", "cs", u)
            /\ UNCHANGED <<kern, current_task, started, pendsv, tick_count,
                           panic>>

\* Mutant of resumable: the state is not looked at in the critical section.
resumable_any(u) == TRUE

\* ... and acts on a suspended task only.
resumable(u) == kern.state[u] = "Suspended"

resume_task(t) ==
    LET u == call[t].arg IN
    /\ Inside(t, "resume", "cs")
    /\ IF ~resumable(u)
       THEN Return(t) /\ UNCHANGED kern
       ELSE /\ kern' = add_to_ready_queue(kern, u)
            /\ Leave(t, "resume", NoTask, kern.priority[u] > kern.priority[t])
    /\ UNCHANGED <<current_task, started, pendsv, tick_count, panic>>

\* delete_task looks for Deleted before its critical section only.  A task
\* whose function returns calls delete_task(get_current_task()): u = t.
delete_check(t, u) ==
    /\ Calls(t, "delete") /\ u \in Handles
    /\ kern.state[u] # "Deleted"
    /\ GoTo(t, "delete", "cs", u)
    /\ UNCHANGED <<kern, current_task, started, pendsv, tick_count, panic>>

delete_task(t) ==
    LET u == call[t].arg IN
    /\ Inside(t, "delete", "cs")
    /\ kern' = [unlink(kern, u) EXCEPT !.state[u] = "Deleted"]
    /\ Leave(t, "delete", NoTask, u = t)
    /\ UNCHANGED <<current_task, started, pendsv, tick_count, panic>>

----------------------------------------------------------------------------
(* What the IPC objects call inside their critical sections *)

\* The timeouts a waiting call can be given; 0 never waits.
Timeouts == (Delays \ {0}) \cup {kWaitForever}

\* The calling task parks on wait list l, with a timeout unless it is to wait
\* forever, and will yield.
wait_on(t, op, l, ms) ==
    IF kern.wait_list[t] # NoList
    THEN AssertFails("already parked")
    ELSE IF ms # kWaitForever /\ in_delay_list(kern, t)
    THEN AssertFails("already in delay list")
    ELSE /\ kern' = IF ms = kWaitForever THEN park(kern, t, l)
                    ELSE delay_insert(park(kern, t, l), t, ms_to_ticks(ms))
         /\ GoTo(t, op, "yield", l)
         /\ UNCHANGED <<current_task, started, pendsv, tick_count, panic>>

\* Mutant of preempts: the comparison is the wrong way round.
preempts_lower(u) ==
    started /\ current_task # NoTask /\ kern.priority[u] < kern.priority[current_task]

\* The result of make_task_ready: u should preempt the running task.
preempts(u) ==
    started /\ current_task # NoTask /\ kern.priority[u] > kern.priority[current_task]

\* The spin loop of acrtos_assert_failed.
Halted == panic # "none" /\ UNCHANGED svars

----------------------------------------------------------------------------
\* A step of the task that is running, inside a call it has made.
Proceed(t) ==
    \/ task_yield(t)
    \/ create_task_ready(t)
    \/ sleep_return(t)
    \/ suspend_task(t)
    \/ resume_task(t)
    \/ delete_task(t)

\* Any step of task t but the creation of another.
TaskStep(t) ==
    \/ Proceed(t)
    \/ \E ms \in Delays : delay_ms(t, ms)
    \/ \E wake \in 0..(TickRange - 1) : delay_until(t, wake)
    \/ \E u \in Task : \/ suspend_check(t, u)
                       \/ resume_check(t, u)
                       \/ delete_check(t, u)

SchedNext ==
    \/ \E u \in Task : \E p \in TaskPriority[u] : MainCreate(u, p)
    \/ start
    \/ BootYield
    \/ NoSlotForIdle
    \/ NoSlot
    \/ tick
    \/ schedule_next_task
    \/ \E t \in Task :
        \/ TaskStep(t)
        \/ \E u \in Task : \E p \in TaskPriority[u] : create_task(t, u, p)
    \/ Halted

SchedSpec == SchedInit /\ [][SchedNext]_svars

\* SysTick keeps firing, a pended PendSV is taken, and the running task goes on
\* with a call it has begun.  Nothing makes the application call the kernel.
Fairness ==
    /\ WF_svars(tick)
    /\ WF_svars(schedule_next_task)
    /\ WF_svars(BootYield)
    /\ \A t \in Task : WF_svars(Proceed(t))

FairSchedSpec == SchedSpec /\ Fairness

----------------------------------------------------------------------------
(* Properties *)

\* Whatever interleaving of calls, ticks and switches: each task is in exactly
\* the lists its state says, once, the bitmask is exact, and no blocked task
\* is beyond the reach of a wake-up (task.cpp and scheduler.cpp keep state,
\* links, wait_list and in_delay_list in step by hand).
ListsConsistent == Consistent(kern, {})

\* The order the lists promise: task.hpp says higher priority is closer to the
\* head, and DelayList is ordered by wake-up time.
ListsSorted == WaitSorted(kern) /\ DelaySorted(kern)

\* The processor executes a task's code only while the task is Running, except
\* for the few instructions between blocking, suspending or deleting itself and
\* task_yield(); and only the current task is Running.
OnlyRunningExecutes ==
    /\ \A t \in Task : kern.state[t] = "Running" => t = current_task
    /\ \A t \in Task :
          Thread(t) /\ call[t].at # "yield" => kern.state[t] = "Running"

\* A ready task of higher priority never waits for the next tick: a switch is
\* pending, or the running task is about to yield (the should_preempt results
\* of scheduler.cpp and ipc.cpp).
NoLostPreemption ==
    \A t \in Task :
        Thread(t) /\ call[t].at # "yield" =>
            \A u \in Task :
                kern.state[u] = "Ready" => kern.priority[u] <= kern.priority[t]

\* The asserts on the kernel's own data never fire: there is always a task to
\* switch to, and no task is put twice into the delay list or a wait list.
KernelAssertsHold == panic \notin KernelAsserts

\* A task between the two critical sections of create_task is suspended and
\* nobody else is about to act on it; suspend, resume and delete act on tasks
\* that exist, and never on idle.
CallArgs ==
    \A t \in Task : call[t].at = "cs" =>
        LET u == call[t].arg IN
        /\ u \in Task \ {Idle} /\ kern.state[u] # "Free"
        /\ call[t].op = "create_task" =>
              /\ kern.state[u] = "Suspended"
              /\ \A v \in Task \ {t} : call[v].at = "cs" => call[v].arg # u

\* From start() on the idle task wants the processor, and before it nothing
\* runs: schedule_next_task always finds a task.
IdleReady ==
    /\ call[Idle] = NoCall
    /\ IF started THEN kern.state[Idle] \in {"Ready", "Running"}
       ELSE kern.state[Idle] = "Free" /\ current_task = NoTask /\ ~pendsv

\* The inductive invariant: what the critical sections of the scheduler keep
\* up for each other.
IInv ==
    /\ TypeOK
    /\ ListsConsistent
    /\ OnlyRunningExecutes
    /\ NoLostPreemption
    /\ KernelAssertsHold
    /\ CallArgs
    /\ IdleReady

\* scheduler.hpp on delay_until: the task is blocked "until the tick counter
\* reaches wake_time".  However long it sleeps and though the counter wraps, the
\* counter does not show this time while the task is blocked, and shows it with
\* the step that makes the task ready.
DelayUntilExact ==
    [][\A t \in Task :
        call[t].op = "delay_until" /\ kern.state[t] = "Blocked" =>
            /\ tick_count # call[t].arg
            /\ kern'.state[t] = "Ready" => tick_count' = call[t].arg]_svars

\* A sleep ends at the tick on which its time is up, not before: only suspend
\* and delete take a sleeping task out of the delay list (DelayList::tick).
SleepNotCutShort ==
    [][\A t \in Task :
        /\ kern.state[t] = "Blocked" /\ kern.wait_list[t] = NoList
        /\ kern'.state[t] = "Ready"
        => kern.delay_left[t] = 1 /\ tick]_svars

\* What becomes of the result of t's wait in a step: as long as t is parked
\* nothing is decided; once it is in no wait list, the timeout flag that its call
\* will look at stays as it is, and no timeout is left that could end the wait
\* once more.
ResultKept(t) ==
    IF kern.wait_list[t] # NoList
    THEN ~kern.timeout_expired[t]
    ELSE /\ kern'.wait_list[t] = NoList
         /\ kern'.timeout_expired[t] = kern.timeout_expired[t]
         /\ ~in_delay_list(kern', t)

\* The result of a wait is decided exactly once: between the hand-over, the
\* timeout or the suspension that ends it and the return of the call, which may
\* be many ticks, suspensions and hand-overs later, nothing changes it
\* (timeout_expired and in_delay_list are written in ipc.cpp, task.cpp and
\* scheduler.cpp).
WaitDecidedOnce ==
    [][\A t \in Task :
        call[t].op \in WaitingApi /\ call'[t].op = call[t].op
            => ResultKept(t)]_svars

\* types.hpp: Deleted is a terminal state.
DeletedTerminal ==
    [][\A t \in Task :
        kern.state[t] = "Deleted" => kern'.state[t] = "Deleted"]_svars

\* task.hpp on resume: "No effect on tasks in other states".
ResumeHarmless == panic # "resuming a delayed task"

\* Sleeping tasks wake up, unless an assert stops the system.
SleepersWake ==
    \A t \in Task :
        in_delay_list(kern, t) ~> ~in_delay_list(kern, t) \/ panic # "none"

\* Tasks of equal priority share the processor: a ready task does not wait
\* forever while no task of higher priority wants to run.
RoundRobin ==
    \A t \in Task :
        []<>(\/ kern.state[t] # "Ready"
             \/ ~started \/ panic # "none"
             \/ \E u \in Task : /\ kern.state[u] \in {"Ready", "Running"}
                               /\ kern.priority[u] > kern.priority[t])
=============================================================================
