--------------------------- MODULE SchedulerProofs ---------------------------
(***************************************************************************)
(* IInv is an invariant of SchedSpec for every set of tasks, number of     *)
(* priorities, table size, tick range and choice of calls.                 *)
(***************************************************************************)
EXTENDS Scheduler, KernelProofs

LEMMA InitInv == SchedInit => IInv
  <1> SUFFICES ASSUME SchedInit PROVE IInv
    OBVIOUS
  <1>1. kern \in KernelType /\ Consistent(kern, {})
    BY EmptyConsistent DEF SchedInit
  <1>2. \A t \in Task : kern.state[t] = "Free"
    BY DEF SchedInit, EmptyKernel
  <1>3. NoCall \in CallType
    BY DEF NoCall, CallType
  <1>4. TypeOK
    <2>1. tick_count \in 0..(TickRange - 1)
      BY SchedulerAssumption DEF SchedInit
    <2>2. call \in [Task -> CallType]
      BY <1>3 DEF SchedInit
    <2> QED
      BY <1>1, <2>1, <2>2 DEF SchedInit, TypeOK
  <1>5. \A t \in Task : call[t] = NoCall /\ call[t].at = "run"
    BY DEF SchedInit, NoCall
  <1>6. OnlyRunningExecutes /\ NoLostPreemption /\ KernelAssertsHold
    BY <1>2, KernelAssumption
    DEF SchedInit, OnlyRunningExecutes, NoLostPreemption, KernelAssertsHold, Thread,
        KernelAsserts
  <1>7. CallArgs /\ IdleReady
    BY <1>2, <1>5, SchedulerAssumption DEF SchedInit, CallArgs, IdleReady
  <1> QED
    BY <1>1, <1>4, <1>6, <1>7 DEF IInv, ListsConsistent

----------------------------------------------------------------------------
\* A failed assert of the application stops everything.
LEMMA PanicStep ==
    ASSUME IInv, NEW label, AssertFails(label),
           label \in {"kMaxTasks too small", "resuming a delayed task",
                      "locking an owned mutex", "unlock by another task",
                      "stack overflow"}
    PROVE  IInv'
  <1>1. panic' = label /\ label # "none" /\ label \notin KernelAsserts
    BY DEF AssertFails, KernelAsserts
  <1>2. TypeOK' /\ KernelAssertsHold'
    BY <1>1 DEF IInv, AssertFails, TypeOK, KernelAssertsHold
  <1>3. ListsConsistent' /\ CallArgs' /\ IdleReady'
    BY DEF IInv, AssertFails, ListsConsistent, CallArgs, IdleReady
  <1>4. OnlyRunningExecutes' /\ NoLostPreemption'
    BY <1>1 DEF IInv, AssertFails, OnlyRunningExecutes, NoLostPreemption, Thread
  <1> QED
    BY <1>2, <1>3, <1>4 DEF IInv

\* What a step of the running task t has to show: the lists stay consistent,
\* no task but t is touched in a way that idle or another call relies on, and
\* t yields if it gives up the processor or readies a task above it.
LEMMA ThreadStep ==
    ASSUME IInv, NEW t \in Task \ {Idle}, Thread(t),
           UNCHANGED <<current_task, started, pendsv, tick_count, panic>>,
           kern' \in KernelType, Consistent(kern', {}),
           NEW c \in CallType, call' = [call EXCEPT ![t] = c],
           \A u \in Task : kern'.state[u] = "Running" => kern.state[u] = "Running",
           c.at # "yield" =>
               /\ kern'.state[t] = "Running"
               /\ \A u \in Task : kern'.state[u] = "Ready" =>
                                      kern'.priority[u] <= kern'.priority[t],
           kern'.state[Idle] = kern.state[Idle],
           CallArgs'
    PROVE  IInv'
  <1>1. call \in [Task -> CallType] /\ Idle \in Task
    BY SchedulerAssumption DEF IInv, TypeOK
  <1>2. TypeOK' /\ KernelAssertsHold'
    BY <1>1 DEF IInv, TypeOK, KernelAssertsHold
  <1>3. ListsConsistent'
    BY DEF ListsConsistent
  <1>4. call'[Idle] = NoCall /\ call'[t] = c
    BY <1>1 DEF IInv, IdleReady
  <1>5. IdleReady'
    BY <1>4 DEF IInv, IdleReady
  <1>6. \A v \in Task : Thread(v)' => v = t
    BY DEF Thread
  <1>7. OnlyRunningExecutes'
    BY <1>4, <1>6 DEF IInv, OnlyRunningExecutes
  <1>8. NoLostPreemption'
    BY <1>4, <1>6 DEF IInv, NoLostPreemption
  <1> QED
    BY <1>2, <1>3, <1>5, <1>7, <1>8 DEF IInv

\* A task that is not between a critical section and task_yield() is Running
\* while it executes, and no ready task is above it.
LEMMA RunningThread ==
    ASSUME IInv, NEW t \in Task, Thread(t), call[t].at # "yield"
    PROVE  /\ kern.state[t] = "Running"
           /\ started
           /\ \A u \in Task : kern.state[u] = "Ready" =>
                                  kern.priority[u] <= kern.priority[t]
  BY KernelAssumption
  DEF IInv, OnlyRunningExecutes, NoLostPreemption, IdleReady, Thread

\* Facts about the state that every step starts from.
LEMMA Basics ==
    ASSUME IInv
    PROVE  /\ kern \in KernelType /\ Consistent(kern, {})
           /\ call \in [Task -> CallType]
           /\ Idle \in Task
           /\ \A t \in Task : kern.priority[t] \in Priorities /\ kern.priority[t] \in Int
           /\ NoCall \in CallType /\ NoCall.at = "run"
  <1>1. kern \in KernelType /\ Consistent(kern, {}) /\ call \in [Task -> CallType]
    BY DEF IInv, TypeOK, ListsConsistent
  <1>2. \A t \in Task : kern.priority[t] \in Priorities
    BY <1>1, Fields
  <1>3. Priorities \subseteq Int
    BY KernelAssumption DEF Priorities
  <1> QED
    BY <1>1, <1>2, <1>3, SchedulerAssumption DEF NoCall, CallType

\* A call that is not at "cs" after the step, and leaves the tasks the other
\* calls name existing and the ones being created suspended, keeps CallArgs.
LEMMA CallArgsKept ==
    ASSUME IInv, NEW t \in Task, NEW c \in CallType, call' = [call EXCEPT ![t] = c],
           c.at # "cs",
           \A v \in Task \ {t} : call[v].at = "cs" =>
               /\ kern'.state[call[v].arg] # "Free"
               /\ call[v].op = "create_task" => kern'.state[call[v].arg] = "Suspended"
    PROVE  CallArgs'
  <1>1. \A v \in Task : call'[v] = IF v = t THEN c ELSE call[v]
    BY Basics
  <1> QED
    BY <1>1 DEF IInv, CallArgs
----------------------------------------------------------------------------
\* ms_to_ticks is a number of ticks.
LEMMA TicksType ==
    ASSUME NEW ms \in Nat
    PROVE  ms_to_ticks(ms) \in Nat
  <1>1. ms \div kTickRateMs \in Nat
    BY KernelAssumption
  <1> QED
    BY <1>1 DEF ms_to_ticks

\* A wake time in the future is a positive number of ticks away.
LEMMA RemainingType ==
    ASSUME NEW wake \in 0..(TickRange - 1), NEW now \in 0..(TickRange - 1),
           remaining(wake, now) > 0
    PROVE  remaining(wake, now) \in Nat \ {0}
  <1> DEFINE d == (wake - now) % TickRange
  <1>1. d \in 0..(TickRange - 1)
    BY SchedulerAssumption
  <1>2. remaining(wake, now) = IF 2 * d >= TickRange THEN d - TickRange ELSE d
    BY DEF remaining
  <1> HIDE DEF d
  <1> QED
    BY <1>1, <1>2, SchedulerAssumption

\* Both delay functions: the caller is Running, so it is in no list.
LEMMA SleepStep ==
    ASSUME IInv, NEW t \in Task \ {Idle}, Thread(t), call[t] = NoCall,
           NEW op \in {"delay_ms", "delay_until"},
           NEW arg \in {NoTask} \cup 0..(TickRange - 1), NEW n \in Nat \ {0},
           sleep(t, op, arg, n)
    PROVE  IInv'
  <1> DEFINE k == [kern EXCEPT !.state[t] = "Blocked"]
             c == [op |-> op, at |-> "yield", arg |-> arg]
  <1>1. kern.state[t] = "Running"
    BY Basics, RunningThread
  <1>2. Loose(kern, t) /\ Consistent(kern, {t}) /\ "Blocked" \in TaskStates
    BY <1>1, Basics, NotListed, InHand DEF TaskStates
  <1>3. k \in KernelType /\ Consistent(k, {t}) /\ Loose(k, t)
    BY <1>2, Basics, SetState
  <1>4. \A u \in Task : k.state[u] = IF u = t THEN "Blocked" ELSE kern.state[u]
    BY Basics DEF KernelType
  <1>5. ~in_delay_list(kern, t)
    BY <1>2 DEF Loose, in_delay_list
  <1>6. /\ kern' = delay_insert(k, t, n)
        /\ call' = [call EXCEPT ![t] = c]
        /\ UNCHANGED <<current_task, started, pendsv, tick_count, panic>>
    BY <1>5 DEF sleep, GoTo
  <1> HIDE DEF k
  <1>7. kern' \in KernelType /\ Consistent(kern', {}) /\ kern'.state = k.state
    BY <1>3, <1>4, <1>6, DelayInsert DEF Loose, in_delay_list
  <1>8. c \in CallType /\ c.at = "yield"
    BY DEF CallType, SchedulerApi
  <1> HIDE DEF c
  <1>9. \A v \in Task \ {t} : call[v].at = "cs" =>
            /\ kern'.state[call[v].arg] # "Free"
            /\ call[v].op = "create_task" => kern'.state[call[v].arg] = "Suspended"
    BY <1>1, <1>4, <1>7 DEF IInv, CallArgs
  <1>10. CallArgs'
    BY <1>6, <1>8, <1>9, CallArgsKept
  <1>11. /\ \A u \in Task : kern'.state[u] = "Running" => kern.state[u] = "Running"
         /\ kern'.state[Idle] = kern.state[Idle]
    BY <1>4, <1>7, Basics
  <1> QED
    BY <1>6, <1>7, <1>8, <1>10, <1>11, ThreadStep

LEMMA DelayMsStep ==
    ASSUME IInv, NEW t \in Task, NEW ms \in Delays, delay_ms(t, ms)
    PROVE  IInv'
  <1>1. ms_to_ticks(ms) \in Nat \ {0}
    BY TicksType, SchedulerAssumption DEF delay_ms
  <1> QED
    BY <1>1, SleepStep DEF delay_ms, Calls

LEMMA DelayUntilStep ==
    ASSUME IInv, NEW t \in Task, NEW wake \in 0..(TickRange - 1), delay_until(t, wake)
    PROVE  IInv'
  <1>1. remaining(wake, tick_count) \in Nat \ {0}
    BY RemainingType DEF delay_until, IInv, TypeOK
  <1> QED
    BY <1>1, SleepStep DEF delay_until, Calls

\* The check that suspend, resume and delete make before their critical section.
LEMMA CheckStep ==
    ASSUME IInv, NEW t \in Task, NEW u \in Handles,
           NEW op \in {"suspend", "resume", "delete"},
           Calls(t, op), GoTo(t, op, "cs", u),
           UNCHANGED <<kern, current_task, started, pendsv, tick_count, panic>>
    PROVE  IInv'
  <1> DEFINE c == [op |-> op, at |-> "cs", arg |-> u]
  <1>1. u \in Task \ {Idle} /\ kern.state[u] # "Free"
    BY DEF Handles
  <1>2. c \in CallType /\ c.at = "cs" /\ c.op # "create_task" /\ c.arg = u
    BY <1>1 DEF CallType, SchedulerApi
  <1>3. call' = [call EXCEPT ![t] = c]
    BY DEF GoTo
  <1> HIDE DEF c
  <1>4. t \in Task \ {Idle} /\ Thread(t) /\ call[t] = NoCall
    BY DEF Calls
  <1>5. \A v \in Task : call'[v] = IF v = t THEN c ELSE call[v]
    BY <1>3, Basics
  <1>6. CallArgs'
    <2> SUFFICES ASSUME NEW v \in Task, call'[v].at = "cs"
                 PROVE  LET w == call'[v].arg IN
                        /\ w \in Task \ {Idle} /\ kern'.state[w] # "Free"
                        /\ call'[v].op = "create_task" =>
                              /\ kern'.state[w] = "Suspended"
                              /\ \A x \in Task \ {v} :
                                    call'[x].at = "cs" => call'[x].arg # w
      BY DEF CallArgs
    <2>1. CASE v = t
      BY <1>1, <1>2, <1>5, <2>1
    <2>2. CASE v # t
      <3>1. call[v].op = "create_task" => call[v].arg # u
        BY <1>5, <2>2 DEF Handles
      <3> QED
        BY <1>2, <1>5, <2>2, <3>1 DEF IInv, CallArgs
    <2> QED
      BY <2>1, <2>2
  <1>7. /\ kern.state[t] = "Running"
        /\ \A w \in Task : kern.state[w] = "Ready" => kern.priority[w] <= kern.priority[t]
    BY <1>4, Basics, RunningThread
  <1> QED
    BY <1>2, <1>3, <1>4, <1>6, <1>7, Basics, ThreadStep
\* resume_task's assert stops the system before anything changes.
LEMMA ResumeCheckStep ==
    ASSUME IInv, NEW t \in Task, NEW u \in Task, resume_check(t, u)
    PROVE  IInv'
  <1>1. CASE in_delay_list(kern, u)
    BY <1>1, PanicStep DEF resume_check
  <1>2. CASE ~in_delay_list(kern, u)
    BY <1>2, CheckStep DEF resume_check
  <1> QED
    BY <1>1, <1>2

\* The first critical section of create_task.
LEMMA CreateTaskStep ==
    ASSUME IInv, NEW t \in Task, NEW u \in Task, NEW p \in TaskPriority[u],
           create_task(t, u, p)
    PROVE  IInv'
  <1> DEFINE c == [op |-> "create_task", at |-> "cs", arg |-> u]
  <1>1. /\ t \in Task \ {Idle} /\ Thread(t) /\ call[t] = NoCall
        /\ u # Idle /\ kern.state[u] = "Free"
        /\ kern' = allocate_tcb(kern, u, p)
        /\ call' = [call EXCEPT ![t] = c]
        /\ UNCHANGED <<current_task, started, pendsv, tick_count, panic>>
    BY DEF create_task, create_task_impl, Calls, GoTo
  <1>2. c \in CallType /\ c.at = "cs" /\ c.op = "create_task" /\ c.arg = u
    BY DEF CallType, SchedulerApi
  <1> HIDE DEF c
  <1>3. p \in Priorities
    BY SchedulerAssumption
  <1>4. /\ kern' \in KernelType
        /\ Consistent(kern', {})
        /\ \A v \in Task : kern'.state[v] = IF v = u THEN "Suspended" ELSE kern.state[v]
        /\ \A v \in Task : kern'.priority[v] = IF v = u THEN p ELSE kern.priority[v]
    BY <1>1, <1>3, Basics, AllocateTcb
  <1>5. /\ kern.state[t] = "Running"
        /\ \A w \in Task : kern.state[w] = "Ready" => kern.priority[w] <= kern.priority[t]
    BY <1>1, Basics, RunningThread
  <1>6. \A v \in Task : call'[v] = IF v = t THEN c ELSE call[v]
    BY <1>1, Basics
  <1>7. CallArgs'
    <2>1. \A v \in Task \ {t} : call'[v].at = "cs" =>
              call'[v].arg \in Task \ {Idle} /\ call'[v].arg # u
      BY <1>1, <1>6 DEF IInv, CallArgs
    <2> SUFFICES ASSUME NEW v \in Task, call'[v].at = "cs"
                 PROVE  LET w == call'[v].arg IN
                        /\ w \in Task \ {Idle} /\ kern'.state[w] # "Free"
                        /\ call'[v].op = "create_task" =>
                              /\ kern'.state[w] = "Suspended"
                              /\ \A x \in Task \ {v} :
                                    call'[x].at = "cs" => call'[x].arg # w
      BY DEF CallArgs
    <2>2. CASE v = t
      BY <1>1, <1>2, <1>4, <1>6, <2>1, <2>2
    <2>3. CASE v # t
      BY <1>2, <1>4, <1>6, <2>1, <2>3 DEF IInv, CallArgs
    <2> QED
      BY <2>2, <2>3
  <1>8. /\ \A v \in Task : kern'.state[v] = "Running" => kern.state[v] = "Running"
        /\ kern'.state[Idle] = kern.state[Idle]
        /\ kern'.state[t] = "Running"
        /\ \A v \in Task : kern'.state[v] = "Ready" => kern'.priority[v] <= kern'.priority[t]
    BY <1>1, <1>4, <1>5, Basics
  <1> QED
    BY <1>1, <1>2, <1>4, <1>7, <1>8, ThreadStep

\* Whether the caller yields or returns, it is not before a critical section.
LEMMA LeaveType ==
    ASSUME IInv, NEW t \in Task, NEW op \in SchedulerApi, NEW yields \in BOOLEAN,
           Leave(t, op, NoTask, yields)
    PROVE  \E c \in CallType : /\ call' = [call EXCEPT ![t] = c]
                               /\ c.at # "cs"
                               /\ yields => c.at = "yield"
  <1> DEFINE y == [op |-> op, at |-> "yield", arg |-> NoTask]
  <1>1. y \in CallType /\ y.at = "yield"
    BY DEF CallType
  <1>2. call' = [call EXCEPT ![t] = IF yields THEN y ELSE NoCall]
    BY DEF Leave, GoTo, Return
  <1> HIDE DEF y
  <1>3. CASE yields
    BY <1>1, <1>2, <1>3
  <1>4. CASE ~yields
    BY <1>2, <1>4, Basics
  <1> QED
    BY <1>3, <1>4

\* The second critical section of create_task and the one of resume_task: a
\* suspended task becomes ready, and the caller yields to a higher priority.
LEMMA ReadyStep ==
    ASSUME IInv, NEW t \in Task, NEW op \in {"create_task", "resume"},
           Inside(t, op, "cs"), kern.state[call[t].arg] = "Suspended",
           kern' = add_to_ready_queue(kern, call[t].arg),
           Leave(t, op, NoTask, kern.priority[call[t].arg] > kern.priority[t]),
           UNCHANGED <<current_task, started, pendsv, tick_count, panic>>
    PROVE  IInv'
  <1> DEFINE u == call[t].arg
             yields == kern.priority[u] > kern.priority[t]
  <1>1. Thread(t) /\ call[t].op = op /\ call[t].at = "cs" /\ t # Idle
    BY Basics DEF Inside, IInv, IdleReady
  <1>2. u \in Task \ {Idle}
    BY <1>1 DEF IInv, CallArgs
  <1>3. /\ kern.state[t] = "Running"
        /\ \A w \in Task : kern.state[w] = "Ready" => kern.priority[w] <= kern.priority[t]
    BY <1>1, RunningThread
  <1>4. PICK c \in CallType : /\ call' = [call EXCEPT ![t] = c]
                              /\ c.at # "cs"
                              /\ yields => c.at = "yield"
    <2>1. yields \in BOOLEAN /\ op \in SchedulerApi
      BY DEF SchedulerApi
    <2> HIDE DEF yields
    <2> QED
      BY <2>1, LeaveType DEF yields
  <1>5. \A v \in Task \ {t} :
            call[v].at = "cs" /\ call[v].op = "create_task" => call[v].arg # u
    BY <1>1, <1>2 DEF IInv, CallArgs
  <1> HIDE DEF u
  <1>6. /\ kern' \in KernelType
        /\ Consistent(kern', {})
        /\ kern'.state = [kern.state EXCEPT ![u] = "Ready"]
        /\ kern'.priority = kern.priority
    BY <1>2, Basics, AddToReadyQueue DEF u
  <1>7. \A v \in Task : kern'.state[v] = IF v = u THEN "Ready" ELSE kern.state[v]
    BY <1>6, Basics DEF KernelType
  <1>8. CallArgs'
    <2>1. \A v \in Task \ {t} : call[v].at = "cs" =>
              /\ kern'.state[call[v].arg] # "Free"
              /\ call[v].op = "create_task" => kern'.state[call[v].arg] = "Suspended"
      BY <1>5, <1>7 DEF IInv, CallArgs
    <2> QED
      BY <1>4, <2>1, CallArgsKept
  <1>9. c.at # "yield" =>
            /\ kern'.state[t] = "Running"
            /\ \A v \in Task : kern'.state[v] = "Ready" => kern'.priority[v] <= kern'.priority[t]
    <2>1. ~yields => kern.priority[u] <= kern.priority[t]
      BY <1>2, Basics
    <2>2. u # t
      BY <1>3 DEF u
    <2> HIDE DEF yields
    <2> QED
      BY <1>3, <1>4, <1>6, <1>7, <2>1, <2>2
  <1>10. /\ \A v \in Task : kern'.state[v] = "Running" => kern.state[v] = "Running"
         /\ kern'.state[Idle] = kern.state[Idle]
    BY <1>2, <1>7, Basics
  <1> QED
    BY <1>1, <1>4, <1>6, <1>8, <1>9, <1>10, ThreadStep

LEMMA CreateTaskReadyStep ==
    ASSUME IInv, NEW t \in Task, create_task_ready(t)
    PROVE  IInv'
  <1>1. kern.state[call[t].arg] = "Suspended"
    BY DEF create_task_ready, Inside, IInv, CallArgs
  <1> QED
    BY <1>1, ReadyStep DEF create_task_ready

\* A call that returns without touching the kernel.
LEMMA ReturnStep ==
    ASSUME IInv, NEW t \in Task \ {Idle}, Thread(t), call[t].at # "yield", Return(t),
           UNCHANGED <<kern, current_task, started, pendsv, tick_count, panic>>
    PROVE  IInv'
  <1>1. call' = [call EXCEPT ![t] = NoCall] /\ NoCall \in CallType /\ NoCall.at = "run"
    BY Basics DEF Return
  <1>2. CallArgs'
    <2>1. \A v \in Task \ {t} : call[v].at = "cs" =>
              /\ kern'.state[call[v].arg] # "Free"
              /\ call[v].op = "create_task" => kern'.state[call[v].arg] = "Suspended"
      BY DEF IInv, CallArgs
    <2> QED
      BY <1>1, <2>1, CallArgsKept
  <1>3. /\ kern.state[t] = "Running"
        /\ \A w \in Task : kern.state[w] = "Ready" => kern.priority[w] <= kern.priority[t]
    BY RunningThread
  <1> QED
    BY <1>1, <1>2, <1>3, Basics, ThreadStep

LEMMA SleepReturnStep ==
    ASSUME IInv, NEW t \in Task, sleep_return(t)
    PROVE  IInv'
  <1>1. Thread(t) /\ call[t].at = "ret" /\ t # Idle
    BY Basics DEF sleep_return, Inside, IInv, IdleReady, NoCall
  <1> QED
    BY <1>1, ReturnStep DEF sleep_return

LEMMA ResumeTaskStep ==
    ASSUME IInv, NEW t \in Task, resume_task(t)
    PROVE  IInv'
  <1>1. Thread(t) /\ call[t].at = "cs" /\ t # Idle
    BY Basics DEF resume_task, Inside, IInv, IdleReady
  <1>2. CASE kern.state[call[t].arg] = "Suspended"
    BY <1>2, ReadyStep DEF resume_task, resumable
  <1>3. CASE kern.state[call[t].arg] # "Suspended"
    BY <1>1, <1>3, ReturnStep DEF resume_task, resumable
  <1> QED
    BY <1>2, <1>3

\* suspend_task and delete_task take u out of its list and write its state.
LEMMA UnlinkStep ==
    ASSUME IInv, NEW t \in Task, NEW op \in {"suspend", "delete"},
           Inside(t, op, "cs"), NEW x \in {"Suspended", "Deleted"},
           x = "Deleted" => op = "delete",
           kern' = [unlink(kern, call[t].arg) EXCEPT !.state[call[t].arg] = x],
           Leave(t, op, NoTask, call[t].arg = t),
           UNCHANGED <<current_task, started, pendsv, tick_count, panic>>
    PROVE  IInv'
  <1> DEFINE u == call[t].arg
             k == unlink(kern, u)
  <1>1. Thread(t) /\ call[t].op = op /\ call[t].at = "cs" /\ t # Idle
    BY Basics DEF Inside, IInv, IdleReady
  <1>2. u \in Task \ {Idle}
    BY <1>1 DEF IInv, CallArgs
  <1>3. /\ kern.state[t] = "Running"
        /\ \A w \in Task : kern.state[w] = "Ready" => kern.priority[w] <= kern.priority[t]
    BY <1>1, RunningThread
  <1>4. PICK c \in CallType : /\ call' = [call EXCEPT ![t] = c]
                              /\ c.at # "cs"
                              /\ u = t => c.at = "yield"
    <2>1. (u = t) \in BOOLEAN /\ op \in SchedulerApi
      BY DEF SchedulerApi
    <2> QED
      BY <2>1, LeaveType
  <1>5. \A v \in Task \ {t} :
            call[v].at = "cs" /\ call[v].op = "create_task" => call[v].arg # u
    BY <1>1, <1>2 DEF IInv, CallArgs
  <1> HIDE DEF u
  <1>6. /\ k \in KernelType
        /\ Consistent(k, {u})
        /\ Loose(k, u)
        /\ k.state = kern.state
        /\ k.priority = kern.priority
    BY <1>2, Basics, Unlink
  <1>7. kern' = [k EXCEPT !.state[u] = x]
    BY DEF u
  <1> HIDE DEF k
  <1>8. kern' \in KernelType /\ Consistent(kern', {})
    <2>1. x \in TaskStates /\ x \notin {"Ready", "Blocked"}
      BY DEF TaskStates
    <2> QED
      BY <1>2, <1>6, <1>7, <2>1, SetState
  <1>9. /\ \A v \in Task : kern'.state[v] = IF v = u THEN x ELSE kern.state[v]
        /\ kern'.priority = kern.priority
    <2>1. /\ kern'.state = [k.state EXCEPT ![u] = x]
          /\ kern'.priority = k.priority
      BY <1>6, <1>7 DEF KernelType
    <2>2. k.state \in [Task -> TaskStates]
      BY <1>6 DEF KernelType
    <2> QED
      BY <1>6, <2>1, <2>2
  <1>10. CallArgs'
    <2>1. \A v \in Task \ {t} : call[v].at = "cs" =>
              /\ kern'.state[call[v].arg] # "Free"
              /\ call[v].op = "create_task" => kern'.state[call[v].arg] = "Suspended"
      BY <1>5, <1>9 DEF IInv, CallArgs
    <2> QED
      BY <1>4, <2>1, CallArgsKept
  <1>11. c.at # "yield" =>
            /\ kern'.state[t] = "Running"
            /\ \A v \in Task : kern'.state[v] = "Ready" => kern'.priority[v] <= kern'.priority[t]
    BY <1>3, <1>4, <1>9
  <1>12. /\ \A v \in Task : kern'.state[v] = "Running" => kern.state[v] = "Running"
         /\ kern'.state[Idle] = kern.state[Idle]
    BY <1>2, <1>9, Basics
  <1> QED
    BY <1>1, <1>4, <1>8, <1>10, <1>11, <1>12, ThreadStep

LEMMA SuspendTaskStep ==
    ASSUME IInv, NEW t \in Task, suspend_task(t)
    PROVE  IInv'
  <1>1. Thread(t) /\ call[t].at = "cs" /\ t # Idle
    BY Basics DEF suspend_task, Inside, IInv, IdleReady
  <1>2. CASE kern.state[call[t].arg] = "Suspended"
    BY <1>1, <1>2, ReturnStep DEF suspend_task
  <1>3. CASE kern.state[call[t].arg] # "Suspended"
    BY <1>3, UnlinkStep DEF suspend_task
  <1> QED
    BY <1>2, <1>3

LEMMA DeleteTaskStep ==
    ASSUME IInv, NEW t \in Task, delete_task(t)
    PROVE  IInv'
  BY UnlinkStep DEF delete_task
----------------------------------------------------------------------------
\* task_yield() pends the switch; nothing else is promised until it is taken.
LEMMA YieldStep ==
    ASSUME IInv, NEW t \in Task, task_yield(t)
    PROVE  IInv'
  <1>1. Thread(t) /\ call[t].at = "yield" /\ t # Idle /\ started
    BY Basics, KernelAssumption DEF task_yield, IInv, IdleReady, Thread, NoCall
  <1>2. PICK c \in CallType : call' = [call EXCEPT ![t] = c] /\ c.at # "cs"
    <2> DEFINE r == [op |-> call[t].op, at |-> "ret", arg |-> call[t].arg]
    <2>1. call[t] \in CallType
      BY Basics
    <2>2. r \in CallType /\ r.at = "ret"
      BY <2>1 DEF CallType
    <2>3. call' = [call EXCEPT ![t] = IF call[t].op \in WaitingApi \cup SleepingApi THEN r ELSE NoCall]
      BY DEF task_yield, GoTo, Return
    <2> HIDE DEF r
    <2> QED
      BY <2>2, <2>3, Basics
  <1>3. pendsv' = TRUE /\ UNCHANGED <<kern, current_task, started, tick_count, panic>>
    BY DEF task_yield
  <1>4. CallArgs'
    <2>1. \A v \in Task \ {t} : call[v].at = "cs" =>
              /\ kern'.state[call[v].arg] # "Free"
              /\ call[v].op = "create_task" => kern'.state[call[v].arg] = "Suspended"
      BY <1>3 DEF IInv, CallArgs
    <2> QED
      BY <1>2, <2>1, CallArgsKept
  <1>5. call' \in [Task -> CallType] /\ call'[Idle] = NoCall
    BY <1>1, <1>2, Basics DEF IInv, IdleReady
  <1>6. TypeOK' /\ ListsConsistent' /\ KernelAssertsHold'
    BY <1>3, <1>5 DEF IInv, TypeOK, ListsConsistent, KernelAssertsHold
  <1>7. IdleReady'
    BY <1>1, <1>3, <1>5 DEF IInv, IdleReady
  <1>8. OnlyRunningExecutes' /\ NoLostPreemption'
    BY <1>3 DEF IInv, OnlyRunningExecutes, NoLostPreemption, Thread
  <1> QED
    BY <1>4, <1>6, <1>7, <1>8 DEF IInv

LEMMA BootYieldStep ==
    ASSUME IInv, BootYield
    PROVE  IInv'
  <1>1. /\ pendsv' = TRUE /\ started
        /\ UNCHANGED <<kern, current_task, started, tick_count, call, panic>>
    BY DEF BootYield
  <1>2. TypeOK' /\ ListsConsistent' /\ KernelAssertsHold' /\ CallArgs' /\ IdleReady'
    BY <1>1 DEF IInv, TypeOK, ListsConsistent, KernelAssertsHold, CallArgs, IdleReady
  <1>3. OnlyRunningExecutes' /\ NoLostPreemption'
    BY <1>1 DEF IInv, OnlyRunningExecutes, NoLostPreemption, Thread
  <1> QED
    BY <1>2, <1>3 DEF IInv

\* main() creates u before start(), or start() creates idle: no task runs yet.
LEMMA BootCreate ==
    ASSUME IInv, ~started, NEW u \in Task, kern.state[u] = "Free",
           NEW p \in Priorities,
           kern' = add_to_ready_queue(allocate_tcb(kern, u, p), u),
           u = Idle <=> started', started' \in BOOLEAN,
           UNCHANGED <<current_task, pendsv, tick_count, call, panic>>
    PROVE  IInv'
  <1> DEFINE k == allocate_tcb(kern, u, p)
  <1>1. /\ k \in KernelType
        /\ Consistent(k, {})
        /\ \A v \in Task : k.state[v] = IF v = u THEN "Suspended" ELSE kern.state[v]
    BY Basics, AllocateTcb
  <1> HIDE DEF k
  <1>2. /\ kern' \in KernelType
        /\ Consistent(kern', {})
        /\ kern'.state = [k.state EXCEPT ![u] = "Ready"]
    BY <1>1, AddToReadyQueue DEF k
  <1>3. \A v \in Task : kern'.state[v] = IF v = u THEN "Ready" ELSE kern.state[v]
    BY <1>1, <1>2 DEF KernelType
  <1>4. current_task = NoTask /\ kern.state[Idle] = "Free" /\ ~pendsv
    BY DEF IInv, IdleReady
  <1>5. TypeOK' /\ ListsConsistent' /\ KernelAssertsHold'
    BY <1>2 DEF IInv, TypeOK, ListsConsistent, KernelAssertsHold
  <1>6. CallArgs'
    <2>1. \A t \in Task : call[t].at = "cs" => call[t].arg # u
      BY DEF IInv, CallArgs
    <2> QED
      BY <1>3, <2>1 DEF IInv, CallArgs
  <1>7. IdleReady'
    BY <1>3, <1>4, Basics DEF IInv, IdleReady
  <1>8. OnlyRunningExecutes' /\ NoLostPreemption'
    BY <1>3, <1>4, KernelAssumption DEF IInv, OnlyRunningExecutes, NoLostPreemption, Thread
  <1> QED
    BY <1>5, <1>6, <1>7, <1>8 DEF IInv

\* SysTick: woken tasks become ready, and a switch is pended if one of them is
\* not below the current task.
LEMMA TickStep ==
    ASSUME IInv, tick
    PROVE  IInv'
  <1>1. /\ started /\ panic = "none"
        /\ kern' = delay_tick(kern)
        /\ pendsv' = (pendsv \/ needs_preemption(kern', current_task))
        /\ tick_count' = (tick_count + 1) % TickRange
        /\ UNCHANGED <<current_task, started, call, panic>>
    BY DEF tick, next_tick
  <1>2. /\ kern' \in KernelType
        /\ Consistent(kern', {})
        /\ \A t \in Task : \/ kern'.state[t] = kern.state[t]
                           \/ kern.state[t] = "Blocked" /\ kern'.state[t] = "Ready"
        /\ kern'.priority = kern.priority
    BY <1>1, Basics, DelayTick
  <1>3. TypeOK'
    <2>1. tick_count' \in 0..(TickRange - 1)
      BY <1>1, SchedulerAssumption DEF IInv, TypeOK
    <2>2. pendsv' \in BOOLEAN
      BY <1>1 DEF IInv, TypeOK, needs_preemption, tick_preempts
    <2> QED
      BY <1>1, <1>2, <2>1, <2>2 DEF IInv, TypeOK
  <1>4. ListsConsistent' /\ KernelAssertsHold'
    BY <1>1, <1>2 DEF IInv, ListsConsistent, KernelAssertsHold
  <1>5. CallArgs'
    BY <1>1, <1>2 DEF IInv, CallArgs
  <1>6. IdleReady'
    BY <1>1, <1>2, Basics DEF IInv, IdleReady
  <1>7. OnlyRunningExecutes'
    BY <1>1, <1>2 DEF IInv, OnlyRunningExecutes, Thread
  <1>8. NoLostPreemption'
    <2> SUFFICES ASSUME NEW t \in Task, Thread(t)', call'[t].at # "yield",
                        NEW u \in Task, kern'.state[u] = "Ready"
                 PROVE  kern'.priority[u] <= kern'.priority[t]
      BY DEF NoLostPreemption
    <2>1. current_task = t /\ ~needs_preemption(kern', t) /\ t # NoTask
      BY <1>1, KernelAssumption DEF Thread
    <2>2. /\ kern'.priority[u] \in Priorities
          /\ kern'.ready_lists[kern'.priority[u]] \in Seq(Task)
          /\ u \in Range(kern'.ready_lists[kern'.priority[u]])
      BY <1>2, Fields DEF Consistent, ReadyComplete
    <2>3. kern'.priority[u] \in kern'.ready_bitmask
      BY <1>2, <2>2, RangeByIndex DEF Consistent, BitmaskExact
    <2>4. ~(peek_highest_priority(kern') >= kern'.priority[t])
      BY <2>1, <2>3 DEF needs_preemption, tick_preempts
    <2>5. /\ peek_highest_priority(kern') \in kern'.ready_bitmask
          /\ \A q \in kern'.ready_bitmask : q <= peek_highest_priority(kern')
      <3>1. /\ kMaxPriorities - 1 \in Nat
            /\ kern'.ready_bitmask \in SUBSET (0..(kMaxPriorities - 1))
        BY <1>2, KernelAssumption, Fields DEF Priorities
      <3> QED
        BY <2>3, <3>1, MaxOfSet DEF peek_highest_priority
    <2>6. /\ kern'.priority[t] \in Int /\ kern'.priority[u] \in Int
          /\ peek_highest_priority(kern') \in Int
      BY <1>2, <2>5, Basics, Fields, KernelAssumption DEF Priorities
    <2> QED
      BY <2>3, <2>4, <2>5, <2>6
  <1> QED
    BY <1>3, <1>4, <1>5, <1>6, <1>7, <1>8 DEF IInv

\* PendSV: the current task goes back to its ready list if it was running, and
\* idle at least is there to be picked.
LEMMA SwitchTo ==
    ASSUME IInv, schedule_next_task
    PROVE  /\ started /\ pendsv' = FALSE
           /\ UNCHANGED <<started, tick_count, call, panic>>
           /\ current_task' \in Task
           /\ kern.state[current_task'] \in {"Ready", "Running"}
           /\ kern' \in KernelType /\ Consistent(kern', {})
           /\ kern'.priority = kern.priority
           /\ \A t \in Task : kern'.state[t] = IF t = current_task' THEN "Running"
                                               ELSE IF kern.state[t] = "Running" THEN "Ready"
                                               ELSE kern.state[t]
           /\ \A t \in Task : kern'.state[t] = "Ready" =>
                                  kern.priority[t] <= kern.priority[current_task']
  <1> DEFINE k == SwitchOut(kern, current_task)
             next == highest_priority_task(k)
  <1>1. panic = "none" /\ pendsv /\ started
    BY DEF schedule_next_task, IInv, IdleReady
  <1>2. /\ k \in KernelType
        /\ Consistent(k, {})
        /\ k.priority = kern.priority
        /\ \A t \in Task : k.state[t] = IF kern.state[t] = "Running" THEN "Ready"
                                                                     ELSE kern.state[t]
    <2>1. CASE current_task # NoTask /\ kern.state[current_task] = "Running"
      <3>1. current_task \in Task /\ k = add_to_ready_queue(kern, current_task)
        BY <2>1 DEF SwitchOut, IInv, TypeOK
      <3>2. /\ k \in KernelType
            /\ Consistent(k, {})
            /\ k.priority = kern.priority
            /\ k.state = [kern.state EXCEPT ![current_task] = "Ready"]
        BY <2>1, <3>1, Basics, AddToReadyQueue
      <3>3. \A t \in Task : kern.state[t] = "Running" <=> t = current_task
        BY <2>1 DEF IInv, OnlyRunningExecutes
      <3>4. kern.state \in [Task -> TaskStates]
        BY Basics DEF KernelType
      <3> HIDE DEF k
      <3> QED
        BY <3>1, <3>2, <3>3, <3>4
    <2>2. CASE ~(current_task # NoTask /\ kern.state[current_task] = "Running")
      <3>1. k = kern
        BY <2>2 DEF SwitchOut
      <3>2. \A t \in Task : kern.state[t] # "Running"
        BY <2>2, KernelAssumption DEF IInv, OnlyRunningExecutes
      <3> QED
        BY <3>1, <3>2, Basics
    <2> QED
      BY <2>1, <2>2
  <1> HIDE DEF k
  <1>3. k.ready_bitmask # {}
    <2>1. k.state[Idle] = "Ready"
      BY <1>1, <1>2, Basics DEF IInv, IdleReady
    <2>2. /\ k.priority[Idle] \in Priorities
          /\ k.ready_lists[k.priority[Idle]] \in Seq(Task)
          /\ Idle \in Range(k.ready_lists[k.priority[Idle]])
      BY <1>2, <2>1, Basics, Fields DEF Consistent, ReadyComplete
    <2> QED
      BY <1>2, <2>2, RangeByIndex DEF Consistent, BitmaskExact
  <1>4. /\ next \in Task
        /\ k.state[next] = "Ready"
        /\ \A u \in Task : k.state[u] = "Ready" => k.priority[u] <= k.priority[next]
        /\ pop_highest(k) \in KernelType
        /\ Consistent(pop_highest(k), {next})
        /\ Loose(pop_highest(k), next)
        /\ pop_highest(k).state = k.state
        /\ pop_highest(k).priority = k.priority
    BY <1>2, <1>3, PopHighest
  <1>5. /\ pendsv' = FALSE
        /\ kern' = [pop_highest(k) EXCEPT !.state[next] = "Running"]
        /\ current_task' = next
        /\ UNCHANGED <<started, tick_count, call, panic>>
    BY <1>4, KernelAssumption DEF schedule_next_task, k
  <1> HIDE DEF next
  <1> DEFINE k2 == pop_highest(k)
  <1>6. kern' = [k2 EXCEPT !.state[next] = "Running"]
    BY <1>5
  <1>7. /\ k2 \in KernelType /\ Consistent(k2, {next}) /\ Loose(k2, next)
        /\ k2.state = k.state /\ k2.priority = k.priority
    BY <1>4
  <1> HIDE DEF k2
  <1>8. kern' \in KernelType /\ Consistent(kern', {})
    <2>1. "Running" \in TaskStates /\ "Running" \notin {"Ready", "Blocked"}
      BY DEF TaskStates
    <2> QED
      BY <1>4, <1>6, <1>7, <2>1, SetState
  <1>9. /\ kern'.priority = kern.priority
        /\ \A t \in Task : kern'.state[t] = IF t = next THEN "Running"
                                            ELSE IF kern.state[t] = "Running" THEN "Ready"
                                            ELSE kern.state[t]
    <2>1. kern'.state = [k2.state EXCEPT ![next] = "Running"] /\ kern'.priority = k2.priority
      BY <1>6, <1>7 DEF KernelType
    <2>2. k2.state \in [Task -> TaskStates]
      BY <1>7 DEF KernelType
    <2> QED
      BY <1>2, <1>7, <2>1, <2>2
  <1>10. kern.state[next] \in {"Ready", "Running"}
    BY <1>2, <1>4
  <1>11. \A t \in Task : kern'.state[t] = "Ready" => kern.priority[t] <= kern.priority[next]
    BY <1>2, <1>4, <1>9
  <1> QED
    BY <1>1, <1>4, <1>5, <1>8, <1>9, <1>10, <1>11

LEMMA SwitchStep ==
    ASSUME IInv, schedule_next_task
    PROVE  IInv'
  <1> DEFINE next == current_task'
  <1>1. /\ started /\ pendsv' = FALSE
        /\ UNCHANGED <<started, tick_count, call, panic>>
        /\ next \in Task /\ kern.state[next] \in {"Ready", "Running"}
        /\ kern' \in KernelType /\ Consistent(kern', {})
        /\ kern'.priority = kern.priority
        /\ \A t \in Task : kern'.state[t] = IF t = next THEN "Running"
                                            ELSE IF kern.state[t] = "Running" THEN "Ready"
                                            ELSE kern.state[t]
        /\ \A t \in Task : kern'.state[t] = "Ready" =>
                               kern.priority[t] <= kern.priority[next]
    BY SwitchTo
  <1>2. TypeOK' /\ ListsConsistent' /\ KernelAssertsHold'
    BY <1>1 DEF IInv, TypeOK, ListsConsistent, KernelAssertsHold
  <1>3. CallArgs'
    <2>1. \A t \in Task : kern'.state[t] = "Free" => kern.state[t] = "Free"
      BY <1>1
    <2>2. \A t \in Task : kern.state[t] = "Suspended" => kern'.state[t] = "Suspended"
      BY <1>1
    <2> QED
      BY <1>1, <2>1, <2>2 DEF IInv, CallArgs
  <1>4. IdleReady'
    BY <1>1, Basics DEF IInv, IdleReady
  <1>5. OnlyRunningExecutes'
    BY <1>1 DEF OnlyRunningExecutes, Thread
  <1>6. NoLostPreemption'
    BY <1>1 DEF NoLostPreemption, Thread
  <1> QED
    BY <1>2, <1>3, <1>4, <1>5, <1>6 DEF IInv

\* Every step of the scheduler keeps the invariant.
LEMMA NextInv == IInv /\ [SchedNext]_svars => IInv'
  <1> SUFFICES ASSUME IInv, [SchedNext]_svars PROVE IInv'
    OBVIOUS
  <1>1. ASSUME NEW u \in Task, NEW p \in TaskPriority[u], MainCreate(u, p) PROVE IInv'
    <2>1. p \in Priorities /\ started \in BOOLEAN
      BY SchedulerAssumption DEF IInv, TypeOK
    <2> QED
      BY <1>1, <2>1, BootCreate DEF MainCreate
  <1>2. CASE start
    <2>1. 0 \in Priorities /\ Idle \in Task /\ kern.state[Idle] = "Free"
      BY <1>2, KernelAssumption, Basics DEF start, IInv, IdleReady, Priorities
    <2> QED
      BY <1>2, <2>1, BootCreate DEF start
  <1>3. CASE BootYield
    BY <1>3, BootYieldStep
  <1>4. CASE NoSlotForIdle \/ NoSlot
    BY <1>4, PanicStep DEF NoSlotForIdle, NoSlot, table_full
  <1>5. CASE tick
    BY <1>5, TickStep
  <1>6. CASE schedule_next_task
    BY <1>6, SwitchStep
  <1>7. ASSUME NEW t \in Task, Proceed(t) PROVE IInv'
    BY <1>7, YieldStep, CreateTaskReadyStep, SleepReturnStep, SuspendTaskStep, ResumeTaskStep,
       DeleteTaskStep DEF Proceed
  <1>8. ASSUME NEW t \in Task, NEW u \in Task, NEW p \in TaskPriority[u],
               create_task(t, u, p)
        PROVE  IInv'
    BY <1>8, CreateTaskStep
  <1>9. ASSUME NEW t \in Task, NEW ms \in Delays, delay_ms(t, ms) PROVE IInv'
    BY <1>9, DelayMsStep
  <1>10. ASSUME NEW t \in Task, NEW wake \in 0..(TickRange - 1), delay_until(t, wake)
         PROVE  IInv'
    BY <1>10, DelayUntilStep
  <1>11. ASSUME NEW t \in Task, NEW u \in Task,
                suspend_check(t, u) \/ resume_check(t, u) \/ delete_check(t, u)
         PROVE  IInv'
    <2>1. CASE suspend_check(t, u)
      BY <2>1, CheckStep DEF suspend_check
    <2>2. CASE delete_check(t, u)
      BY <2>2, CheckStep DEF delete_check
    <2> QED
      BY <1>11, <2>1, <2>2, ResumeCheckStep
  <1>12. CASE UNCHANGED svars
    BY <1>12 DEF svars, IInv, TypeOK, ListsConsistent, OnlyRunningExecutes,
       NoLostPreemption, KernelAssertsHold, CallArgs, IdleReady, Thread
  <1> QED
    BY <1>1, <1>2, <1>3, <1>4, <1>5, <1>6, <1>7, <1>8, <1>9, <1>10, <1>11, <1>12
    DEF SchedNext, TaskStep, Halted

----------------------------------------------------------------------------
(* What a step of the scheduler may do to the waits, priorities and sleeps  *)
(* that the IPC objects and the application rely on.                       *)

\* A wait goes on as it was, or it ends and has failed.
WaitsKept(k, k1) ==
    \A t \in Task :
        \/ /\ k1.wait_list[t] = k.wait_list[t]
           /\ k1.timeout_expired[t] = k.timeout_expired[t]
        \/ /\ k.wait_list[t] # NoList
           /\ k1.wait_list[t] = NoList
           /\ k1.timeout_expired[t] = TRUE

\* Only the creation of a task writes its priorities, both with one value, and
\* no task becomes free again.
PrioritiesKept(k, k1) ==
    \A t \in Task :
        \/ /\ k1.priority[t] = k.priority[t]
           /\ k1.base_priority[t] = k.base_priority[t]
           /\ k.state[t] # "Free" => k1.state[t] # "Free"
        \/ /\ k.state[t] = "Free"
           /\ k1.state[t] # "Free"
           /\ k1.priority[t] = k1.base_priority[t]

KernelStep(k, k1) ==
    /\ WaitsKept(k, k1)
    /\ PrioritiesKept(k, k1)
    /\ Sorted(k) => Sorted(k1)

\* A call that waits for an IPC object stays the same call, and the scheduler
\* begins none.
CallsKept ==
    \A t \in Task :
        call[t].op \in WaitingApi \/ call'[t].op \in WaitingApi =>
            call'[t].op = call[t].op /\ call'[t].arg = call[t].arg

\* A sleeper that becomes ready has had its last tick.
SleepKept ==
    \A t \in Task :
        /\ kern.state[t] = "Blocked" /\ kern.wait_list[t] = NoList
        /\ kern'.state[t] = "Ready"
        => kern.delay_left[t] = 1 /\ tick

\* A task in delay_until has the ticks left that lead to the wake time it asked
\* for, the wrap of the counter included.
UntilLeft ==
    \A t \in Task :
        call[t].op = "delay_until" /\ kern.delay_left[t] > 0 =>
            /\ (tick_count + kern.delay_left[t]) % TickRange = call[t].arg
            /\ kern.delay_left[t] < TickRange

\* A task whose call waits is not left blocked when it leaves its wait list, nor
\* blocked again after that.
AwakeKept ==
    \A t \in Task :
        /\ call[t].op \in WaitingApi
        /\ kern'.wait_list[t] = NoList /\ kern'.state[t] = "Blocked"
        => kern.wait_list[t] = NoList /\ kern.state[t] = "Blocked"

Effect ==
    /\ KernelStep(kern, kern')
    /\ CallsKept
    /\ SleepKept
    /\ AwakeKept
    /\ UntilLeft => UntilLeft'

\* Steps that change only ready lists and states of existing tasks.
LEMMA SameWaitsStep ==
    ASSUME NEW k \in KernelType, NEW k1 \in KernelType, SameWaits(k, k1),
           \A t \in Task : k.state[t] # "Free" => k1.state[t] # "Free"
    PROVE  KernelStep(k, k1)
  <1>1. WaitsKept(k, k1) /\ PrioritiesKept(k, k1)
    BY DEF SameWaits, WaitsKept, PrioritiesKept
  <1> QED
    BY <1>1, SameWaitsSorted DEF KernelStep

\* The running task t goes from a call that does not wait to another that is no
\* delay_until; nobody else's call is touched.
Quiet(t) ==
    /\ \A v \in Task \ {t} : call'[v] = call[v]
    /\ call[t].op \notin WaitingApi
    /\ call'[t].op \notin WaitingApi
    /\ call'[t].op # "delay_until"

LEMMA QuietCalls ==
    ASSUME NEW t \in Task, Quiet(t)
    PROVE  CallsKept
  BY DEF Quiet, CallsKept

\* delay_until stays exact when the tick counter stands still and nobody that is
\* in it sleeps longer.
LEMMA UntilKept ==
    ASSUME tick_count' = tick_count,
           \A t \in Task : call'[t].op = "delay_until" /\ kern'.delay_left[t] > 0 =>
               /\ call[t].op = "delay_until" /\ call'[t].arg = call[t].arg
               /\ kern'.delay_left[t] = kern.delay_left[t]
    PROVE  UntilLeft => UntilLeft'
  BY DEF UntilLeft

\* A critical section that ends with Leave or Return is quiet.
LEMMA LeaveQuiet ==
    ASSUME IInv, NEW t \in Task, NEW op \in SchedulerApi, op # "delay_until",
           call[t].op = op, NEW yields \in BOOLEAN,
           Leave(t, op, NoTask, yields) \/ Return(t)
    PROVE  Quiet(t)
  <1>1. op \notin WaitingApi /\ NoCall.op = "none" /\ NoCall.op \notin WaitingApi
    BY DEF SchedulerApi, WaitingApi, NoCall
  <1>2. PICK c : call' = [call EXCEPT ![t] = c] /\ c.op \in {op, "none"}
    <2> DEFINE y == [op |-> op, at |-> "yield", arg |-> NoTask]
    <2>1. y.op = op
      OBVIOUS
    <2>2. call' = [call EXCEPT ![t] = y] \/ call' = [call EXCEPT ![t] = NoCall]
      BY DEF Leave, GoTo, Return
    <2> HIDE DEF y
    <2> QED
      BY <1>1, <2>1, <2>2
  <1>3. \A v \in Task : call'[v] = IF v = t THEN c ELSE call[v]
    BY <1>2, Basics
  <1> QED
    BY <1>1, <1>2, <1>3 DEF Quiet, SchedulerApi, WaitingApi

\* A call that begins with GoTo is quiet.
LEMMA GoToQuiet ==
    ASSUME IInv, NEW t \in Task, call[t] = NoCall, NEW op \in SchedulerApi,
           op # "delay_until", NEW at, NEW arg, GoTo(t, op, at, arg)
    PROVE  Quiet(t)
  <1> DEFINE c == [op |-> op, at |-> at, arg |-> arg]
  <1>1. call' = [call EXCEPT ![t] = c] /\ c.op = op
    BY DEF GoTo
  <1> HIDE DEF c
  <1>2. \A v \in Task : call'[v] = IF v = t THEN c ELSE call[v]
    BY <1>1, Basics
  <1>3. call[t].op = "none"
    BY DEF NoCall
  <1> QED
    BY <1>1, <1>2, <1>3 DEF Quiet, SchedulerApi, WaitingApi

\* Steps that leave the kernel data alone.
LEMMA KernelUnchanged ==
    ASSUME IInv, UNCHANGED <<kern, tick_count>>, CallsKept,
           \A t \in Task : call'[t].op = "delay_until" =>
               call[t].op = "delay_until" /\ call'[t].arg = call[t].arg
    PROVE  Effect
  <1>1. KernelStep(kern, kern')
    BY DEF KernelStep, WaitsKept, PrioritiesKept
  <1>2. SleepKept /\ AwakeKept
    BY DEF SleepKept, AwakeKept
  <1> QED
    BY <1>1, <1>2, UntilKept DEF Effect

LEMMA QuietUnchanged ==
    ASSUME IInv, UNCHANGED <<kern, tick_count>>, NEW t \in Task, Quiet(t)
    PROVE  Effect
  <1>1. \A v \in Task : call'[v].op = "delay_until" => call'[v] = call[v]
    BY DEF Quiet
  <1> QED
    BY <1>1, QuietCalls, KernelUnchanged

LEMMA CallUnchanged ==
    ASSUME IInv, UNCHANGED <<kern, tick_count, call>>
    PROVE  Effect
  <1>1. CallsKept
    BY DEF CallsKept
  <1> QED
    BY <1>1, KernelUnchanged

\* allocate_tcb writes the priorities of the new task and nothing about waits.
LEMMA AllocateStep ==
    ASSUME IInv, NEW u \in Task, kern.state[u] = "Free", NEW p \in Priorities
    PROVE  LET k == allocate_tcb(kern, u, p)
           IN  /\ KernelStep(kern, k)
               /\ k \in KernelType /\ Consistent(k, {})
               /\ \A v \in Task : k.state[v] = IF v = u THEN "Suspended" ELSE kern.state[v]
               /\ k.delay_left = kern.delay_left
               /\ \A v \in Task : k.wait_list[v] = kern.wait_list[v]
  <1> DEFINE k == allocate_tcb(kern, u, p)
  <1>1. /\ k \in KernelType /\ Consistent(k, {})
        /\ \A v \in Task : k.state[v] = IF v = u THEN "Suspended" ELSE kern.state[v]
    BY Basics, AllocateTcb
  <1>2. /\ \A v \in Task \ {u} : /\ k.priority[v] = kern.priority[v]
                                 /\ k.base_priority[v] = kern.base_priority[v]
        /\ k.priority[u] = p /\ k.base_priority[u] = p
        /\ k.delay_left = kern.delay_left
        /\ \A v \in Task : k.wait_list[v] = kern.wait_list[v]
        /\ k.timeout_expired = kern.timeout_expired
        /\ Sorted(kern) => Sorted(k)
    BY Basics, AllocateWaits
  <1> HIDE DEF k
  <1>3. WaitsKept(kern, k)
    BY <1>2 DEF WaitsKept
  <1>4. PrioritiesKept(kern, k)
    BY <1>1, <1>2 DEF PrioritiesKept
  <1>5. KernelStep(kern, k)
    BY <1>2, <1>3, <1>4 DEF KernelStep
  <1> QED
    BY <1>1, <1>2, <1>5 DEF k

\* add_to_ready_queue touches no wait and no sleep.
LEMMA ReadyEffect ==
    ASSUME NEW k \in KernelType, Consistent(k, {}), NEW u \in Task,
           k.state[u] \notin {"Ready", "Blocked"}
    PROVE  LET k1 == add_to_ready_queue(k, u)
           IN  /\ KernelStep(k, k1)
               /\ \A v \in Task : k1.state[v] = IF v = u THEN "Ready" ELSE k.state[v]
               /\ k1.delay_left = k.delay_left /\ k1.wait_list = k.wait_list
  <1> DEFINE k1 == add_to_ready_queue(k, u)
  <1>1. k1 \in KernelType /\ k1.state = [k.state EXCEPT ![u] = "Ready"]
    BY AddToReadyQueue
  <1>2. SameWaits(k, k1)
    BY ReadyOps
  <1> HIDE DEF k1
  <1>3. \A v \in Task : k1.state[v] = IF v = u THEN "Ready" ELSE k.state[v]
    BY <1>1 DEF KernelType
  <1>4. KernelStep(k, k1)
    <2>1. \A v \in Task : k.state[v] # "Free" => k1.state[v] # "Free"
      BY <1>3
    <2> QED
      BY <1>1, <1>2, <2>1, SameWaitsStep
  <1>5. k1.delay_left = k.delay_left /\ k1.wait_list = k.wait_list
    BY <1>2 DEF SameWaits
  <1> QED
    BY <1>3, <1>4, <1>5 DEF k1

LEMMA KernelStepTwice ==
    ASSUME NEW k1, NEW k2, NEW k3, KernelStep(k1, k2), KernelStep(k2, k3)
    PROVE  KernelStep(k1, k3)
  <1>1. WaitsKept(k1, k3)
    BY DEF KernelStep, WaitsKept
  <1>2. PrioritiesKept(k1, k3)
    BY DEF KernelStep, PrioritiesKept
  <1> QED
    BY <1>1, <1>2 DEF KernelStep

LEMMA BootStates ==
    ASSUME IInv, NEW u \in Task, kern.state[u] = "Free", NEW p \in Priorities
    PROVE  LET k == add_to_ready_queue(allocate_tcb(kern, u, p), u)
           IN  \A v \in Task : k.state[v] = IF v = u THEN "Ready" ELSE kern.state[v]
  <1> DEFINE k == allocate_tcb(kern, u, p)
  <1>1. /\ k \in KernelType /\ Consistent(k, {})
        /\ \A v \in Task : k.state[v] = IF v = u THEN "Suspended" ELSE kern.state[v]
    BY AllocateStep
  <1> HIDE DEF k
  <1>2. \A v \in Task :
            add_to_ready_queue(k, u).state[v] = IF v = u THEN "Ready" ELSE k.state[v]
    BY <1>1, ReadyEffect
  <1> QED
    BY <1>1, <1>2 DEF k

LEMMA BootEffect ==
    ASSUME IInv, NEW u \in Task, kern.state[u] = "Free", NEW p \in Priorities,
           kern' = add_to_ready_queue(allocate_tcb(kern, u, p), u),
           UNCHANGED <<tick_count, call>>
    PROVE  Effect
  <1> DEFINE k == allocate_tcb(kern, u, p)
  <1>1. /\ KernelStep(kern, k)
        /\ k \in KernelType /\ Consistent(k, {})
        /\ \A v \in Task : k.state[v] = IF v = u THEN "Suspended" ELSE kern.state[v]
        /\ k.delay_left = kern.delay_left
        /\ \A v \in Task : k.wait_list[v] = kern.wait_list[v]
    BY AllocateStep
  <1>2. kern' = add_to_ready_queue(k, u)
    OBVIOUS
  <1> HIDE DEF k
  <1>3. /\ KernelStep(k, kern')
        /\ \A v \in Task : kern'.state[v] = IF v = u THEN "Ready" ELSE k.state[v]
        /\ kern'.delay_left = k.delay_left /\ kern'.wait_list = k.wait_list
    BY <1>1, <1>2, ReadyEffect
  <1>4. KernelStep(kern, kern')
    BY <1>1, <1>3, KernelStepTwice
  <1>5. SleepKept /\ AwakeKept
    BY <1>1, <1>3 DEF SleepKept, AwakeKept
  <1>6. CallsKept
    BY DEF CallsKept
  <1> QED
    BY <1>1, <1>3, <1>4, <1>5, <1>6, UntilKept DEF Effect

LEMMA CreateEffect ==
    ASSUME IInv, NEW t \in Task, NEW u \in Task, NEW p \in TaskPriority[u],
           create_task(t, u, p)
    PROVE  Effect
  <1>1. /\ call[t] = NoCall /\ kern.state[u] = "Free"
        /\ kern' = allocate_tcb(kern, u, p)
        /\ GoTo(t, "create_task", "cs", u)
        /\ tick_count' = tick_count
    BY DEF create_task, create_task_impl, Calls
  <1>2. Quiet(t)
    BY <1>1, GoToQuiet DEF SchedulerApi
  <1>3. /\ KernelStep(kern, kern')
        /\ \A v \in Task : kern'.state[v] = IF v = u THEN "Suspended" ELSE kern.state[v]
        /\ kern'.delay_left = kern.delay_left
        /\ \A v \in Task : kern'.wait_list[v] = kern.wait_list[v]
    BY <1>1, AllocateStep, SchedulerAssumption
  <1>4. SleepKept /\ AwakeKept
    BY <1>3 DEF SleepKept, AwakeKept
  <1>5. UntilLeft => UntilLeft'
    BY <1>1, <1>2, <1>3, UntilKept DEF Quiet
  <1> QED
    BY <1>2, <1>3, <1>4, <1>5, QuietCalls DEF Effect

\* The task that create_task or resume_task makes ready was suspended.
LEMMA MakeReadyEffect ==
    ASSUME IInv, NEW t \in Task, Quiet(t), NEW u \in Task, kern.state[u] = "Suspended",
           kern' = add_to_ready_queue(kern, u), tick_count' = tick_count
    PROVE  Effect
  <1>1. /\ KernelStep(kern, kern')
        /\ \A v \in Task : kern'.state[v] = IF v = u THEN "Ready" ELSE kern.state[v]
        /\ kern'.delay_left = kern.delay_left /\ kern'.wait_list = kern.wait_list
    BY Basics, ReadyEffect
  <1>2. SleepKept /\ AwakeKept
    BY <1>1 DEF SleepKept, AwakeKept
  <1>3. UntilLeft => UntilLeft'
    BY <1>1, UntilKept DEF Quiet
  <1> QED
    BY <1>1, <1>2, <1>3, QuietCalls DEF Effect

\* suspend_task and delete_task end the wait and the sleep of u.
LEMMA UnlinkEffect ==
    ASSUME IInv, NEW t \in Task, Quiet(t), NEW u \in Task,
           NEW x \in {"Suspended", "Deleted"},
           kern' = [unlink(kern, u) EXCEPT !.state[u] = x], tick_count' = tick_count
    PROVE  Effect
  <1> DEFINE k == unlink(kern, u)
  <1>1. k \in KernelType /\ Consistent(k, {u}) /\ Loose(k, u) /\ k.state = kern.state
    BY Basics, Unlink
  <1>2. /\ k.priority = kern.priority
        /\ k.base_priority = kern.base_priority
        /\ \A v \in Task \ {u} : /\ k.wait_list[v] = kern.wait_list[v]
                                 /\ k.timeout_expired[v] = kern.timeout_expired[v]
                                 /\ k.delay_left[v] = kern.delay_left[v]
        /\ k.wait_list[u] = NoList
        /\ k.timeout_expired[u] = IF kern.wait_list[u] # NoList THEN TRUE
                                  ELSE kern.timeout_expired[u]
        /\ Sorted(kern) => Sorted(k)
    BY Basics, UnlinkWaits
  <1>3. kern' = [k EXCEPT !.state[u] = x]
    OBVIOUS
  <1> HIDE DEF k
  <1>4. SameWaits(k, kern')
    BY <1>1, <1>3 DEF SameWaits, KernelType
  <1>5. /\ kern'.priority = kern.priority
        /\ kern'.base_priority = kern.base_priority
        /\ kern'.wait_list = k.wait_list
        /\ kern'.timeout_expired = k.timeout_expired
        /\ kern'.delay_left = k.delay_left
        /\ Sorted(kern) => Sorted(kern')
    BY <1>2, <1>4, SameWaitsSorted DEF SameWaits
  <1>6. \A v \in Task : kern'.state[v] = IF v = u THEN x ELSE kern.state[v]
    BY <1>1, <1>3 DEF KernelType
  <1>7. WaitsKept(kern, kern')
    BY <1>2, <1>5 DEF WaitsKept
  <1>8. PrioritiesKept(kern, kern')
    BY <1>5, <1>6 DEF PrioritiesKept
  <1>9. SleepKept
    BY <1>6 DEF SleepKept
  <1>10. ~(kern'.delay_left[u] > 0)
    BY <1>1, <1>5 DEF Consistent, DelayListed, Loose, in_delay_list
  <1>11. UntilLeft => UntilLeft'
    BY <1>2, <1>5, <1>10, UntilKept DEF Quiet
  <1>12. AwakeKept
    BY <1>2, <1>5, <1>6 DEF AwakeKept
  <1> QED
    BY <1>5, <1>7, <1>8, <1>9, <1>11, <1>12, QuietCalls DEF Effect, KernelStep

\* One more tick, as the counter adds it.
LEMMA NextTick ==
    ASSUME NEW a \in 0..(TickRange - 1)
    PROVE  (a + 1) % TickRange = IF a + 1 = TickRange THEN 0 ELSE a + 1
  <1>1. TickRange \in Nat /\ TickRange > 0
    BY SchedulerAssumption
  <1> QED
    BY <1>1

\* A full turn of the counter does not show.
LEMMA FullTurn ==
    ASSUME NEW n \in Nat
    PROVE  (TickRange + n) % TickRange = n % TickRange
  <1> DEFINE q == n \div TickRange
             r == n % TickRange
  <1>1. TickRange \in Nat /\ TickRange > 0
    BY SchedulerAssumption
  <1>2. q \in Nat /\ r \in 0..(TickRange - 1) /\ n = q * TickRange + r
    BY <1>1
  <1> HIDE DEF q, r
  <1>3. TickRange + n = (q + 1) * TickRange + r
    BY <1>1, <1>2
  <1>4. \A m \in Nat : (m * TickRange + r) % TickRange = r
    BY <1>1, <1>2
  <1>5. (TickRange + n) % TickRange = r
    BY <1>2, <1>3, <1>4
  <1> QED
    BY <1>5 DEF r

\* The counter and the ticks left move in step, wrap or not.
LEMMA TickSum ==
    ASSUME NEW a \in 0..(TickRange - 1), NEW n \in Nat, n > 0
    PROVE  (((a + 1) % TickRange) + (n - 1)) % TickRange = (a + n) % TickRange
  <1>1. TickRange \in Nat /\ TickRange > 0
    BY SchedulerAssumption
  <1>2. CASE a + 1 = TickRange
    <2>1. (a + 1) % TickRange = 0
      BY <1>2, NextTick
    <2>2. a + n = TickRange + (n - 1) /\ n - 1 \in Nat /\ 0 + (n - 1) = n - 1
      BY <1>1, <1>2
    <2>3. (TickRange + (n - 1)) % TickRange = (n - 1) % TickRange
      BY <2>2, FullTurn
    <2> QED
      BY <2>1, <2>2, <2>3
  <1>3. CASE a + 1 # TickRange
    <2>1. (a + 1) % TickRange = a + 1
      BY <1>3, NextTick
    <2>2. (a + 1) + (n - 1) = a + n
      OBVIOUS
    <2> QED
      BY <2>1, <2>2
  <1> QED
    BY <1>2, <1>3

\* A tick ends the waits whose time is up, and they have failed; every sleeper
\* has one tick less to go.
LEMMA TickEffect ==
    ASSUME IInv, tick
    PROVE  Effect
  <1>1. /\ kern' = delay_tick(kern)
        /\ tick_count' = (tick_count + 1) % TickRange
        /\ call' = call
    BY DEF tick, next_tick
  <1>2. /\ kern'.priority = kern.priority
        /\ kern'.base_priority = kern.base_priority
        /\ \A t \in Task :
             /\ kern'.state[t] = IF kern.delay_left[t] = 1 THEN "Ready" ELSE kern.state[t]
             /\ kern'.delay_left[t] = IF kern.delay_left[t] = 0 THEN 0
                                      ELSE kern.delay_left[t] - 1
             /\ kern'.wait_list[t] = IF kern.delay_left[t] = 1 THEN NoList
                                                               ELSE kern.wait_list[t]
             /\ kern'.timeout_expired[t] =
                  IF kern.delay_left[t] = 1 /\ kern.wait_list[t] # NoList THEN TRUE
                  ELSE kern.timeout_expired[t]
        /\ Sorted(kern) => Sorted(kern')
    BY <1>1, Basics, TickWaits
  <1>3. WaitsKept(kern, kern')
    <2> SUFFICES ASSUME NEW t \in Task
                 PROVE  \/ /\ kern'.wait_list[t] = kern.wait_list[t]
                           /\ kern'.timeout_expired[t] = kern.timeout_expired[t]
                        \/ /\ kern.wait_list[t] # NoList
                           /\ kern'.wait_list[t] = NoList
                           /\ kern'.timeout_expired[t] = TRUE
      BY DEF WaitsKept
    <2> QED
      BY <1>2
  <1>4. PrioritiesKept(kern, kern')
    BY <1>2 DEF PrioritiesKept
  <1>5. SleepKept
    BY <1>2 DEF SleepKept
  <1>8. AwakeKept
    BY <1>2 DEF AwakeKept
  <1>6. CallsKept
    BY <1>1 DEF CallsKept
  <1>7. ASSUME UntilLeft PROVE UntilLeft'
    <2> SUFFICES ASSUME NEW t \in Task, call'[t].op = "delay_until",
                        kern'.delay_left[t] > 0
                 PROVE  /\ (tick_count' + kern'.delay_left[t]) % TickRange = call'[t].arg
                        /\ kern'.delay_left[t] < TickRange
      BY DEF UntilLeft
    <2> DEFINE n == kern.delay_left[t]
    <2>1. n \in Nat /\ tick_count \in 0..(TickRange - 1)
      BY Basics, Fields DEF IInv, TypeOK
    <2>2. kern'.delay_left[t] = IF n = 0 THEN 0 ELSE n - 1
      BY <1>2
    <2>3. n > 0 => (tick_count + n) % TickRange = call[t].arg /\ n < TickRange
      BY <1>1, <1>7 DEF UntilLeft
    <2> HIDE DEF n
    <2>4. n > 0 /\ kern'.delay_left[t] = n - 1
      BY <2>1, <2>2
    <2>5. n - 1 < TickRange
      BY <2>1, <2>3, <2>4, SchedulerAssumption
    <2> QED
      BY <1>1, <2>1, <2>3, <2>4, <2>5, TickSum
  <1> QED
    BY <1>2, <1>3, <1>4, <1>5, <1>6, <1>7, <1>8 DEF Effect, KernelStep

\* The context switch moves tasks between the ready lists and Running.
LEMMA SwitchEffect ==
    ASSUME IInv, schedule_next_task
    PROVE  Effect
  <1>1. CASE UNCHANGED <<kern, tick_count, call>>
    BY <1>1, CallUnchanged
  <1>2. CASE ~UNCHANGED <<kern, tick_count, call>>
    <2> DEFINE k == SwitchOut(kern, current_task)
               next == highest_priority_task(k)
    <2>1. /\ next # NoTask
          /\ kern' = [pop_highest(k) EXCEPT !.state[next] = "Running"]
          /\ UNCHANGED <<tick_count, call>>
      BY <1>2 DEF schedule_next_task, AssertFails
    <2>2. /\ k \in KernelType /\ Consistent(k, {}) /\ SameWaits(kern, k)
          /\ \A t \in Task : \/ k.state[t] = kern.state[t]
                             \/ kern.state[t] = "Running" /\ k.state[t] = "Ready"
      <3>1. CASE current_task # NoTask /\ kern.state[current_task] = "Running"
        <4>1. current_task \in Task /\ k = add_to_ready_queue(kern, current_task)
          BY <3>1 DEF SwitchOut, IInv, TypeOK
        <4>2. /\ k \in KernelType /\ Consistent(k, {}) /\ SameWaits(kern, k)
              /\ k.state = [kern.state EXCEPT ![current_task] = "Ready"]
          BY <3>1, <4>1, Basics, AddToReadyQueue, ReadyOps
        <4>3. kern.state \in [Task -> TaskStates]
          BY Basics DEF KernelType
        <4> HIDE DEF k
        <4> QED
          BY <3>1, <4>1, <4>2, <4>3
      <3>2. CASE ~(current_task # NoTask /\ kern.state[current_task] = "Running")
        BY <3>2, Basics DEF SwitchOut, SameWaits
      <3> QED
        BY <3>1, <3>2
    <2>3. k.ready_bitmask # {}
      BY <2>1 DEF highest_priority_task
    <2> DEFINE k2 == pop_highest(k)
    <2>4. /\ next \in Task /\ k.state[next] = "Ready"
          /\ k2 \in KernelType /\ k2.state = k.state
      <3> HIDE DEF k
      <3> QED
        BY <2>2, <2>3, PopHighest
    <2>5. SameWaits(k, k2)
      <3> HIDE DEF k, next
      <3> QED
        BY <2>2, <2>4, ReadyOps
    <2>6. kern' = [k2 EXCEPT !.state[next] = "Running"]
      BY <2>1
    <2> HIDE DEF k, next, k2
    <2>7. SameWaits(k2, kern')
      BY <2>4, <2>6 DEF SameWaits, KernelType
    <2>8. SameWaits(kern, kern')
      BY <2>2, <2>5, <2>7 DEF SameWaits
    <2>9. \A t \in Task : kern'.state[t] = IF t = next THEN "Running" ELSE k.state[t]
      BY <2>4, <2>6 DEF KernelType
    <2>10. kern' \in KernelType
      BY <2>4, <2>6 DEF KernelType, TaskStates
    <2>11. KernelStep(kern, kern')
      BY <2>2, <2>8, <2>9, <2>10, Basics, SameWaitsStep
    <2>12. SleepKept /\ AwakeKept
      BY <2>2, <2>8, <2>9 DEF SleepKept, AwakeKept, SameWaits
    <2>13. CallsKept
      BY <2>1 DEF CallsKept
    <2> QED
      BY <2>1, <2>8, <2>11, <2>12, <2>13, UntilKept DEF Effect, SameWaits
  <1> QED
    BY <1>1, <1>2

\* The remaining time leads from now to the wake time.
LEMMA RemainingExact ==
    ASSUME NEW wake \in 0..(TickRange - 1), NEW now \in 0..(TickRange - 1),
           remaining(wake, now) > 0
    PROVE  (now + remaining(wake, now)) % TickRange = wake /\ remaining(wake, now) < TickRange
  <1> DEFINE d == (wake - now) % TickRange
  <1>1. TickRange \in Nat /\ TickRange > 0
    BY SchedulerAssumption
  <1>2. d = IF wake >= now THEN wake - now ELSE (wake - now) + TickRange
    BY <1>1
  <1>3. remaining(wake, now) = IF 2 * d >= TickRange THEN d - TickRange ELSE d
    BY DEF remaining
  <1> HIDE DEF d
  <1>4. d \in 0..(TickRange - 1)
    BY <1>1, <1>2
  <1>5. remaining(wake, now) = d
    BY <1>1, <1>3, <1>4
  <1>6. now + d = IF wake >= now THEN wake ELSE wake + TickRange
    BY <1>1, <1>2
  <1>7. wake % TickRange = wake /\ (wake + TickRange) % TickRange = wake
    BY <1>1
  <1>8. d < TickRange
    BY <1>1, <1>4
  <1> QED
    BY <1>5, <1>6, <1>7, <1>8

\* The caller of a delay function sleeps; nobody else's sleep is touched.
LEMMA SleepEffect ==
    ASSUME IInv, NEW t \in Task \ {Idle}, Thread(t), call[t] = NoCall,
           NEW op \in {"delay_ms", "delay_until"}, NEW arg, NEW n \in Nat \ {0},
           op = "delay_until" => (tick_count + n) % TickRange = arg /\ n < TickRange,
           sleep(t, op, arg, n)
    PROVE  Effect
  <1> DEFINE k == [kern EXCEPT !.state[t] = "Blocked"]
             c == [op |-> op, at |-> "yield", arg |-> arg]
  <1>1. kern.state[t] = "Running"
    BY Basics, RunningThread
  <1>2. Loose(kern, t) /\ Consistent(kern, {t}) /\ "Blocked" \in TaskStates
    BY <1>1, Basics, NotListed, InHand DEF TaskStates
  <1>3. k \in KernelType /\ Consistent(k, {t}) /\ Loose(k, t)
    BY <1>2, Basics, SetState
  <1>4. /\ \A u \in Task : k.state[u] = IF u = t THEN "Blocked" ELSE kern.state[u]
        /\ SameWaits(kern, k)
    BY Basics DEF KernelType, SameWaits
  <1>5. ~in_delay_list(kern, t)
    BY <1>2 DEF Loose, in_delay_list
  <1>6. /\ kern' = delay_insert(k, t, n)
        /\ call' = [call EXCEPT ![t] = c]
        /\ tick_count' = tick_count
    BY <1>5 DEF sleep, GoTo
  <1>7. c.op = op /\ c.arg = arg
    OBVIOUS
  <1> HIDE DEF k, c
  <1>8. kern' \in KernelType /\ kern'.state = k.state
    BY <1>3, <1>4, <1>6, DelayInsert DEF Loose, in_delay_list
  <1>9. /\ kern'.priority = k.priority
        /\ kern'.base_priority = k.base_priority
        /\ kern'.wait_lists = k.wait_lists
        /\ kern'.wait_list = k.wait_list
        /\ kern'.timeout_expired = k.timeout_expired
        /\ kern'.delay_left = [k.delay_left EXCEPT ![t] = n]
        /\ Sorted(k) => Sorted(kern')
    BY <1>3, <1>6, DelayInsertWaits DEF Loose
  <1>10. KernelStep(kern, kern')
    <2>1. WaitsKept(kern, kern')
      BY <1>4, <1>9 DEF SameWaits, WaitsKept
    <2>2. PrioritiesKept(kern, kern')
      BY <1>1, <1>4, <1>8, <1>9 DEF SameWaits, PrioritiesKept
    <2>3. Sorted(kern) => Sorted(kern')
      BY <1>4, <1>9, SameWaitsSorted
    <2> QED
      BY <2>1, <2>2, <2>3 DEF KernelStep
  <1>11. \A u \in Task : call'[u] = IF u = t THEN c ELSE call[u]
    BY <1>6, Basics
  <1>12. CallsKept
    <2>1. call[t].op = "none"
      BY DEF NoCall
    <2> QED
      BY <1>7, <1>11, <2>1 DEF CallsKept, WaitingApi
  <1>13. SleepKept
    BY <1>1, <1>4, <1>8 DEF SleepKept
  <1>14. \A u \in Task : kern'.delay_left[u] = IF u = t THEN n ELSE kern.delay_left[u]
    <2>1. k.delay_left \in [Task -> Nat] /\ k.delay_left = kern.delay_left
      BY <1>3, <1>4 DEF KernelType, SameWaits
    <2> QED
      BY <1>9, <2>1
  <1>15. UntilLeft => UntilLeft'
    BY <1>6, <1>7, <1>11, <1>14 DEF UntilLeft
  <1>16. AwakeKept
    BY <1>4, <1>8, <1>9 DEF AwakeKept, SameWaits, NoCall, WaitingApi
  <1> QED
    BY <1>10, <1>12, <1>13, <1>15, <1>16 DEF Effect

LEMMA YieldEffect ==
    ASSUME IInv, NEW t \in Task, task_yield(t)
    PROVE  Effect
  <1> DEFINE r == [op |-> call[t].op, at |-> "ret", arg |-> call[t].arg]
             c == IF call[t].op \in WaitingApi \cup SleepingApi THEN r ELSE NoCall
  <1>1. call' = [call EXCEPT ![t] = c] /\ UNCHANGED <<kern, tick_count>>
    BY DEF task_yield, GoTo, Return
  <1>2. \/ c.op = call[t].op /\ c.arg = call[t].arg
        \/ c.op = "none" /\ call[t].op \notin WaitingApi
    BY DEF NoCall
  <1> HIDE DEF c
  <1>3. \A u \in Task : call'[u] = IF u = t THEN c ELSE call[u]
    BY <1>1, Basics
  <1>4. CallsKept
    BY <1>2, <1>3 DEF CallsKept, WaitingApi
  <1>5. \A u \in Task : call'[u].op = "delay_until" =>
            call[u].op = "delay_until" /\ call'[u].arg = call[u].arg
    BY <1>2, <1>3
  <1> QED
    BY <1>1, <1>4, <1>5, KernelUnchanged

\* A call that sleeps returns.
LEMMA SleepReturnEffect ==
    ASSUME IInv, NEW t \in Task, sleep_return(t)
    PROVE  Effect
  <1>1. /\ call[t].op \in {"delay_ms", "delay_until"}
        /\ UNCHANGED <<kern, tick_count>>
        /\ call' = [call EXCEPT ![t] = NoCall]
    BY DEF sleep_return, Inside, Return
  <1>2. \A v \in Task : call'[v] = IF v = t THEN NoCall ELSE call[v]
    BY <1>1, Basics
  <1>3. Quiet(t)
    BY <1>1, <1>2 DEF Quiet, WaitingApi, NoCall
  <1> QED
    BY <1>1, <1>3, QuietUnchanged

\* Every step of the scheduler has such an effect.
LEMMA NextEffect == IInv /\ [SchedNext]_svars => Effect
  <1> SUFFICES ASSUME IInv, [SchedNext]_svars PROVE Effect
    OBVIOUS
  <1>1. ASSUME NEW u \in Task, NEW p \in TaskPriority[u], MainCreate(u, p) PROVE Effect
    BY <1>1, BootEffect, SchedulerAssumption DEF MainCreate
  <1>2. CASE start
    <2>1. 0 \in Priorities /\ Idle \in Task /\ kern.state[Idle] = "Free"
      BY <1>2, KernelAssumption, Basics DEF start, IInv, IdleReady, Priorities
    <2> QED
      BY <1>2, <2>1, BootEffect DEF start
  <1>3. CASE BootYield \/ NoSlotForIdle \/ NoSlot \/ Halted \/ UNCHANGED svars
    BY <1>3, CallUnchanged
    DEF BootYield, NoSlotForIdle, NoSlot, table_full, AssertFails, Halted, svars
  <1>4. CASE tick
    BY <1>4, TickEffect
  <1>5. CASE schedule_next_task
    BY <1>5, SwitchEffect
  <1>6. ASSUME NEW t \in Task, NEW u \in Task, NEW p \in TaskPriority[u],
               create_task(t, u, p)
        PROVE  Effect
    BY <1>6, CreateEffect
  <1>7. ASSUME NEW t \in Task, create_task_ready(t) PROVE Effect
    <2> DEFINE u == call[t].arg
    <2>1. /\ call[t].op = "create_task" /\ u \in Task /\ kern.state[u] = "Suspended"
          /\ kern' = add_to_ready_queue(kern, u) /\ tick_count' = tick_count
          /\ Leave(t, "create_task", NoTask, kern.priority[u] > kern.priority[t])
      BY <1>7 DEF create_task_ready, Inside, IInv, CallArgs
    <2>2. Quiet(t)
      <3>1. (kern.priority[u] > kern.priority[t]) \in BOOLEAN
        OBVIOUS
      <3> QED
        BY <2>1, <3>1, LeaveQuiet DEF SchedulerApi
    <2> QED
      BY <2>1, <2>2, MakeReadyEffect
  <1>8. ASSUME NEW t \in Task, resume_task(t) PROVE Effect
    <2> DEFINE u == call[t].arg
    <2>1. call[t].op = "resume" /\ u \in Task /\ tick_count' = tick_count
      BY <1>8 DEF resume_task, Inside, IInv, CallArgs
    <2>2. CASE kern.state[u] = "Suspended"
      <3>1. /\ kern' = add_to_ready_queue(kern, u)
            /\ Leave(t, "resume", NoTask, kern.priority[u] > kern.priority[t])
        BY <1>8, <2>2 DEF resume_task, resumable
      <3>2. (kern.priority[u] > kern.priority[t]) \in BOOLEAN
        OBVIOUS
      <3>3. Quiet(t)
        BY <2>1, <3>1, <3>2, LeaveQuiet DEF SchedulerApi
      <3> QED
        BY <2>1, <2>2, <3>1, <3>3, MakeReadyEffect
    <2>3. CASE kern.state[u] # "Suspended"
      <3>1. Return(t) /\ kern' = kern
        BY <1>8, <2>3 DEF resume_task, resumable
      <3>2. Quiet(t)
        BY <2>1, <3>1, LeaveQuiet DEF SchedulerApi
      <3> QED
        BY <2>1, <3>1, <3>2, QuietUnchanged
    <2> QED
      BY <2>2, <2>3
  <1>9. ASSUME NEW t \in Task, suspend_task(t) PROVE Effect
    <2> DEFINE u == call[t].arg
    <2>1. call[t].op = "suspend" /\ u \in Task /\ tick_count' = tick_count
      BY <1>9 DEF suspend_task, Inside, IInv, CallArgs
    <2>2. CASE kern.state[u] # "Suspended"
      <3>1. /\ kern' = [unlink(kern, u) EXCEPT !.state[u] = "Suspended"]
            /\ Leave(t, "suspend", NoTask, u = t)
        BY <1>9, <2>2 DEF suspend_task
      <3>2. Quiet(t)
        BY <2>1, <3>1, LeaveQuiet DEF SchedulerApi
      <3> QED
        BY <2>1, <3>1, <3>2, UnlinkEffect
    <2>3. CASE kern.state[u] = "Suspended"
      <3>1. Return(t) /\ kern' = kern
        BY <1>9, <2>3 DEF suspend_task
      <3>2. Quiet(t)
        BY <2>1, <3>1, LeaveQuiet DEF SchedulerApi
      <3> QED
        BY <2>1, <3>1, <3>2, QuietUnchanged
    <2> QED
      BY <2>2, <2>3
  <1>10. ASSUME NEW t \in Task, delete_task(t) PROVE Effect
    <2> DEFINE u == call[t].arg
    <2>1. /\ call[t].op = "delete" /\ u \in Task /\ tick_count' = tick_count
          /\ kern' = [unlink(kern, u) EXCEPT !.state[u] = "Deleted"]
          /\ Leave(t, "delete", NoTask, u = t)
      BY <1>10 DEF delete_task, Inside, IInv, CallArgs
    <2>2. Quiet(t)
      BY <2>1, LeaveQuiet DEF SchedulerApi
    <2> QED
      BY <2>1, <2>2, UnlinkEffect
  <1>11. ASSUME NEW t \in Task, task_yield(t) PROVE Effect
    BY <1>11, YieldEffect
  <1>15. ASSUME NEW t \in Task, sleep_return(t) PROVE Effect
    BY <1>15, SleepReturnEffect
  <1>12. ASSUME NEW t \in Task, NEW ms \in Delays, delay_ms(t, ms) PROVE Effect
    <2>1. ms_to_ticks(ms) \in Nat \ {0}
      BY <1>12, TicksType, SchedulerAssumption DEF delay_ms
    <2> QED
      BY <1>12, <2>1, SleepEffect DEF delay_ms, Calls
  <1>13. ASSUME NEW t \in Task, NEW wake \in 0..(TickRange - 1), delay_until(t, wake)
         PROVE  Effect
    <2>1. /\ remaining(wake, tick_count) \in Nat \ {0}
          /\ (tick_count + remaining(wake, tick_count)) % TickRange = wake
          /\ remaining(wake, tick_count) < TickRange
      BY <1>13, RemainingType, RemainingExact DEF delay_until, IInv, TypeOK
    <2> QED
      BY <1>13, <2>1, SleepEffect DEF delay_until, Calls
  <1>14. ASSUME NEW t \in Task, NEW u \in Task,
                suspend_check(t, u) \/ resume_check(t, u) \/ delete_check(t, u)
         PROVE  Effect
    <2>1. CASE UNCHANGED <<kern, tick_count, call>>
      BY <2>1, CallUnchanged
    <2>2. CASE ~UNCHANGED <<kern, tick_count, call>>
      <3>1. PICK op \in {"suspend", "resume", "delete"} :
                call[t] = NoCall /\ GoTo(t, op, "cs", u) /\ UNCHANGED <<kern, tick_count>>
        BY <1>14, <2>2 DEF suspend_check, resume_check, delete_check, AssertFails, Calls
      <3>2. Quiet(t)
        BY <3>1, GoToQuiet DEF SchedulerApi
      <3> QED
        BY <3>1, <3>2, QuietUnchanged
    <2> QED
      BY <2>1, <2>2
  <1> QED
    BY <1>1, <1>2, <1>3, <1>4, <1>5, <1>6, <1>7, <1>8, <1>9, <1>10, <1>11, <1>12,
       <1>13, <1>14, <1>15
    DEF SchedNext, TaskStep, Proceed

----------------------------------------------------------------------------
(* The steps of the IPC objects, as far as the scheduler is concerned.     *)

\* A step that reads or writes nothing of the scheduler.
LEMMA SameScheduler ==
    ASSUME IInv, UNCHANGED svars
    PROVE  IInv'
  BY DEF svars, IInv, TypeOK, ListsConsistent, OnlyRunningExecutes,
     NoLostPreemption, KernelAssertsHold, CallArgs, IdleReady, Thread

\* A running task that begins to wait: it is Blocked and will yield.
LEMMA BlockStep ==
    ASSUME IInv, NEW t \in Task \ {Idle}, Thread(t), call[t] = NoCall,
           NEW op \in WaitingApi, NEW l \in Lists, GoTo(t, op, "yield", l),
           UNCHANGED <<current_task, started, pendsv, tick_count, panic>>,
           kern' \in KernelType, Consistent(kern', {}),
           \A u \in Task : kern'.state[u] = IF u = t THEN "Blocked" ELSE kern.state[u]
    PROVE  /\ IInv'
           /\ \A u \in Task \ {t} : call'[u] = call[u]
           /\ call'[t].op = op /\ call'[t].arg = l
  <1> DEFINE c == [op |-> op, at |-> "yield", arg |-> l]
  <1>1. c \in CallType /\ c.at = "yield" /\ c.op = op /\ c.arg = l
    BY DEF CallType
  <1>2. call' = [call EXCEPT ![t] = c]
    BY DEF GoTo
  <1> HIDE DEF c
  <1>3. kern.state[t] = "Running"
    BY Basics, RunningThread
  <1>4. \A v \in Task \ {t} : call[v].at = "cs" =>
            /\ kern'.state[call[v].arg] # "Free"
            /\ call[v].op = "create_task" => kern'.state[call[v].arg] = "Suspended"
    BY <1>3 DEF IInv, CallArgs
  <1>5. CallArgs'
    BY <1>1, <1>2, <1>4, CallArgsKept
  <1>6. /\ \A u \in Task : kern'.state[u] = "Running" => kern.state[u] = "Running"
        /\ kern'.state[Idle] = kern.state[Idle]
    BY Basics
  <1>7. IInv'
    BY <1>1, <1>2, <1>5, <1>6, ThreadStep
  <1>8. \A u \in Task : call'[u] = IF u = t THEN c ELSE call[u]
    BY <1>2, Basics
  <1> QED
    BY <1>1, <1>7, <1>8

\* A time that is not zero is at least one tick.
LEMMA TicksPositive ==
    ASSUME NEW ms \in Nat \ {0}
    PROVE  ms_to_ticks(ms) \in Nat \ {0}
  <1> DEFINE q == ms \div kTickRateMs
             r == ms % kTickRateMs
  <1>1. kTickRateMs \in Nat /\ kTickRateMs > 0
    BY KernelAssumption
  <1>2. q \in Nat /\ r \in Nat /\ ms = q * kTickRateMs + r
    BY <1>1
  <1>3. ms_to_ticks(ms) = q + (IF r # 0 THEN 1 ELSE 0)
    BY DEF ms_to_ticks
  <1> HIDE DEF q, r
  <1>4. q = 0 => ms = r
    BY <1>1, <1>2
  <1> QED
    BY <1>2, <1>3, <1>4

\* t waits on list l, and its wait has not failed.
Parked(k, k1, t, l) ==
    /\ k1.state = [k.state EXCEPT ![t] = "Blocked"]
    /\ k1.priority = k.priority
    /\ k1.base_priority = k.base_priority
    /\ k1.wait_list = [k.wait_list EXCEPT ![t] = l]
    /\ k1.timeout_expired = [k.timeout_expired EXCEPT ![t] = FALSE]
    /\ Sorted(k) => Sorted(k1)

\* wait_on never meets its asserts, because the caller is Running.
LEMMA WaitOn ==
    ASSUME IInv, NEW t \in Task \ {Idle}, Thread(t), call[t] = NoCall,
           NEW op \in WaitingApi, NEW l \in Lists, NEW ms \in Timeouts,
           wait_on(t, op, l, ms)
    PROVE  /\ IInv'
           /\ \A u \in Task \ {t} : call'[u] = call[u]
           /\ call'[t].op = op /\ call'[t].arg = l
           /\ Parked(kern, kern', t, l)
  <1> DEFINE k == park(kern, t, l)
             n == ms_to_ticks(ms)
  <1>1. kern.state[t] = "Running"
    BY Basics, RunningThread
  <1>2. Loose(kern, t)
    BY <1>1, Basics, NotListed
  <1>3. kern.wait_list[t] = NoList
    BY <1>1, Basics, Fields DEF Consistent, WaitListed, WaitComplete
  <1>4. /\ kern' = IF ms = kWaitForever THEN k ELSE delay_insert(k, t, n)
        /\ GoTo(t, op, "yield", l)
        /\ UNCHANGED <<current_task, started, pendsv, tick_count, panic>>
    BY <1>2, <1>3 DEF wait_on, Loose, in_delay_list
  <1>5. /\ k \in KernelType
        /\ Consistent(k, {})
        /\ t \notin Range(k.delay_list)
        /\ Parked(kern, k, t, l)
    <2>1. kern \in KernelType /\ Consistent(kern, {}) /\ t \in Task
      BY Basics
    <2> QED
      BY <1>1, <2>1, Park DEF Parked
  <1>6. ms # kWaitForever => n \in Nat \ {0}
    BY TicksPositive, SchedulerAssumption DEF Timeouts
  <1> HIDE DEF k, n
  <1>7. /\ kern' \in KernelType
        /\ Consistent(kern', {})
        /\ kern'.state = k.state
        /\ kern'.priority = k.priority
        /\ kern'.base_priority = k.base_priority
        /\ kern'.wait_list = k.wait_list
        /\ kern'.timeout_expired = k.timeout_expired
        /\ Sorted(k) => Sorted(kern')
    <2>1. CASE ms = kWaitForever
      BY <1>4, <1>5, <2>1
    <2>2. CASE ms # kWaitForever
      <3>1. kern' = delay_insert(k, t, n) /\ n \in Nat \ {0} /\ n \in Nat
        BY <1>4, <1>6, <2>2
      <3>2. Consistent(k, {t}) /\ k.state[t] = "Blocked" /\ ~in_delay_list(k, t)
        BY <1>5, InHand, Basics DEF in_delay_list, Parked, KernelType
      <3>3. kern' \in KernelType /\ Consistent(kern', {}) /\ kern'.state = k.state
        BY <1>5, <3>1, <3>2, DelayInsert
      <3>4. /\ kern'.priority = k.priority
            /\ kern'.base_priority = k.base_priority
            /\ kern'.wait_list = k.wait_list
            /\ kern'.timeout_expired = k.timeout_expired
            /\ Sorted(k) => Sorted(kern')
        <4>1. /\ k \in KernelType /\ t \in Task /\ t \notin Range(k.delay_list)
              /\ n \in Nat
          BY <1>5, <3>1
        <4> DEFINE k1 == delay_insert(k, t, n)
        <4>2. k1.priority = k.priority /\ k1.base_priority = k.base_priority
          BY <4>1, DelayInsertWaits
        <4>3. k1.wait_list = k.wait_list /\ k1.timeout_expired = k.timeout_expired
          BY <4>1, DelayInsertWaits
        <4>4. Sorted(k) => Sorted(k1)
          BY <4>1, DelayInsertWaits
        <4> HIDE DEF k1
        <4>5. kern' = k1
          BY <3>1 DEF k1
        <4> QED
          BY <4>2, <4>3, <4>4, <4>5
      <3> QED
        BY <3>3, <3>4
    <2> QED
      BY <2>1, <2>2
  <1>8. \A u \in Task : kern'.state[u] = IF u = t THEN "Blocked" ELSE kern.state[u]
    <2>1. kern'.state = [kern.state EXCEPT ![t] = "Blocked"]
      BY <1>5, <1>7 DEF Parked
    <2>2. kern.state \in [Task -> TaskStates]
      BY Basics DEF KernelType
    <2> QED
      BY <2>1, <2>2
  <1>9. /\ IInv'
        /\ \A u \in Task \ {t} : call'[u] = call[u]
        /\ call'[t].op = op /\ call'[t].arg = l
    BY <1>4, <1>7, <1>8, BlockStep
  <1>10. Parked(kern, kern', t, l)
    BY <1>5, <1>7 DEF Parked
  <1> QED
    BY <1>9, <1>10

\* The same, task by task.
LEMMA ParkedWaits ==
    ASSUME NEW k \in KernelType, NEW k1, NEW t \in Task, NEW l, Parked(k, k1, t, l)
    PROVE  /\ \A u \in Task : k1.wait_list[u] = IF u = t THEN l ELSE k.wait_list[u]
           /\ \A u \in Task \ {t} : k1.timeout_expired[u] = k.timeout_expired[u]
           /\ ~k1.timeout_expired[t]
  BY DEF Parked, KernelType

\* A blocked task inside a call that waits is in its wait list.
WaitingListed ==
    \A t \in Task : call[t].op \in WaitingApi /\ kern.state[t] = "Blocked" =>
        kern.wait_list[t] # NoList

\* A step keeps the result of every wait that is over.
DecidedKept ==
    \A t \in Task :
        /\ call[t].op \in WaitingApi /\ call'[t].op = call[t].op
        /\ kern.wait_list[t] = NoList
        => /\ kern'.wait_list[t] = NoList
           /\ kern'.timeout_expired[t] = kern.timeout_expired[t]

\* The scheduler's own steps keep both.
LEMMA SchedDecided ==
    ASSUME Effect, WaitingListed
    PROVE  WaitingListed' /\ DecidedKept
  <1>1. WaitingListed'
    BY DEF Effect, WaitingListed, AwakeKept, CallsKept
  <1>2. DecidedKept
    BY DEF Effect, KernelStep, WaitsKept, DecidedKept
  <1> QED
    BY <1>1, <1>2

\* Whoever is in no wait list stays so when nobody is put into one.
LEMMA SameDecided ==
    ASSUME WaitingListed, UNCHANGED kern,
           \A t \in Task : call'[t].op \in WaitingApi => call'[t].op = call[t].op
    PROVE  WaitingListed' /\ DecidedKept
  BY DEF WaitingListed, DecidedKept

\* The result of a wait is decided once if no parked task is marked as failed.
LEMMA DecidedOnce ==
    ASSUME IInv', WaitingListed', DecidedKept,
           \A t \in Task : kern.wait_list[t] # NoList => ~kern.timeout_expired[t]
    PROVE  \A t \in Task :
               call[t].op \in WaitingApi /\ call'[t].op = call[t].op => ResultKept(t)
  <1> SUFFICES ASSUME NEW t \in Task, call[t].op \in WaitingApi,
                      call'[t].op = call[t].op, kern.wait_list[t] = NoList
               PROVE  /\ kern'.wait_list[t] = NoList
                      /\ kern'.timeout_expired[t] = kern.timeout_expired[t]
                      /\ ~in_delay_list(kern', t)
    BY DEF ResultKept
  <1>1. /\ kern'.wait_list[t] = NoList
        /\ kern'.timeout_expired[t] = kern.timeout_expired[t]
    BY DEF DecidedKept
  <1>2. kern'.state[t] # "Blocked"
    BY <1>1 DEF WaitingListed
  <1>3. ~in_delay_list(kern', t)
    BY <1>2 DEF IInv, ListsConsistent, Consistent, DelayListed, in_delay_list
  <1> QED
    BY <1>1, <1>3

\* A task that parks decides nobody's wait.
LEMMA ParkedDecided ==
    ASSUME WaitingListed, kern \in KernelType, NEW t \in Task, NEW l \in Lists, l # NoList,
           call[t].op \notin WaitingApi, Parked(kern, kern', t, l),
           \A u \in Task \ {t} : call'[u] = call[u]
    PROVE  WaitingListed' /\ DecidedKept
  <1>1. /\ \A u \in Task : kern'.wait_list[u] = IF u = t THEN l ELSE kern.wait_list[u]
        /\ \A u \in Task \ {t} : kern'.timeout_expired[u] = kern.timeout_expired[u]
    BY ParkedWaits
  <1>2. \A u \in Task \ {t} : kern'.state[u] = kern.state[u]
    BY DEF Parked, KernelType
  <1>3. WaitingListed'
    BY <1>1, <1>2 DEF WaitingListed
  <1>4. DecidedKept
    BY <1>1 DEF DecidedKept
  <1> QED
    BY <1>3, <1>4

\* Calls that wake waiters.
WakingApi == {"give", "unlock", "sent", "received", "set_bits"}

\* Waiters became ready, and nothing else happened to any state.
Woken(k, k1) ==
    \A v \in Task : \/ k1.state[v] = k.state[v]
                    \/ k.state[v] = "Blocked" /\ k1.state[v] = "Ready"

\* The running task wakes waiters and yields, or none of them is above it.
LEMMA LeaveStep ==
    ASSUME IInv, NEW t \in Task \ {Idle}, Thread(t), call[t] = NoCall,
           NEW op \in WakingApi, NEW yields \in BOOLEAN, Leave(t, op, NoTask, yields),
           UNCHANGED <<current_task, started, pendsv, tick_count, panic>>,
           kern' \in KernelType, Consistent(kern', {}), Woken(kern, kern'),
           ~yields => \A v \in Task : kern'.state[v] = "Ready" =>
                                          kern'.priority[v] <= kern'.priority[t]
    PROVE  /\ IInv'
           /\ \A u \in Task \ {t} : call'[u] = call[u]
           /\ call'[t].op \notin WaitingApi
  <1> DEFINE y == [op |-> op, at |-> "yield", arg |-> NoTask]
             c == IF yields THEN y ELSE NoCall
  <1>1. y \in CallType /\ y.at = "yield" /\ y.op \notin WaitingApi
    BY DEF CallType, WakingApi, WaitingApi
  <1>2. call' = [call EXCEPT ![t] = c]
    BY DEF Leave, GoTo, Return
  <1>3. NoCall.op \notin WaitingApi
    BY DEF NoCall, WaitingApi
  <1> HIDE DEF y
  <1>4. c \in CallType /\ c.at # "cs" /\ c.op \notin WaitingApi /\ (yields => c.at = "yield")
    BY <1>1, <1>3, Basics
  <1> HIDE DEF c
  <1>5. kern.state[t] = "Running"
    BY Basics, RunningThread
  <1>6. kern.state[Idle] \in {"Ready", "Running"}
    BY RunningThread, Basics DEF IInv, IdleReady
  <1>7. /\ \A u \in Task : kern'.state[u] = "Running" => kern.state[u] = "Running"
        /\ kern'.state[Idle] = kern.state[Idle]
        /\ kern'.state[t] = "Running"
    BY <1>5, <1>6, Basics DEF Woken
  <1>8. \A v \in Task \ {t} : call[v].at = "cs" =>
            /\ kern'.state[call[v].arg] # "Free"
            /\ call[v].op = "create_task" => kern'.state[call[v].arg] = "Suspended"
    BY DEF IInv, CallArgs, Woken
  <1>9. CallArgs'
    BY <1>2, <1>4, <1>8, CallArgsKept
  <1>10. IInv'
    BY <1>2, <1>4, <1>7, <1>9, ThreadStep
  <1>11. \A u \in Task : call'[u] = IF u = t THEN c ELSE call[u]
    BY <1>2, Basics
  <1> QED
    BY <1>4, <1>10, <1>11

\* An interrupt handler wakes waiters and pends the switch, or none of them is
\* above the current task.
LEMMA IsrStep ==
    ASSUME IInv, UNCHANGED <<current_task, started, tick_count, call, panic>>,
           NEW yields \in BOOLEAN, pendsv' = (pendsv \/ yields), yields => started,
           kern' \in KernelType, Consistent(kern', {}), Woken(kern, kern'),
           kern'.priority = kern.priority,
           ~yields /\ started /\ current_task # NoTask =>
               \A v \in Task : kern.state[v] = "Blocked" /\ kern'.state[v] = "Ready" =>
                                   kern.priority[v] <= kern.priority[current_task]
    PROVE  IInv'
  <1>1. TypeOK' /\ ListsConsistent' /\ KernelAssertsHold'
    BY DEF IInv, TypeOK, ListsConsistent, KernelAssertsHold
  <1>2. CallArgs'
    BY DEF IInv, CallArgs, Woken
  <1>3. IdleReady'
    BY Basics DEF IInv, IdleReady, Woken
  <1>4. OnlyRunningExecutes'
    BY DEF IInv, OnlyRunningExecutes, Thread, Woken
  <1>5. NoLostPreemption'
    <2> SUFFICES ASSUME NEW t \in Task, Thread(t)', call'[t].at # "yield",
                        NEW u \in Task, kern'.state[u] = "Ready"
                 PROVE  kern'.priority[u] <= kern'.priority[t]
      BY DEF NoLostPreemption
    <2>1. Thread(t) /\ call[t].at # "yield" /\ ~yields /\ current_task = t /\ t # NoTask
      BY KernelAssumption DEF Thread
    <2> QED
      BY <2>1, RunningThread DEF Woken
  <1> QED
    BY <1>1, <1>2, <1>3, <1>4, <1>5 DEF IInv

\* What wake_highest and make_task_ready do to the kernel, for the first waiter
\* u of list l.
WokenFirst(k, k1, u) ==
    /\ k1 \in KernelType /\ Consistent(k1, {})
    /\ k1.state = [k.state EXCEPT ![u] = "Ready"]
    /\ k1.priority = k.priority
    /\ k1.base_priority = k.base_priority
    /\ k1.wait_list = [k.wait_list EXCEPT ![u] = NoList]
    /\ k1.timeout_expired = k.timeout_expired
    /\ Sorted(k) => Sorted(k1)

\* A waiter that is woken was still parked; nobody else's wait is touched.  W are
\* the tasks whose own call may change in the step, and these do not wait.
LEMMA WokenDecided ==
    ASSUME WaitingListed, kern \in KernelType, NEW u \in Task, WokenFirst(kern, kern', u),
           NEW W, \A v \in Task \ W : call'[v] = call[v],
           \A v \in Task \cap W : call'[v].op \notin WaitingApi
    PROVE  WaitingListed' /\ DecidedKept
  <1>1. \A v \in Task :
            /\ kern'.state[v] = IF v = u THEN "Ready" ELSE kern.state[v]
            /\ kern'.wait_list[v] = IF v = u THEN NoList ELSE kern.wait_list[v]
            /\ kern'.timeout_expired[v] = kern.timeout_expired[v]
    BY DEF WokenFirst, KernelType
  <1>2. WaitingListed'
    BY <1>1 DEF WaitingListed
  <1>3. DecidedKept
    BY <1>1 DEF DecidedKept
  <1> QED
    BY <1>2, <1>3

LEMMA WakeFirst ==
    ASSUME NEW k \in KernelType, Consistent(k, {}), NEW l \in Lists,
           peek_waiter(k, l) # NoTask
    PROVE  LET u == peek_waiter(k, l)
           IN  /\ u \in Task /\ k.state[u] = "Blocked" /\ k.wait_list[u] = l
               /\ WokenFirst(k, make_task_ready(wake_highest(k, l), u), u)
  <1> DEFINE u == peek_waiter(k, l)
             k1 == make_task_ready(wake_highest(k, l), u)
  <1>1. /\ u \in Task /\ k.state[u] = "Blocked" /\ k.wait_list[u] = l
        /\ k1 \in KernelType /\ Consistent(k1, {})
        /\ \A t \in Task : k1.state[t] = IF t = u THEN "Ready" ELSE k.state[t]
        /\ k1.priority = k.priority
        /\ k1.base_priority = k.base_priority
        /\ \A t \in Task : k1.wait_list[t] = IF t = u THEN NoList ELSE k.wait_list[t]
        /\ k1.timeout_expired = k.timeout_expired
        /\ Sorted(k) => Sorted(k1)
    BY WakeWaiter
  <1> HIDE DEF u, k1
  <1>2. k1.state = [k.state EXCEPT ![u] = "Ready"]
    BY <1>1 DEF KernelType
  <1>3. k1.wait_list = [k.wait_list EXCEPT ![u] = NoList]
    BY <1>1 DEF KernelType
  <1> QED
    BY <1>1, <1>2, <1>3 DEF WokenFirst, u, k1

\* There is no first waiter exactly when the list is empty.
LEMMA PeekWaiter ==
    ASSUME NEW k \in KernelType, NEW l \in Lists
    PROVE  peek_waiter(k, l) = NoTask <=> k.wait_lists[l] = <<>>
  <1>1. k.wait_lists[l] \in Seq(Task)
    BY Fields
  <1>2. k.wait_lists[l] # <<>> => Head(k.wait_lists[l]) \in Task
    BY <1>1
  <1> QED
    BY <1>2, KernelAssumption DEF peek_waiter

\* The running task wakes the first waiter u.
LEMMA WakeStep ==
    ASSUME IInv, NEW t \in Task \ {Idle}, Thread(t), call[t] = NoCall,
           NEW u \in Task, kern.state[u] = "Blocked", WokenFirst(kern, kern', u),
           NEW op \in WakingApi, Leave(t, op, NoTask, preempts(u)),
           UNCHANGED <<current_task, started, pendsv, tick_count, panic>>
    PROVE  /\ IInv'
           /\ \A v \in Task \ {t} : call'[v] = call[v]
           /\ call'[t].op \notin WaitingApi
  <1>1. /\ kern.state[t] = "Running" /\ started
        /\ \A v \in Task : kern.state[v] = "Ready" => kern.priority[v] <= kern.priority[t]
    BY Basics, RunningThread
  <1>2. current_task = t /\ t # NoTask
    BY KernelAssumption DEF Thread
  <1>3. ~preempts(u) => kern.priority[u] <= kern.priority[t]
    BY <1>1, <1>2, Basics DEF preempts
  <1>4. \A v \in Task : kern'.state[v] = IF v = u THEN "Ready" ELSE kern.state[v]
    BY Basics DEF WokenFirst, KernelType
  <1>5. Woken(kern, kern')
    BY <1>4 DEF Woken
  <1>6. preempts(u) \in BOOLEAN
    BY DEF preempts
  <1>7. ~preempts(u) => \A v \in Task : kern'.state[v] = "Ready" =>
                                            kern'.priority[v] <= kern'.priority[t]
    BY <1>1, <1>3, <1>4 DEF WokenFirst
  <1> QED
    BY <1>5, <1>6, <1>7, LeaveStep DEF WokenFirst

\* An interrupt handler wakes the first waiter u.
LEMMA IsrWakeStep ==
    ASSUME IInv, NEW u \in Task, kern.state[u] = "Blocked", WokenFirst(kern, kern', u),
           pendsv' = (pendsv \/ preempts(u)),
           UNCHANGED <<current_task, started, tick_count, call, panic>>
    PROVE  IInv'
  <1>1. \A v \in Task : kern'.state[v] = IF v = u THEN "Ready" ELSE kern.state[v]
    BY Basics DEF WokenFirst, KernelType
  <1>2. Woken(kern, kern')
    BY <1>1 DEF Woken
  <1>3. preempts(u) \in BOOLEAN /\ (preempts(u) => started)
    BY DEF preempts
  <1>4. ~preempts(u) /\ started /\ current_task # NoTask =>
            \A v \in Task : kern.state[v] = "Blocked" /\ kern'.state[v] = "Ready" =>
                                kern.priority[v] <= kern.priority[current_task]
    <2>1. current_task # NoTask => current_task \in Task
      BY DEF IInv, TypeOK
    <2> QED
      BY <1>1, <2>1, Basics DEF preempts
  <1> QED
    BY <1>2, <1>3, <1>4, IsrStep DEF WokenFirst

----------------------------------------------------------------------------
\* The invariant holds in every state the scheduler reaches (all of
\* scheduler.cpp, with task.cpp's lists and the context switch).
THEOREM SchedulerInvariant == SchedSpec => []IInv
  BY InitInv, NextInv, PTL DEF SchedSpec

\* Type correctness of the scheduler's state.
THEOREM SchedulerTypes == SchedSpec => []TypeOK
  <1>1. IInv => TypeOK
    BY DEF IInv
  <1> QED
    BY <1>1, SchedulerInvariant, PTL

\* However calls, ticks and context switches interleave, the ready, wait and
\* delay lists, the bitmask and the task states agree.
THEOREM SchedulerLists == SchedSpec => []ListsConsistent
  <1>1. IInv => ListsConsistent
    BY DEF IInv
  <1> QED
    BY <1>1, SchedulerInvariant, PTL

\* Task code executes only while the task is Running (schedule_next_task,
\* task_yield).
THEOREM SchedulerRunning == SchedSpec => []OnlyRunningExecutes
  <1>1. IInv => OnlyRunningExecutes
    BY DEF IInv
  <1> QED
    BY <1>1, SchedulerInvariant, PTL

\* No ready task of higher priority is left waiting (needs_preemption and the
\* comparisons before every task_yield).
THEOREM SchedulerPreemption == SchedSpec => []NoLostPreemption
  <1>1. IInv => NoLostPreemption
    BY DEF IInv
  <1> QED
    BY <1>1, SchedulerInvariant, PTL

\* The asserts on the kernel's own data never fail (the empty ready queue in
\* schedule_next_task, a task put twice into the delay list).
THEOREM SchedulerAsserts == SchedSpec => []KernelAssertsHold
  <1>1. IInv => KernelAssertsHold
    BY DEF IInv
  <1> QED
    BY <1>1, SchedulerInvariant, PTL

\* The empty lists of the initial kernel are ordered, and nobody sleeps in it.
LEMMA InitSorted == SchedInit => ListsSorted /\ UntilLeft
  <1> SUFFICES ASSUME SchedInit PROVE ListsSorted /\ UntilLeft
    OBVIOUS
  <1>1. /\ \A l \in Lists : kern.wait_lists[l] = <<>>
        /\ kern.delay_list = <<>>
        /\ DOMAIN <<>> = {}
    BY DEF SchedInit, EmptyKernel
  <1>2. ListsSorted
    BY <1>1 DEF ListsSorted, WaitSorted, DelaySorted
  <1>3. \A t \in Task : call[t].op = "none"
    BY DEF SchedInit, NoCall
  <1> QED
    BY <1>2, <1>3 DEF UntilLeft

\* Wait lists run from high to low priority and the delay list from the first to
\* wake to the last, whatever is inserted and taken out in between
\* (insert_by_priority, DelayList::insert and remove).
THEOREM SchedulerSorted == SchedSpec => []ListsSorted
  <1>1. IInv /\ ListsSorted /\ [SchedNext]_svars => ListsSorted'
    BY NextEffect DEF Effect, KernelStep, Sorted, ListsSorted
  <1> QED
    BY <1>1, InitSorted, SchedulerInvariant, PTL DEF SchedSpec

\* A task in delay_until has the ticks left that lead to its wake time, and with
\* no IPC object about nobody is in a wait list.
LEMMA SleepsExact == SchedSpec => [](UntilLeft /\ \A t \in Task : kern.wait_list[t] = NoList)
  <1> DEFINE Inv == UntilLeft /\ \A t \in Task : kern.wait_list[t] = NoList
  <1>1. SchedInit => Inv
    BY InitSorted DEF SchedInit, EmptyKernel
  <1>2. IInv /\ Inv /\ [SchedNext]_svars => Inv'
    BY NextEffect DEF Effect, KernelStep, WaitsKept
  <1> HIDE DEF Inv
  <1>3. SchedSpec => []Inv
    BY <1>1, <1>2, SchedulerInvariant, PTL DEF SchedSpec
  <1> QED
    BY <1>3 DEF Inv

\* Fewer ticks than a turn of the counter lead to another time.
LEMMA OtherTime ==
    ASSUME NEW a \in 0..(TickRange - 1), NEW n \in Nat, n > 0, n < TickRange
    PROVE  (a + n) % TickRange # a
  <1>1. TickRange \in Nat /\ TickRange > 0
    BY SchedulerAssumption
  <1>2. (a + n) % TickRange = IF a + n < TickRange THEN a + n ELSE a + n - TickRange
    BY <1>1
  <1> QED
    BY <1>1, <1>2

\* delay_until sleeps until the counter reaches the time it was given, and no
\* longer, for every width of the tick counter and through its wrap (remaining,
\* Scheduler::tick).
THEOREM SchedulerDelayUntil == SchedSpec => DelayUntilExact
  <1> DEFINE Inv == UntilLeft /\ \A t \in Task : kern.wait_list[t] = NoList
             A == \A t \in Task :
                     call[t].op = "delay_until" /\ kern.state[t] = "Blocked" =>
                         /\ tick_count # call[t].arg
                         /\ kern'.state[t] = "Ready" => tick_count' = call[t].arg
  <1>1. IInv /\ Inv /\ [SchedNext]_svars => [A]_svars
    <2> SUFFICES ASSUME IInv, Inv, [SchedNext]_svars, NEW t \in Task,
                        call[t].op = "delay_until", kern.state[t] = "Blocked"
                 PROVE  /\ tick_count # call[t].arg
                        /\ kern'.state[t] = "Ready" => tick_count' = call[t].arg
      OBVIOUS
    <2> DEFINE n == kern.delay_left[t]
    <2>1. n \in Nat /\ tick_count \in 0..(TickRange - 1)
      BY Basics, Fields DEF IInv, TypeOK
    <2>2. n > 0
      BY Basics DEF Consistent, BlockedListed, DelayListed
    <2>3. (tick_count + n) % TickRange = call[t].arg /\ n < TickRange
      BY <2>2 DEF UntilLeft
    <2>4. tick_count # call[t].arg
      <3> HIDE DEF n
      <3> QED
        BY <2>1, <2>2, <2>3, OtherTime
    <2>5. ASSUME kern'.state[t] = "Ready" PROVE tick_count' = call[t].arg
      <3>1. n = 1 /\ tick
        BY <2>5, NextEffect DEF Effect, SleepKept
      <3> QED
        BY <2>3, <3>1 DEF tick, next_tick
    <2> QED
      BY <2>4, <2>5
  <1>2. SchedSpec => [][A]_svars
    <2> HIDE DEF A, Inv
    <2>1. SchedSpec => []Inv
      BY SleepsExact DEF Inv
    <2> QED
      BY <1>1, <2>1, SchedulerInvariant, PTL DEF SchedSpec
  <1> QED
    BY <1>2 DEF DelayUntilExact

\* Nothing but the tick on which its time is up makes a sleeping task ready: no
\* resume, context switch or other task's wake-up cuts a delay short.
THEOREM SchedulerSleep == SchedSpec => SleepNotCutShort
  <1> DEFINE A == \A t \in Task :
                     /\ kern.state[t] = "Blocked" /\ kern.wait_list[t] = NoList
                     /\ kern'.state[t] = "Ready"
                     => kern.delay_left[t] = 1 /\ tick
  <1>1. IInv /\ [SchedNext]_svars => [A]_svars
    BY NextEffect DEF Effect, SleepKept
  <1>2. SchedSpec => [][A]_svars
    <2> HIDE DEF A
    <2> QED
      BY <1>1, SchedulerInvariant, PTL DEF SchedSpec
  <1> QED
    BY <1>2 DEF SleepNotCutShort
=============================================================================
