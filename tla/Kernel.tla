------------------------------- MODULE Kernel -------------------------------
(***************************************************************************)
(* The data of the kernel and the operations on it that run inside one     *)
(* critical section: the task control blocks, ReadyManager, DelayList and  *)
(* the parts of Scheduler and WaitQueue that other components call with    *)
(* interrupts off.  Every operator maps one kernel record k to the next.   *)
(***************************************************************************)
EXTENDS Integers, TaskLists

CONSTANTS
    Task,            \* the task control blocks, one per task ever created
    NoTask,          \* nullptr where a task is expected
    Lists,           \* the wait lists, one or more per IPC object
    NoList,          \* nullptr where a wait list is expected
    kMaxPriorities,  \* config::kMaxPriorities
    kTickRateMs      \* config::kTickRateMs: milliseconds per tick

ASSUME KernelAssumption ==
    /\ IsFiniteSet(Task) /\ NoTask \notin Task
    /\ NoList \notin Lists
    /\ kMaxPriorities \in 1..32
    /\ kTickRateMs \in Nat \ {0}

Priorities == 0..(kMaxPriorities - 1)

\* TaskState; "Free" is a slot of task_table_ that is not allocated yet.
TaskStates == {"Free", "Ready", "Running", "Blocked", "Suspended", "Deleted"}

\* delay_left is the number of ticks a task still has to sleep: the sum of the
\* delay_ticks deltas up to and including the task (module TcbHeap).
KernelType ==
    [state           : [Task -> TaskStates],
     priority        : [Task -> Priorities],
     base_priority   : [Task -> Priorities],
     ready_lists     : [Priorities -> Seq(Task)],
     ready_bitmask   : SUBSET Priorities,
     delay_list      : Seq(Task),
     delay_left      : [Task -> Nat],
     wait_lists      : [Lists -> Seq(Task)],
     wait_list       : [Task -> Lists \cup {NoList}],
     timeout_expired : [Task -> BOOLEAN]]

EmptyKernel ==
    [state           |-> [t \in Task |-> "Free"],
     priority        |-> [t \in Task |-> 0],
     base_priority   |-> [t \in Task |-> 0],
     ready_lists     |-> [p \in Priorities |-> <<>>],
     ready_bitmask   |-> {},
     delay_list      |-> <<>>,
     delay_left      |-> [t \in Task |-> 0],
     wait_lists      |-> [l \in Lists |-> <<>>],
     wait_list       |-> [t \in Task |-> NoList],
     timeout_expired |-> [t \in Task |-> FALSE]]

task_count(k) == Cardinality({t \in Task : k.state[t] # "Free"})

in_delay_list(k, t) == t \in Range(k.delay_list)

\* ms_to_ticks: rounded up, so a non-zero time is at least one tick.
ms_to_ticks(ms) ==
    ms \div kTickRateMs + (IF ms % kTickRateMs # 0 THEN 1 ELSE 0)

----------------------------------------------------------------------------
(* ReadyManager *)

\* ReadyManager::add
ready_add(k, t) ==
    LET p == k.priority[t] IN
    [k EXCEPT !.ready_lists[p] = push_back(@, t),
              !.ready_bitmask = @ \cup {p}]

\* Mutant of ready_remove: the bit stays when the list becomes empty.
ready_remove_keep_bit(k, t) ==
    [k EXCEPT !.ready_lists[k.priority[t]] = remove(@, t)]

\* ReadyManager::remove: the bit is cleared with the last task of the list.
ready_remove(k, t) ==
    LET p    == k.priority[t]
        left == remove(k.ready_lists[p], t)
    IN  [k EXCEPT !.ready_lists[p] = left,
                  !.ready_bitmask = IF left = <<>> THEN @ \ {p} ELSE @]

\* ReadyManager::peek_highest_priority
peek_highest_priority(k) == Max(k.ready_bitmask)

\* ReadyManager::get_highest_priority_task: the task it returns ...
highest_priority_task(k) ==
    IF k.ready_bitmask = {} \/ k.ready_lists[peek_highest_priority(k)] = <<>>
    THEN NoTask
    ELSE Head(k.ready_lists[peek_highest_priority(k)])

\* ... and what it leaves in the ready lists.
pop_highest(k) ==
    IF k.ready_bitmask = {} THEN k
    ELSE LET p    == peek_highest_priority(k)
             left == pop_front(k.ready_lists[p])
         IN  [k EXCEPT !.ready_lists[p] = left,
                       !.ready_bitmask = IF left = <<>> THEN @ \ {p} ELSE @]

----------------------------------------------------------------------------
(* DelayList *)

\* Mutant of delay_insert: the sleeper goes to the tail.
delay_insert_last(k, t, ticks) ==
    [k EXCEPT !.delay_list = Append(@, t), !.delay_left[t] = ticks]

\* DelayList::insert: before the first task that wakes later.
delay_insert(k, t, ticks) ==
    LET Later == {u \in Range(k.delay_list) : k.delay_left[u] > ticks}
    IN  [k EXCEPT !.delay_list = InsertAt(@, slot(@, Later), t),
                  !.delay_left[t] = ticks]

\* DelayList::remove, which ignores a task that is not in the list.
delay_remove(k, t) ==
    IF ~in_delay_list(k, t) THEN k
    ELSE [k EXCEPT !.delay_list = remove(@, t),
                   !.delay_left[t] = 0]

\* Mutant of delay_tick: the call is missing.
delay_tick_dropped(k) == k

\* DelayList::tick: one tick passes for every sleeper; those that have none
\* left leave the delay list, and their wait list if they are parked on one,
\* and become ready in the order of the delay list.
delay_tick(k) ==
    LET Expired == {t \in Range(k.delay_list) : k.delay_left[t] <= 1}
        Waiting == {t \in Expired : k.wait_list[t] # NoList}
    IN  [k EXCEPT
          !.state = [t \in Task |-> IF t \in Expired THEN "Ready" ELSE @[t]],
          !.delay_list = Only(@, Task \ Expired),
          !.delay_left = [t \in Task |-> IF in_delay_list(k, t) THEN @[t] - 1
                                                                ELSE @[t]],
          !.wait_lists = [l \in Lists |-> Only(@[l], Task \ Waiting)],
          !.wait_list = [t \in Task |-> IF t \in Waiting THEN NoList ELSE @[t]],
          !.timeout_expired = [t \in Task |-> t \in Waiting \/ @[t]],
          !.ready_lists = [p \in Priorities |->
              @[p] \o Only(k.delay_list, {t \in Expired : k.priority[t] = p})],
          !.ready_bitmask = @ \cup {k.priority[t] : t \in Expired}]

----------------------------------------------------------------------------
(* WaitQueue and the critical sections of Scheduler *)

\* WaitQueue::park of the calling task, which first forgets an old timeout.
park(k, t, l) ==
    [k EXCEPT !.state[t] = "Blocked",
              !.wait_list[t] = l,
              !.wait_lists[l] = insert_by_priority(@, t, k.priority),
              !.timeout_expired[t] = FALSE]

\* WaitQueue::wake_highest: the task it returns, and the kernel it leaves.
\* The task is in no list then; the caller makes it ready.
peek_waiter(k, l) == IF k.wait_lists[l] = <<>> THEN NoTask
                                               ELSE Head(k.wait_lists[l])

\* Mutant of wake_highest: the timeout of the woken task is not cancelled.
wake_keep_timeout(k, l) ==
    IF k.wait_lists[l] = <<>> THEN k
    ELSE [k EXCEPT !.wait_lists[l] = pop_front(@),
                   !.wait_list[Head(k.wait_lists[l])] = NoList]

wake_highest(k, l) ==
    IF k.wait_lists[l] = <<>> THEN k
    ELSE LET t == Head(k.wait_lists[l]) IN
         delay_remove([k EXCEPT !.wait_lists[l] = pop_front(@),
                                !.wait_list[t] = NoList], t)

\* Scheduler::make_task_ready
make_task_ready(k, t) ==
    IF t = NoTask \/ k.state[t] = "Deleted" THEN k
    ELSE ready_add([k EXCEPT !.state[t] = "Ready",
                             !.wait_list[t] = NoList], t)

\* Scheduler::allocate_tcb and the fields create_task_impl fills in.
allocate_tcb(k, t, p) ==
    [k EXCEPT !.state[t] = "Suspended",
              !.wait_list[t] = NoList,
              !.priority[t] = p,
              !.base_priority[t] = p]

\* Scheduler::add_to_ready_queue, and the same two lines of resume_task.
add_to_ready_queue(k, t) == ready_add([k EXCEPT !.state[t] = "Ready"], t)

\* Mutant of end_wait: the waiter is not told that its wait failed.
end_wait_silent(k, t) ==
    [k EXCEPT !.wait_lists[k.wait_list[t]] = remove(@, t), !.wait_list[t] = NoList]

\* A waiter is torn off its wait list: its wait has failed.
end_wait(k, t) ==
    [k EXCEPT !.wait_lists[k.wait_list[t]] = remove(@, t),
              !.wait_list[t] = NoList,
              !.timeout_expired[t] = TRUE]

\* Mutant of unlink: the wait counts as failed though it is over.
unlink_fail_late(k, t) ==
    IF k.state[t] = "Ready" THEN [ready_remove(k, t) EXCEPT !.timeout_expired[t] = TRUE]
    ELSE IF k.state[t] # "Blocked" THEN k
    ELSE IF k.wait_list[t] = NoList THEN delay_remove(k, t)
    ELSE delay_remove(end_wait(k, t), t)

\* What suspend_task and delete_task share: t leaves the list its state says
\* it is in.
unlink(k, t) ==
    IF k.state[t] = "Ready" THEN ready_remove(k, t)
    ELSE IF k.state[t] # "Blocked" THEN k
    ELSE IF k.wait_list[t] = NoList THEN delay_remove(k, t)
    ELSE delay_remove(end_wait(k, t), t)

\* Mutants of set_task_priority: the task stays where it is in its list, or only
\* a running task is changed.
set_priority_in_place(k, t, p) == [k EXCEPT !.priority[t] = p]

set_priority_running(k, t, p) ==
    IF k.state[t] # "Running" THEN k ELSE [k EXCEPT !.priority[t] = p]

\* Scheduler::set_task_priority: a ready task moves to the list of its new
\* priority, a waiter to its new place in the wait list.
set_task_priority(k, t, p) ==
    IF k.priority[t] = p THEN k
    ELSE IF k.state[t] = "Ready"
    THEN ready_add([ready_remove(k, t) EXCEPT !.priority[t] = p], t)
    ELSE LET k1 == [k EXCEPT !.priority[t] = p] IN
         IF k.state[t] = "Blocked" /\ k.wait_list[t] # NoList
         THEN [k1 EXCEPT !.wait_lists[k.wait_list[t]] =
                   insert_by_priority(remove(@, t), t, k1.priority)]
         ELSE k1

\* Mutants of tick_preempts: only tasks of the same priority, or only tasks of
\* a higher one, preempt.
tick_preempts_peer(top, running) == top = running
tick_preempts_lower(top, running) == top > running

\* A tick switches between equal priorities too.
tick_preempts(top, running) == top >= running

\* Scheduler::needs_preemption
needs_preemption(k, current) ==
    /\ k.ready_bitmask # {}
    /\ current # NoTask => tick_preempts(peek_highest_priority(k), k.priority[current])

----------------------------------------------------------------------------
(* Consistency of the lists with the task states.  D is the set of tasks   *)
(* that an operation in progress holds in its hands: linked nowhere, their *)
(* state about to be written.  Between critical sections D is empty.       *)

\* A ready list of priority p holds tasks that are ready, of priority p, once.
ReadyListed(k) ==
    \A p \in Priorities :
        /\ IsInjective(k.ready_lists[p])
        /\ \A t \in Range(k.ready_lists[p]) :
              k.state[t] = "Ready" /\ k.priority[t] = p

\* Every ready task is in a list.
ReadyComplete(k, D) ==
    \A t \in Task \ D :
        k.state[t] = "Ready" => t \in Range(k.ready_lists[k.priority[t]])

\* The bitmask has the bits of the lists that are not empty.
BitmaskExact(k) ==
    k.ready_bitmask = {p \in Priorities : k.ready_lists[p] # <<>>}

\* A wait list holds blocked tasks that point back at it, once.
WaitListed(k) ==
    \A l \in Lists :
        /\ IsInjective(k.wait_lists[l])
        /\ \A t \in Range(k.wait_lists[l]) :
              k.state[t] = "Blocked" /\ k.wait_list[t] = l

WaitComplete(k) ==
    \A t \in Task :
        k.wait_list[t] # NoList => t \in Range(k.wait_lists[k.wait_list[t]])

\* The delay list holds blocked tasks that have ticks left, once, and no other
\* task has ticks left.
DelayListed(k) ==
    /\ IsInjective(k.delay_list)
    /\ \A t \in Range(k.delay_list) : k.state[t] = "Blocked"
    /\ \A t \in Task : k.delay_left[t] > 0 <=> in_delay_list(k, t)

\* A blocked task is somewhere it can be woken from.
BlockedListed(k, D) ==
    \A t \in Task \ D :
        k.state[t] = "Blocked" => k.wait_list[t] # NoList \/ in_delay_list(k, t)

Consistent(k, D) ==
    /\ ReadyListed(k)
    /\ ReadyComplete(k, D)
    /\ BitmaskExact(k)
    /\ WaitListed(k)
    /\ WaitComplete(k)
    /\ DelayListed(k)
    /\ BlockedListed(k, D)

\* Wait lists run from the highest priority down, the delay list from the
\* first to wake to the last.
WaitSorted(k) ==
    \A l \in Lists : \A i, j \in DOMAIN k.wait_lists[l] :
        i < j => k.priority[k.wait_lists[l][i]] >= k.priority[k.wait_lists[l][j]]

DelaySorted(k) ==
    \A i, j \in DOMAIN k.delay_list :
        i < j => k.delay_left[k.delay_list[i]] <= k.delay_left[k.delay_list[j]]
=============================================================================
