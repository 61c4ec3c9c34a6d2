# A TLA+ model of acRTOS

acRTOS is a small preemptive real-time kernel for one Cortex-M4 core, written
in C++17. This directory holds TLA+ modules that model the kernel, TLC runs that
check small instances of them, and TLAPS proofs about the scheduler, the semaphore,
the mutex, the queue, the event group, the context switch and the port's critical
sections.
`PROJECT.json` maps every definition to the source lines it models and lists the
runs, the theorems, the findings and the hazards the properties are aimed at.

Run a check with `tlc -config MCScheduler_calls.cfg MCScheduler`, a proof with
`tlapm SchedulerProofs.tla`.

## The system

| Component | State | Operations |
|---|---|---|
| `TaskList` (task.cpp) | head, tail; `prev`/`next` links in the TCBs | `push_back`, `insert_by_priority`, `pop_front`, `remove` |
| `DelayList` (task.cpp) | head; `delay_prev`/`delay_next`, `delay_ticks` deltas, `in_delay_list` | `insert`, `remove`, `tick` |
| `ReadyManager` (scheduler.cpp) | a `TaskList` per priority, a bitmask of the ones in use | `add`, `remove`, `get_highest_priority_task`, `peek_highest_priority` |
| `Scheduler` (scheduler.cpp) | task table, current task, tick counter, started flag | `create_task`, `start`, `delay_ms`, `delay_until`, `suspend_task`, `resume_task`, `delete_task`, `set_task_priority`, `make_task_ready`; `tick` and `schedule_next_task` from exceptions |
| `WaitQueue`, `Semaphore` (ipc.cpp) | a wait list; the count | `park`, `wake_highest`; `take`, `try_take`, `give` and the `_from_isr` forms |
| `Mutex` (ipc.cpp) | owner, wait list; the list of mutexes each task holds | `lock`, `unlock`, `recompute_priority` |
| `EventGroup` (ipc.cpp) | bits, wait list; per waiter mask, mode and result | `set_bits`, `clear_bits`, `get_bits`, `wait_bits` |
| `Queue` (queue.cpp) | ring buffer, two wait lists | `send`, `receive` and the `_from_isr` forms |
| Port (port_asm.s, port files) | PRIMASK, ICSR.PENDSVSET, the stacks | critical sections, `task_yield`, PendSV and SysTick handlers |
| Asserts (assert.cpp) | none | stop the system |

The components meet in three ways. The IPC objects call the scheduler and the
delay list inside their critical sections and then `task_yield()`. `SysTick`
calls `Scheduler::tick`, which takes expired waiters off the IPC objects' wait
lists through `TaskControlBlock::wait_list`. `suspend_task` and `delete_task`
reach into any list the victim is in.

What is hard here: the state of a task, its links, `wait_list`, `in_delay_list`
and the ready bitmask are five accounts of the same thing and are kept in step
by hand; several calls look at a task before their critical section and act on
it inside; a call that blocked its caller still runs until it has called
`task_yield()`; a timeout, a hand-over and a suspension compete to end a wait;
and every path that readies a task decides by itself whether to preempt.

What makes each component correct:

- lists and ready manager: each task is in exactly the lists its state says, the
  lists are ordered, and the pointer structure implements sequences;
- scheduler: only the running task executes, the highest ready priority runs,
  no sleep is cut short or endless, equal priorities share the processor, the
  kernel's own asserts never fire;
- semaphore: tokens are conserved, nobody waits while a token is there, a timed
  take returns, with the result decided exactly once and kept until it does;
- mutex: `lock` reports success exactly to the owner, inversion is bounded, an
  inherited priority ends with the wait that lent it;
- queue: items are neither lost, duplicated nor reordered, and a call's result is true;
- event group: a waiter returns exactly the bits that satisfied it;
- port: critical sections are atomic however they nest, a task finds its
  registers and its stack as it left them, a stack overflow does not go unnoticed;
- `create_task`: a stack belongs to one task.

## How execution is modelled

A critical section sets PRIMASK, so on this single core it is atomic: one
critical section is one step (`CriticalSections` proves this from the port's
few instructions). Everything else interleaves. The variable `call`
says where each task is inside a kernel call:

- `check`: it has tested the `is_created` flag of `create_task` (`CallSites` only);
- `cs`: it has made its unlocked check and not entered the critical section;
- `yield`: the critical section is over and `task_yield()` still to come;
- `ret`: `task_yield()` is done; when the task runs again, the call reads its
  result, or `delay_ms` and `delay_until` simply return (`sleep_return`).

`tick` (SysTick) and interrupt handlers that use the `_from_isr` functions may
come between any two of these. `task_yield` and preempting interrupts set
`pendsv`; thread code only runs while `pendsv` is false, and
`schedule_next_task` is the step that serves it. A handler is taken to follow
the documented contract: it calls `task_yield()` if the function says so.

A failed `ACRTOS_ASSERT` (on in the default build) records its label in `panic`
and nothing moves afterwards. The asserts are split into those on the kernel's
own data (`KernelAsserts`: must never fire) and those an application can trip.

Taken from the code's contracts: scheduler methods are called by tasks only
(scheduler.hpp:5-8), the idle task calls nothing, a task handle is known once
`create_task` has made the task ready. `create_task` compares priorities right
after its critical section; the model compares at its end, which is the same
unless a mutex changes a priority in between.

## Modules

- `TaskLists` - `TaskList` on sequences. `remove` of a task that is in no list
  loses the list, as the code does; nothing is assumed about callers.
- `Kernel` - the kernel record (TCB fields, ready lists, bitmask, delay list,
  wait lists) and every operation that runs inside a critical section; the named
  parts of list consistency. A sleeper carries the ticks it has left, the sum of
  the code's deltas.
- `Scheduler` - the state machine: boot, tick, context switch and the calls of
  tasks, each cut where the code can be interrupted; the scheduler's properties
  and its inductive invariant `IInv`.
- `Semaphore`, `Mutex` - the IPC objects on top of `Scheduler`. `Mutex` takes any
  number of mutexes, each named by its wait list. Its `held` is a set, since
  `recompute_priority` takes a maximum over the list.
- `Queue` - the ring buffer and its two wait lists, with the hand-over into and out
  of waiting tasks' buffers. It implements `Channel`, the abstract FIFO channel:
  the mapping reads the items off the ring and a waiting call's result off
  `wait_list` and `timeout_expired`, as the caller will. The history variable
  `last` holds the operation, the item and the result of the last call that did
  not wait, and a bit that every such call flips: no call can pass as a
  stuttering step, and a send shows which item it was given. A task that is in no
  waiting call shows its buffer, which must stay as it is.
- `EventGroup` - bits as sets; the loop of `scan_and_wake_locked` as a recursive
  function of the number of turns (`turns`). The history variable `sets` flips with
  every `set_bits`, so that one without effect is a step too.
- `Context` - `Scheduler` with registers and stacks: `PendSV_Handler` saves and
  restores around `schedule_next_task`, exception entry and exit push and pop,
  `init_task_stack` writes the first frames, and tasks compute, call and return
  between any two steps. Registers that are saved together are one group: r0-r3,
  r12, lr, pc, xPSR and s0-s15 by the processor, r4-r11 with EXC_RETURN and
  s16-s31 by the handler. The processor's part is marked external.
- `CallSites` - `Scheduler` with the `create_task` template: the flag and the
  stack of each call site. `create_task_impl` is the step both share; `TaskStep`
  is everything else a task does.
- `CriticalSections` - PRIMASK, nested `CriticalSection` objects and exceptions
  of any priorities, below the other modules and independent of them. Reading
  PRIMASK and setting it are two steps, with the interrupt window between them.
- `KernelOps` - the abstract specification of the lists: the operations of
  `Kernel` in any order the scheduler may use them in.
- `TcbHeap` - the same operations on pointers and deltas, pointer by pointer. The
  refinement mapping reads sequences off the links and sums the deltas.
- `KernelProofs`, `SchedulerProofs`, and on top of them `SemaphoreProofs`,
  `MutexProofs`, `QueueProofs`, `EventGroupProofs` and `ContextProofs`; on its own
  `CriticalSectionProofs` - the proofs.
- `MC*` - the instances. Definitions commented "Mutant of" are faulty variants
  of the definition that follows; no specification uses them. They are there to show that the
  properties can fail (`PROJECT.json`, "mutants").

## Runs

| Run | Instance | What it shows |
|---|---|---|
| `calls` | 3 of 4 tasks and idle, 2 priorities, 2 ms ticks, delays 0 and 3 ms, a tick counter of 3 values, all calls | types, lists consistent and sorted, only the running task executes, no preemption lost, no sleep cut short, `delay_until` exact for the whole sleep and across the wrap, `IInv` |
| `semaphore` | 2 tasks and idle, a semaphore counting to 2, handlers giving and taking, sleeping, suspend, resume, delete, fair | tokens conserved, nobody waits beside a token, a wait once decided stays decided, kernel asserts hold; timed takes return, sleepers wake, round robin |
| `mutex` | one task of each of 3 priorities, 2 mutexes, suspend, resume | owners and lock results exact, inversion bounded through nesting and torn waits, no preemption lost when an unlock lowers a priority, a boost ends with the mutexes |
| `highest` | the same tasks, 1 mutex, sleeping, fair | the highest task gets its mutex; without suspension no boost is stale |
| `heap` | 3 tasks, 1 wait list, 2 priorities, delays to 3 ticks | the pointer structure implements `KernelOps`, prev mirrors next |
| `queue` | 2 tasks and idle, capacity 2, 2 items, handlers sending and receiving, timeouts (0 included), suspend, resume | implements `Channel`: FIFO, every item a send reported in is there once, results true, no buffer written after its call; nobody waits in vain; the hand-over assert holds |
| `events` | 3 tasks and idle, 2 bits, any/all and clearing requests, a handler setting bits, timeouts | every `set_bits` has the effect of its own mask and wakes exactly the satisfied, with the real bits; a wait once decided stays decided; no satisfied waiter left; no preemption lost |
| `context` | 2 equal tasks and idle, stacks of 7 slots, FPU and integer code, nested calls, sleeping, creation, deletion | a task never notices a switch; an overflow is caught before the task is left behind |
| `deleted`, `resume`, `overboost`, `callsites` | small | findings, below |

Bounds. Three application tasks are enough for a list with a first, a middle and
a last element, for a task acting on a second while a third has overtaken it,
and for the low, medium and high of priority inversion. Delays 0 and 3 ms with 2
ms ticks give 0 and, rounded up, 2 ticks, and `delay_until` 1 tick: two sleepers
can share a tick or be one apart. Three values of the tick counter let
`delay_until` wrap with wake times ahead and behind; longer sleeps and larger
counters are left to the proof. The model subtracts modulo `TickRange` and reads
the sign as `int32_t` does. Two priorities in `calls` put one task
beside idle and the others above it; `semaphore`, `queue` and `events` have three,
`mutex` four. A ring of two slots wraps, and both of its wait lists can hold
both tasks while a handler works the other side. Two equal items would hide a
mix-up, so there are two, which are symmetric. Two bits and three waiters are
enough for a waiter that clears what the next one would have matched. Where
`TickRange = 1` the counter plays no part. `CountMax = 2` stands for
`UINT32_MAX`, so the saturated count is reached. A stack of seven slots holds
the deepest frame of a switch (four slots) over two calls; at three calls the
frame of a switch overruns it, at five an interrupt's, at seven the calls
themselves. `calls` has one task more than the table holds, so that `start` can
find it full. The slots past the end stand for somebody else's memory and are
kept apart per task: what an overrun does there is not followed, only that it is
noticed. A frame takes whole slots, so every overrun writes `stack_base[0]`; a
function whose frame leaves that word unwritten escapes the canary in the code
too. Tasks of one priority are symmetric in `calls`, all in `context` and `heap`,
mutexes in `mutex` and items in `queue`; none of these runs checks liveness.
Deletion is left out of `mutex` for its size: `delete_task` unlinks a waiter as `suspend_task` does.
Deadlock is checked in every run: a tick is always possible, and a halted system
stutters in `Halted`.

Fairness. SysTick keeps firing; a pended PendSV is taken; the running task goes
on with a kernel call it has begun. Nothing forces the application to make a
call: a task may compute forever. In `Semaphore` and `Mutex` the steps inside a
call are strongly fair: ticks can preempt a task between any two instructions,
and a task that gets the processor again and again does get on, since a time slice
is longer than a few instructions. `highest` also assumes that an owner that
keeps getting the processor unlocks: without it no mutex can promise
anything. The medium task in it may run forever.

## Proofs

All theorems hold for any finite set of tasks, any priorities (at most 32, the
width of the bitmask), tick rate, width of the tick counter, delays, timeouts,
table size and API subset, from the `ASSUME`s of the modules alone
(`KernelAssumption`, `SchedulerAssumption`, and per object `SemaphoreAssumption`,
`QueueAssumption`, `EventGroupAssumption` or `ContextAssumption`). These say that the constants are
what the code declares them to be: names that differ, counts that are not
negative, a ring and a maximal count of at least one, a stack that holds more
than the two frames `init_task_stack` writes.

### Scheduler

`SchedulerProofs` proves `SchedulerInvariant`: `SchedSpec => []IInv`, and from it
`SchedulerTypes` (`TypeOK`), `SchedulerLists` (`ListsConsistent`),
`SchedulerRunning` (`OnlyRunningExecutes`), `SchedulerPreemption`
(`NoLostPreemption`) and `SchedulerAsserts` (`KernelAssertsHold`); then
`SchedulerSorted` (`ListsSorted`) and the action properties `SchedulerDelayUntil`
(`DelayUntilExact`) and `SchedulerSleep` (`SleepNotCutShort`).

The parts of `IInv` need each other. `OnlyRunningExecutes` needs the lists: the
task a switch picks must not be running elsewhere, and a wake-up must not hit the
running task. `ListsConsistent` needs it back: a task that blocks itself must be
in no list. `NoLostPreemption` needs the exact bitmask, since `schedule_next_task` and
`tick` look only at that. `KernelAssertsHold` needs `IdleReady`, so that a
switch always finds a task, and that a task in its own code is in no list.
`CallArgs` is what the unlocked windows need: `create_task` links its new task in
a second critical section, which is sound only because that task is still
suspended and nobody else is about to act on it; and `suspend`, `resume` and
`delete` act on tasks that exist and never on idle, whatever happened to the
task between the check and the critical section.

The argument goes in three layers. The first part of `KernelProofs`: what appending,
popping, removing, priority insertion and filtering do to a sequence without
duplicates (range, injectivity, emptiness, order). Its second part: every kernel
operation preserves types and takes `Consistent(k, D)` to `Consistent(k', D')`, where `D`
holds the tasks an operation has taken out of the lists and not put back
(`unlink` and `park` begin where `add_to_ready_queue` and the like end); between
critical sections `D` is empty. It also says what each operation does to waits,
priorities and the order of the lists. `SchedulerProofs`: one lemma per action
for the preservation of `IInv`, then the temporal theorems.

What the other modules build on is `NextEffect`: a step of the scheduler ends a
wait only by failing it (a timeout, `suspend_task` or `delete_task` sets
`timeout_expired`), writes priorities only when it creates a task, leaves the
waiting calls alone, makes a sleeper ready only on its last tick, and keeps the
lists sorted. `DelayUntilExact` is where the counter wraps: the proof is that, from
the call to the return of `delay_until`, the tick and the time that is left move
against each other modulo `TickRange` (`UntilLeft`), so that the counter shows the
wake time on the step on which nothing is left, and not before.

### Semaphore, mutex, queue, event group

Each specification takes the scheduler's steps and adds the object's own, so
each proof has a lemma per step of the object and one use of `NextEffect` for
the rest. Each invariant includes `IInv` and `ListsSorted`, so everything
proved of the scheduler holds beside the object too (`SemaphoreScheduler`,
`MutexScheduler`, `QueueScheduler`, `EventGroupScheduler`).

`SemaphoreProofs` (`SemInv`): `SemaphoreTypes`, `SemaphoreTokens`
(`TokensConserved`), `SemaphoreNoLostWakeup` (`NobodyWaitsForAToken`) and
the action property `SemaphoreDecidedOnce` (`WaitDecidedOnce`). What has to be
added is `WaitersTake`: whoever is in the wait list is inside `take` and its wait
has not failed. A token handed over is then counted once, by the cardinality of
the set of tasks that are to return with one (`Handed`) or were deleted before
they could (`LostWithTask`): deletion is the one way a token is lost, and the
sum says so. `WaitDecidedOnce` is about two states: a parked task's flag is
unset, and from the step that takes it out of the wait list to the return of the
call no step writes the flag, parks the task again or leaves it in the delay
list. For the scheduler's own steps this is `DecidedKept`; it holds because a task
that is in a waiting call and in no wait list is in no delay list either
(`WaitingListed`, `DecidedOnce`).

`MutexProofs` (`MutexInv`): `MutexTypes`, `MutexLockResult` (`LockResultExact`),
`MutexOwners` (`OwnersExact`), `MutexInversion` (`BoundedInversion`) and
`MutexBoostEnds` (`BoostEndsWithMutexes`), for any number of mutexes and any
nesting. `WaitersOwned` is the core: a waiter is inside `lock`, has not failed,
and somebody else owns the mutex whose priority is not below the waiter's own.
`recompute_priority` looks only at the first waiter of each mutex, which is
enough because the wait list is sorted by current priority and a current
priority is never below the base (`AboveBase`); it walks the list of held
mutexes, which is enough because that list is the inverse of `owner_` (`HeldExact`).
`OwnersLive` keeps the creation of a task from overwriting an owner's priority.

`QueueProofs` (`QueueInv`): `QueueTypes`, `QueueNoLostWakeup` (`NobodyWaitsInVain`),
`QueueScheduler` with the hand-over assert, and `QueueRefinesChannel`: `QueueSpec`
implements `Channel` for every capacity. `RingExact` says that the tail is head
plus count around the ring; from it come the lemmas that putting an item appends
to the sequence the mapping reads off and taking one removes its head.
`NobodyWaitsInVain` is needed for the refinement: a send hands its item straight
to a waiting receiver, which keeps the order only because nothing is queued then.
`BuffersReturned` says that a task in no waiting call has no buffer lent out. The
steps map one by one: a send is `Put` of its own item, a receive `Take`, a call
that fails at once `Refuse`, blocking `Begin`, the return `Finish`; a step of the scheduler is `GiveUp` of exactly the waits it
has failed, none of them if it fails none.

`EventGroupProofs` (`EventInv`): `EventGroupTypes`, `EventGroupNoLostWakeup`
(`NobodyWaitsForSetBits`) and the action properties `EventGroupSetBits`
(`SetBitsExact`) and `EventGroupDecidedOnce` (`WaitDecidedOnce`), for a wait list of any length and any conditions. The loop of
`scan_and_wake_locked` is a recursive function; that it exists and unfolds turn by
turn (`Turns`) is proved by looking at the shortest list for which it would not, and so
is what `i` turns have done (`Scanned`): the kernel is consistent, exactly the
waiters hit so far are ready and out of the list, the bits are those at the start
without what the hits have taken, each hit has the bits of its own turn, and the
answer to yield is true exactly if a hit preempts. A waiter that is passed over
stays unsatisfied because later turns only take bits away (`FewerBits`).
`WaitsPending`, that a wait in progress has not failed, tells a waiter that
`set_bits` woke from one whose wait ended otherwise.

### Port

`ContextProofs` (`ContextInv`): `ContextTypes`, `ContextSwitch`
(`ContextPreserved`) and `ContextOverflow` (`OverflowCaught`), for every stack
size. The invariant says where the context of each task is: that of the current
task in the registers above its calls (`Loaded`); that of every other task that
exists on its own stack, group by group in the order `PendSV_Handler` pushes
them, with its `sp` pointing at it and the canary intact beyond (`Saved`). A new
task is in the same position, which is what `init_task_stack` has to achieve.
`MineExact`, that a task has used both halves of the FPU's registers or none, is what
makes bit 4 of `EXC_RETURN` enough to tell the two frame layouts apart. The
lemmas follow a switch through its phases (`ExceptionEntry`, `SaveContext`,
`RestoreContext`, `ExceptionReturn`); `SavePhase` says that where
`schedule_next_task` is called every task is saved, the outgoing one included,
and `NotCanary` that no frame or call that reaches the last slot looks like the
canary, so that the assert sees every overrun.

`CriticalSectionProofs` proves `SectionsAtomicTheorem`: `PortSpec` implies
`[](SectionsAtomic /\ MaskExact)` for any threads, handlers and priorities, from
`PortAssumption` alone, which says that PendSV is a handler, that threads are not,
and that every handler has a priority. `PortInv` adds what the
`primask_` of every open section holds (`SavedExact`: only the outermost section
of a thread or a handler found interrupts enabled; in `PendSV_Handler` none did),
that what a context has read of PRIMASK is still true when it masks, though other
contexts ran in between (`ReadExact`),
that the context inside a section has the processor, and that active handlers have
different priorities, so that one context has the processor at a time.
Without `SavedExact` an inner destructor could enable interrupts. No run is
spent on this module; the theorem covers every instance.

### Only model-checked

- The liveness properties, which need fairness: `SleepersWake`, `RoundRobin`, the
  return of timed takes, the highest task getting its mutex.
- The refinement of `KernelOps` by `TcbHeap` and `LinksMirror`: the traversals are
  recursive operators, which put a module out of the prover's reach.
- `NotOverBoosted`, which holds only where no waiter is suspended or deleted
  (finding `overboost`).

## Findings

- `deleted`: `suspend_task` looks for `Deleted` only before its critical section.
  If the task is deleted in between, it becomes Suspended and can be resumed,
  though types.hpp and docs/architecture.md call Deleted terminal. The lists
  stay consistent (`calls` covers this interleaving).
- `resume`: resuming a task that sleeps, or waits with a timeout, trips an
  assert and halts the default build; task.hpp promises no effect.
- `overboost`: suspending or deleting a mutex waiter does not recompute the
  owner's priority, which stays inherited until the owner's next unlock. Without suspend
  and delete (`highest`) the priority is exact, and in any case the boost ends
  with the owner's last mutex (`mutex`).
- `callsites`: the `create_task` template tests `is_created` and sets it in two
  accesses outside any critical section. Two tasks that come to the same call, with a
  tick between the accesses, both pass the assert and create two tasks on one
  stack, which architecture.md excludes and limitations.md and scheduler.hpp say the
  assert guards against.

## Not modelled

- The configuration registers the port writes (FPU access, exception priorities,
  the SysTick reload value and its range assert), `set_cpu_hz`, WFI, the weak
  `acrtos_tick_hook`, printing.
- SysTick enabled before `start()`, which only start-up code outside the
  repository can do. A tick between the entry of PendSV and its `cpsid i` is
  modelled as coming before the exception; in the code it can pend one more
  switch. `CriticalSections` has this window.
- Lazy stacking of s0-s15: they are stacked at exception entry.
- Asserts on a priority out of range, on blocking calls from a handler or before
  `start()`, and on a second `start()`: the model makes no such call. The assert of
  `LockGuard` that its lock succeeded fails exactly when `lock` returns false.
- The value `wait_bits` returns after a timeout: the bits when the task runs again,
  as docs/event-group.md says, which may satisfy the condition though the wait
  failed and nothing was cleared.
- The queue's destructor, which asserts that nobody waits; `Task`'s getters,
  `count()` and `get_bits()`, which only read.
- `ms_to_ticks` divides and cannot overflow.
- Time between ticks. A sleep lasts the ticks `ms_to_ticks` says, and the first of
  them may come at once: `delay_ms` can fall short of the milliseconds asked for by
  up to one tick, although scheduler.hpp:166 says "at least".

## Plan

Written in this order: `TaskLists`, `Kernel`, `Scheduler` and its proofs first,
since every other component rests on them; then `Semaphore` and `Mutex`;
`TcbHeap` against `KernelOps`; `Queue` against `Channel`; `EventGroup`; then the
port: `Context`, `CallSites` and `CriticalSections` with its proof; then the
proofs about `Semaphore`, `Mutex`, `Queue` and `Context`, in this order, over
what `SchedulerProofs` says about a step of the scheduler, and last
`EventGroupProofs`: that `scan_and_wake_locked` leaves no satisfied waiter behind.
Left are the linked lists: `TcbHeap` against `KernelOps` is checked by TLC only,
and a proof would first need its traversals written without RECURSIVE operators.
