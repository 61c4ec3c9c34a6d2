------------------------------ MODULE TcbHeap ------------------------------
(***************************************************************************)
(* The lists as the code builds them (src/src/task.cpp): head and tail     *)
(* pointers, prev/next and delay_prev/delay_next links and delay_ticks     *)
(* deltas inside the task control blocks.  A task has one pair of prev and *)
(* next links for whichever ready or wait list it is in.  The operators    *)
(* rewrite a heap record h; the state machine calls them the way           *)
(* scheduler.cpp and ipc.cpp do and implements module KernelOps.           *)
(***************************************************************************)
EXTENDS Integers, Sequences, FiniteSets, FiniteSetsExt

CONSTANTS Task, NoTask, Lists, NoList, kMaxPriorities, kTickRateMs, Ticks

VARIABLE heap

Priorities == 0..(kMaxPriorities - 1)

\* The TaskList objects: ReadyManager::ready_lists_ and the wait lists.
ListObjects == Priorities \cup Lists

EmptyHeap ==
    [state |-> [t \in Task |-> "Free"],
     priority |-> [t \in Task |-> 0], base_priority |-> [t \in Task |-> 0],
     prev |-> [t \in Task |-> NoTask], next |-> [t \in Task |-> NoTask],
     head |-> [l \in ListObjects |-> NoTask],
     tail |-> [l \in ListObjects |-> NoTask],
     ready_bitmask |-> {},
     delay_head |-> NoTask,
     delay_prev |-> [t \in Task |-> NoTask],
     delay_next |-> [t \in Task |-> NoTask],
     delay_ticks |-> [t \in Task |-> 0],
     in_delay_list |-> [t \in Task |-> FALSE],
     wait_list |-> [t \in Task |-> NoList],
     timeout_expired |-> [t \in Task |-> FALSE]]

\* f with the field of the task that p points at set to v, if p is not null.
Set(f, p, v) == IF p = NoTask THEN f ELSE [f EXCEPT ![p] = v]

----------------------------------------------------------------------------
(* TaskList *)

push_back(h, l, t) ==
    [h EXCEPT !.next = Set([@ EXCEPT ![t] = NoTask], h.tail[l], t),
              !.prev[t] = h.tail[l],
              !.head[l] = IF h.tail[l] = NoTask THEN t ELSE @,
              !.tail[l] = t]

\* The loop of insert_by_priority: the first task from cur on below p.
RECURSIVE FirstBelow(_, _, _)
FirstBelow(h, cur, p) ==
    IF cur = NoTask \/ h.priority[cur] < p THEN cur
    ELSE FirstBelow(h, h.next[cur], p)

insert_by_priority(h, l, t) ==
    LET cur == FirstBelow(h, h.head[l], h.priority[t]) IN
    IF cur = NoTask THEN push_back(h, l, t)
    ELSE [h EXCEPT !.next = Set([@ EXCEPT ![t] = cur], h.prev[cur], t),
                   !.prev = [@ EXCEPT ![t] = h.prev[cur], ![cur] = t],
                   !.head[l] = IF h.prev[cur] = NoTask THEN t ELSE @]

\* pop_front of a list that is not empty.
pop_front(h, l) ==
    LET t == h.head[l]
        n == h.next[t]
    IN  [h EXCEPT !.head[l] = n,
                  !.tail[l] = IF n = NoTask THEN NoTask ELSE @,
                  !.prev = [Set(@, n, NoTask) EXCEPT ![t] = NoTask],
                  !.next[t] = NoTask]

\* Mutant of tail_without: the tail is not moved.
tail_without_kept(h, l, t) == h.tail[l]

\* The tail of l when t is unlinked.
tail_without(h, l, t) == IF h.next[t] = NoTask THEN h.prev[t] ELSE h.tail[l]

remove(h, l, t) ==
    LET p == h.prev[t]
        n == h.next[t]
    IN  [h EXCEPT !.next = [Set(@, p, n) EXCEPT ![t] = NoTask],
                  !.prev = [Set(@, n, p) EXCEPT ![t] = NoTask],
                  !.head[l] = IF p = NoTask THEN n ELSE @,
                  !.tail[l] = tail_without(h, l, t)]

----------------------------------------------------------------------------
(* ReadyManager *)

ready_add(h, t) ==
    [push_back(h, h.priority[t], t) EXCEPT
        !.ready_bitmask = @ \cup {h.priority[t]}]

\* The bit of list p goes when the list is empty.
ClearBit(h, p) ==
    IF h.head[p] = NoTask THEN [h EXCEPT !.ready_bitmask = @ \ {p}] ELSE h

ready_remove(h, t) == ClearBit(remove(h, h.priority[t], t), h.priority[t])

MakeReady(h, t) == ready_add([h EXCEPT !.state[t] = "Ready"], t)

----------------------------------------------------------------------------
(* DelayList *)

\* The loop of DelayList::insert: the neighbours of the new node and its delta.
RECURSIVE DelayGap(_, _, _, _)
DelayGap(h, prev, cur, ticks) ==
    IF cur = NoTask \/ ticks < h.delay_ticks[cur]
    THEN [prev |-> prev, cur |-> cur, ticks |-> ticks]
    ELSE DelayGap(h, cur, h.delay_next[cur], ticks - h.delay_ticks[cur])

delay_insert(h, t, ticks) ==
    LET g == DelayGap(h, NoTask, h.delay_head, ticks) IN
    [h EXCEPT
        !.delay_ticks = Set([@ EXCEPT ![t] = g.ticks], g.cur,
                            h.delay_ticks[g.cur] - g.ticks),
        !.delay_prev = Set([@ EXCEPT ![t] = g.prev], g.cur, t),
        !.delay_next = Set([@ EXCEPT ![t] = g.cur], g.prev, t),
        !.delay_head = IF g.prev = NoTask THEN t ELSE @,
        !.in_delay_list[t] = TRUE]

\* Mutant of inherit_ticks: the wait of the successor is cut short.
inherit_ticks_none(h, t) == h.delay_ticks

\* The deltas when t is unlinked: its successor takes over t's.
inherit_ticks(h, t) ==
    LET n == h.delay_next[t]
    IN  Set(h.delay_ticks, n, h.delay_ticks[n] + h.delay_ticks[t])

delay_remove(h, t) ==
    LET p == h.delay_prev[t]
        n == h.delay_next[t]
    IN  IF ~h.in_delay_list[t] THEN h
        ELSE [h EXCEPT !.delay_ticks = [inherit_ticks(h, t) EXCEPT ![t] = 0],
                       !.delay_prev = [Set(@, n, p) EXCEPT ![t] = NoTask],
                       !.delay_next = [Set(@, p, n) EXCEPT ![t] = NoTask],
                       !.delay_head = IF p = NoTask THEN n ELSE @,
                       !.in_delay_list[t] = FALSE]

\* A wait that ends without its object: unlinked, with the flag set.
GiveUp(h, t) ==
    IF h.wait_list[t] = NoList THEN h
    ELSE [remove(h, h.wait_list[t], t) EXCEPT !.wait_list[t] = NoList,
                                              !.timeout_expired[t] = TRUE]

\* The loop of DelayList::tick: pop heads that have no ticks left.
RECURSIVE Expire(_)
Expire(h) ==
    LET t == h.delay_head IN
    IF t = NoTask THEN h
    ELSE IF h.delay_ticks[t] # 0 THEN h
    ELSE LET popped == [h EXCEPT !.delay_head = h.delay_next[t],
                                 !.delay_prev = Set(@, h.delay_next[t], NoTask),
                                 !.delay_next[t] = NoTask,
                                 !.in_delay_list[t] = FALSE]
         IN  Expire(MakeReady(GiveUp(popped, t), t))

delay_tick(h) ==
    IF h.delay_head = NoTask THEN h
    ELSE Expire([h EXCEPT !.delay_ticks[h.delay_head] = IF @ > 0 THEN @ - 1 ELSE @])

----------------------------------------------------------------------------
(* The calls *)

\* create_task_impl
Create(t, p) ==
    /\ heap.state[t] = "Free"
    /\ heap' = MakeReady([heap EXCEPT !.priority[t] = p,
                                      !.base_priority[t] = p], t)

\* schedule_next_task, with get_highest_priority_task
Switch ==
    LET Out == {t \in Task : heap.state[t] = "Running"}
        h   == IF Out = {} THEN heap ELSE MakeReady(heap, CHOOSE t \in Out : TRUE)
        top == Max(h.ready_bitmask)
    IN  /\ h.ready_bitmask # {}
        /\ heap' = [ClearBit(pop_front(h, top), top) EXCEPT
                        !.state[h.head[top]] = "Running"]

\* delay_ms
Sleep(t, n) ==
    /\ heap.state[t] = "Running"
    /\ heap' = delay_insert([heap EXCEPT !.state[t] = "Blocked"], t, n)

\* WaitQueue::park
Park(t, l) ==
    insert_by_priority([heap EXCEPT !.timeout_expired[t] = FALSE,
                                    !.state[t] = "Blocked",
                                    !.wait_list[t] = l], l, t)

Wait(t, l) == heap.state[t] = "Running" /\ heap' = Park(t, l)

TimedWait(t, l, n) ==
    heap.state[t] = "Running" /\ heap' = delay_insert(Park(t, l), t, n)

\* WaitQueue::wake_highest, then Scheduler::make_task_ready
Wake(l) ==
    LET t == heap.head[l] IN
    /\ t # NoTask
    /\ heap' = MakeReady(delay_remove([pop_front(heap, l) EXCEPT
                                          !.wait_list[t] = NoList], t), t)

Tick == heap' = delay_tick(heap)

\* The critical section of suspend_task
Suspend(t) ==
    LET unlinked == CASE heap.state[t] = "Ready"   -> ready_remove(heap, t)
                      [] heap.state[t] = "Blocked" -> delay_remove(GiveUp(heap, t), t)
                      [] OTHER                     -> heap
    IN  /\ heap.state[t] \in {"Ready", "Running", "Blocked"}
        /\ heap' = [unlinked EXCEPT !.state[t] = "Suspended"]

Resume(t) == heap.state[t] = "Suspended" /\ heap' = MakeReady(heap, t)

\* set_task_priority
SetPriority(t, p) ==
    LET set(h) == [h EXCEPT !.priority[t] = p]
        l      == heap.wait_list[t]
    IN  /\ heap.state[t] # "Free" /\ heap.priority[t] # p
        /\ heap' = CASE heap.state[t] = "Ready" ->
                           ready_add(set(ready_remove(heap, t)), t)
                     [] heap.state[t] = "Blocked" /\ l # NoList ->
                           insert_by_priority(remove(set(heap), l, t), l, t)
                     [] OTHER -> set(heap)

HeapNext ==
    \/ Switch
    \/ Tick
    \/ \E l \in Lists : Wake(l)
    \/ \E t \in Task :
        \/ Suspend(t)
        \/ Resume(t)
        \/ \E p \in Priorities : Create(t, p) \/ SetPriority(t, p)
        \/ \E n \in Ticks : Sleep(t, n)
        \/ \E l \in Lists : Wait(t, l) \/ \E n \in Ticks : TimedWait(t, l, n)

HeapSpec == heap = EmptyHeap /\ [][HeapNext]_heap

----------------------------------------------------------------------------
(* Properties *)

\* The tasks reached from t through the links f, in at most n steps.
RECURSIVE Walk(_, _, _)
Walk(f, t, n) == IF t = NoTask \/ n = 0 THEN <<>>
                 ELSE <<t>> \o Walk(f, f[t], n - 1)

WalkList(l) == Walk(heap.next, heap.head[l], Cardinality(Task) + 1)

\* The ticks until a task in the delay list wakes: its delta and those before.
RECURSIVE Left(_, _)
Left(t, n) == IF t = NoTask \/ n = 0 THEN 0
              ELSE heap.delay_ticks[t] + Left(heap.delay_prev[t], n - 1)

\* The kernel data of module Kernel that the heap stands for.
Abstract ==
    [state |-> heap.state,
     priority |-> heap.priority,
     base_priority |-> heap.base_priority,
     ready_lists |-> [p \in Priorities |-> WalkList(p)],
     ready_bitmask |-> heap.ready_bitmask,
     delay_list |-> Walk(heap.delay_next, heap.delay_head, Cardinality(Task) + 1),
     delay_left |-> [t \in Task |-> IF heap.in_delay_list[t]
                                    THEN Left(t, Cardinality(Task)) ELSE 0],
     wait_lists |-> [l \in Lists |-> WalkList(l)],
     wait_list |-> heap.wait_list,
     timeout_expired |-> heap.timeout_expired]

Ops == INSTANCE KernelOps WITH kern <- Abstract

\* The linked lists and deltas implement the sequences and remaining ticks of
\* module Kernel, operation by operation (task.cpp).
ImplementsOps == Ops!OpsSpec

\* Following prev from the tail is following next from the head, backwards, and
\* a task that is in no list has null links: what remove relies on.
LinksMirror ==
    /\ \A l \in ListObjects :
        LET s == WalkList(l) IN
        /\ heap.tail[l] = IF s = <<>> THEN NoTask ELSE s[Len(s)]
        /\ \A i \in 1..Len(s) :
              heap.prev[s[i]] = IF i = 1 THEN NoTask ELSE s[i - 1]
    /\ \A t \in Task :
        heap.state[t] \notin {"Ready", "Blocked"} =>
            heap.prev[t] = NoTask /\ heap.next[t] = NoTask
=============================================================================
