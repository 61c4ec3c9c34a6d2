----------------------------- MODULE MutexProofs -----------------------------
(***************************************************************************)
(* The invariants of mutexes with priority inheritance, for every set of   *)
(* tasks, mutexes and priorities and every nesting of locks.               *)
(***************************************************************************)
EXTENDS Mutex, SchedulerProofs

\* A waiter is inside lock and has not given up; somebody else owns the mutex
\* and is not below the waiter's own priority.
WaitersOwned ==
    \A t \in Task : kern.wait_list[t] # NoList =>
        LET m == kern.wait_list[t] IN
        /\ call[t].op = "lock" /\ call[t].arg = m
        /\ ~kern.timeout_expired[t]
        /\ owner[m] \in Task \ {t}
        /\ kern.base_priority[t] <= kern.priority[owner[m]]

\* held is the inverse of owner.
HeldExact == \A t \in Task : held[t] = {m \in Lists : owner[m] = t}

\* An owner was created: its priorities are written by nobody but Mutex.
OwnersLive == \A m \in Lists : owner[m] # NoTask => kern.state[owner[m]] # "Free"

\* Inheritance only raises.
AboveBase == \A t \in Task : kern.base_priority[t] <= kern.priority[t]

\* A lock call names a mutex.
LockArgs == \A t \in Task : call[t].op = "lock" => call[t].arg \in Lists

\* The inductive invariant of MutexSpec.
MutexInv ==
    /\ IInv
    /\ ListsSorted
    /\ owner \in [Lists -> Task \cup {NoTask}]
    /\ held \in [Task -> SUBSET Lists]
    /\ WaitersOwned
    /\ HeldExact
    /\ OwnersLive
    /\ AboveBase
    /\ LockArgs
    /\ LockResultExact
    /\ BoostEndsWithMutexes

LEMMA MutexInitInv == MutexInit => MutexInv
  <1> SUFFICES ASSUME MutexInit PROVE MutexInv
    OBVIOUS
  <1>1. IInv /\ ListsSorted
    BY InitInv, InitSorted DEF MutexInit
  <1>2. \A t \in Task : /\ call[t].op = "none" /\ kern.wait_list[t] = NoList
                        /\ kern.priority[t] = 0 /\ kern.base_priority[t] = 0
    BY DEF MutexInit, SchedInit, NoCall, EmptyKernel
  <1>3. /\ owner \in [Lists -> Task \cup {NoTask}]
        /\ held \in [Task -> SUBSET Lists]
        /\ \A m \in Lists : owner[m] = NoTask
        /\ \A t \in Task : held[t] = {}
    BY DEF MutexInit
  <1>4. HeldExact /\ OwnersLive
    BY <1>3, KernelAssumption DEF HeldExact, OwnersLive
  <1> QED
    BY <1>1, <1>2, <1>3, <1>4
    DEF MutexInv, WaitersOwned, AboveBase, LockArgs, LockResultExact, BoostEndsWithMutexes

\* Facts every step starts from.
LEMMA MutexBasics ==
    ASSUME MutexInv
    PROVE  /\ kern \in KernelType /\ Consistent(kern, {}) /\ Sorted(kern)
           /\ \A t \in Task : kern.priority[t] \in Int /\ kern.base_priority[t] \in Int
           /\ \A t \in Task : kern.wait_list[t] \in Lists \cup {NoList}
           /\ \A t \in Task : kern.wait_list[t] # NoList => kern.state[t] = "Blocked"
           /\ NoTask \notin Task /\ NoList \notin Lists
  <1>1. kern \in KernelType /\ Consistent(kern, {}) /\ Sorted(kern)
    BY Basics DEF MutexInv, Sorted, ListsSorted
  <1>2. \A t \in Task : kern.priority[t] \in Int /\ kern.base_priority[t] \in Int
    BY <1>1, Fields, KernelAssumption DEF Priorities
  <1>3. \A t \in Task : kern.wait_list[t] \in Lists \cup {NoList}
    BY <1>1, Fields
  <1>4. \A t \in Task : kern.wait_list[t] # NoList => kern.state[t] = "Blocked"
    BY <1>1, <1>3, WaitersExact
  <1> QED
    BY <1>1, <1>2, <1>3, <1>4, KernelAssumption

\* A step of the scheduler: waits only end by failing, the failed waiter does not
\* own the mutex, and no owner's or waiter's priority is touched.
LEMMA MutexSchedStep ==
    ASSUME MutexInv, [SchedNext]_svars, UNCHANGED <<owner, held>>
    PROVE  MutexInv'
  <1>1. IInv' /\ Effect
    BY NextInv, NextEffect DEF MutexInv
  <1>2. ListsSorted'
    BY <1>1 DEF MutexInv, Effect, KernelStep, Sorted, ListsSorted
  <1>3. /\ WaitsKept(kern, kern') /\ PrioritiesKept(kern, kern') /\ CallsKept
        /\ "lock" \in WaitingApi
    BY <1>1 DEF Effect, KernelStep, WaitingApi
  <1>4. \A m \in Lists : owner[m] \in Task \cup {NoTask}
    BY DEF MutexInv
  <1>5. OwnersLive'
    BY <1>3, <1>4 DEF MutexInv, OwnersLive, PrioritiesKept
  <1>6. WaitersOwned'
    <2> SUFFICES ASSUME NEW t \in Task, kern'.wait_list[t] # NoList
                 PROVE  LET m == kern'.wait_list[t] IN
                        /\ call'[t].op = "lock" /\ call'[t].arg = m
                        /\ ~kern'.timeout_expired[t]
                        /\ owner[m] \in Task \ {t}
                        /\ kern'.base_priority[t] <= kern'.priority[owner[m]]
      BY DEF WaitersOwned
    <2> DEFINE m == kern.wait_list[t]
    <2>1. m # NoList /\ kern'.wait_list[t] = m
          /\ kern'.timeout_expired[t] = kern.timeout_expired[t]
      BY <1>3 DEF WaitsKept
    <2>2. /\ call[t].op = "lock" /\ call[t].arg = m
          /\ ~kern.timeout_expired[t]
          /\ owner[m] \in Task \ {t}
          /\ kern.base_priority[t] <= kern.priority[owner[m]]
      BY <2>1 DEF MutexInv, WaitersOwned
    <2>3. m \in Lists /\ kern.state[t] = "Blocked" /\ NoTask \notin Task
      BY <2>1, MutexBasics
    <2> HIDE DEF m
    <2>4. kern.state[owner[m]] # "Free"
      BY <2>2, <2>3 DEF MutexInv, OwnersLive
    <2>5. /\ kern'.base_priority[t] = kern.base_priority[t]
          /\ kern'.priority[owner[m]] = kern.priority[owner[m]]
      BY <1>3, <2>2, <2>3, <2>4 DEF PrioritiesKept
    <2>6. call'[t].op = "lock" /\ call'[t].arg = m
      BY <1>3, <2>2 DEF CallsKept
    <2> QED
      BY <2>1, <2>2, <2>5, <2>6
  <1>7. AboveBase'
    <2>1. kern' \in KernelType
      BY <1>1 DEF IInv, TypeOK
    <2>2. \A t \in Task : kern'.priority[t] \in Int
      BY <2>1, Fields, KernelAssumption DEF Priorities
    <2> QED
      BY <1>3, <2>2 DEF MutexInv, AboveBase, PrioritiesKept
  <1>8. BoostEndsWithMutexes'
    BY <1>3 DEF MutexInv, BoostEndsWithMutexes, PrioritiesKept
  <1>9. LockResultExact'
    <2> SUFFICES ASSUME NEW t \in Task, call'[t].op = "lock", kern'.wait_list[t] = NoList
                 PROVE  ~kern'.timeout_expired[t] <=> owner[call'[t].arg] = t
      BY DEF LockResultExact
    <2>1. call[t].op = "lock" /\ call'[t].arg = call[t].arg
      BY <1>3 DEF CallsKept
    <2>2. CASE kern.wait_list[t] = NoList
      BY <1>3, <2>1, <2>2 DEF MutexInv, LockResultExact, WaitsKept
    <2>3. CASE kern.wait_list[t] # NoList
      <3>1. kern'.timeout_expired[t] = TRUE
        BY <1>3, <2>3 DEF WaitsKept
      <3>2. call[t].arg = kern.wait_list[t] /\ owner[kern.wait_list[t]] \in Task \ {t}
        BY <2>3 DEF MutexInv, WaitersOwned
      <3> QED
        BY <2>1, <3>1, <3>2
    <2> QED
      BY <2>2, <2>3
  <1>10. HeldExact' /\ LockArgs'
    BY <1>3 DEF MutexInv, HeldExact, LockArgs, CallsKept
  <1> QED
    BY <1>1, <1>2, <1>5, <1>6, <1>7, <1>8, <1>9, <1>10 DEF MutexInv

\* lock of a free mutex: nobody waits for it, and nobody's lock call thought it
\* owned it.
LEMMA LockFreeStep ==
    ASSUME MutexInv, NEW t \in Task, NEW m \in Lists, lock_free(t, m)
    PROVE  MutexInv'
  <1>1. /\ Thread(t) /\ call[t] = NoCall /\ call[t].op = "none"
        /\ owner[m] = NoTask
        /\ owner' = [owner EXCEPT ![m] = t]
        /\ held' = add_held(held, t, m)
        /\ UNCHANGED svars
    BY DEF lock_free, Calls, NoCall
  <1>2. UNCHANGED <<kern, call>> /\ IInv'
    BY <1>1, SameScheduler DEF MutexInv, svars
  <1>3. \A n \in Lists : owner'[n] = IF n = m THEN t ELSE owner[n]
    BY <1>1 DEF MutexInv
  <1>4. held' = [held EXCEPT ![t] = held[t] \cup {m}]
    BY <1>1, KernelAssumption DEF add_held
  <1>5. \A v \in Task : held'[v] = IF v = t THEN held[t] \cup {m} ELSE held[v]
    BY <1>4 DEF MutexInv
  <1>6. owner' \in [Lists -> Task \cup {NoTask}] /\ held' \in [Task -> SUBSET Lists]
    BY <1>1, <1>4 DEF MutexInv
  <1>7. HeldExact'
    BY <1>1, <1>3, <1>5, KernelAssumption DEF MutexInv, HeldExact
  <1>8. kern.state[t] = "Running"
    BY <1>1, Basics, RunningThread DEF MutexInv
  <1>9. OwnersLive'
    BY <1>2, <1>3, <1>8 DEF MutexInv, OwnersLive
  <1>10. \A v \in Task : kern.wait_list[v] # m
    BY <1>1, MutexBasics DEF MutexInv, WaitersOwned
  <1>11. WaitersOwned'
    BY <1>2, <1>3, <1>10, MutexBasics DEF MutexInv, WaitersOwned
  <1>12. LockResultExact'
    <2> SUFFICES ASSUME NEW v \in Task, call[v].op = "lock", kern.wait_list[v] = NoList
                 PROVE  ~kern.timeout_expired[v] <=> owner'[call[v].arg] = v
      BY <1>2 DEF LockResultExact
    <2>1. v # t /\ (~kern.timeout_expired[v] <=> owner[call[v].arg] = v)
      BY <1>1 DEF MutexInv, LockResultExact
    <2>2. call[v].arg \in Lists
      BY DEF MutexInv, LockArgs
    <2>3. owner'[call[v].arg] = v <=> owner[call[v].arg] = v
      BY <1>1, <1>3, <2>1, <2>2, KernelAssumption
    <2> QED
      BY <2>1, <2>3
  <1>13. BoostEndsWithMutexes'
    BY <1>2, <1>5 DEF MutexInv, BoostEndsWithMutexes
  <1>14. ListsSorted' /\ AboveBase' /\ LockArgs'
    BY <1>2 DEF MutexInv, ListsSorted, AboveBase, LockArgs
  <1> QED
    BY <1>2, <1>6, <1>7, <1>9, <1>11, <1>12, <1>13, <1>14 DEF MutexInv

\* lock of a mutex that o owns: o is raised to the caller's priority if that is
\* higher, and the caller waits.
LEMMA LockWaitStep ==
    ASSUME MutexInv, NEW t \in Task, NEW m \in Lists, lock_wait(t, m)
    PROVE  MutexInv'
  <1> DEFINE o == owner[m]
             p == kern.priority[t]
             k == IF p > kern.priority[o] THEN set_task_priority(kern, o, p) ELSE kern
  <1>1. /\ t \in Task \ {Idle} /\ Thread(t) /\ call[t] = NoCall /\ call[t].op = "none"
        /\ o \in Task \ {t}
    <2>1. Calls(t, "lock")
      BY Zenon DEF lock_wait
    <2>2. o \notin {NoTask, t}
      BY DEF lock_wait
    <2>3. o \in Task \cup {NoTask}
      BY DEF MutexInv
    <2> QED
      BY <2>1, <2>2, <2>3 DEF Calls, NoCall
  <1>2. kern.state[t] = "Running" /\ kern.wait_list[t] = NoList
    BY <1>1, Basics, RunningThread, MutexBasics DEF MutexInv
  <1>3. /\ kern' = park(k, t, m)
        /\ GoTo(t, "lock", "yield", m)
        /\ UNCHANGED <<current_task, started, pendsv, tick_count, panic>>
        /\ UNCHANGED <<owner, held>>
    BY <1>2 DEF lock_wait
  <1>4. p \in Priorities
    BY Basics DEF MutexInv
  <1>5. /\ k \in KernelType
        /\ Consistent(k, {})
        /\ k.state = kern.state
        /\ \A u \in Task : k.priority[u] = IF u = o /\ p > kern.priority[o] THEN p
                                           ELSE kern.priority[u]
        /\ k.base_priority = kern.base_priority
        /\ k.wait_list = kern.wait_list
        /\ k.timeout_expired = kern.timeout_expired
        /\ Sorted(k)
    <2> HIDE DEF p, o
    <2>1. CASE p > kern.priority[o]
      BY <1>1, <1>4, <2>1, MutexBasics, SetTaskPriority
    <2>2. CASE ~(p > kern.priority[o])
      BY <2>2, MutexBasics
    <2> QED
      BY <2>1, <2>2
  <1> HIDE DEF k
  <1>6. kern' \in KernelType /\ Consistent(kern', {}) /\ Parked(k, kern', t, m)
    BY <1>2, <1>3, <1>5, Park DEF Parked
  <1>7. \A u \in Task : kern'.state[u] = IF u = t THEN "Blocked" ELSE kern.state[u]
    <2>1. k.state \in [Task -> TaskStates]
      BY <1>5 DEF KernelType
    <2> QED
      BY <1>5, <1>6, <2>1 DEF Parked
  <1>8. /\ IInv'
        /\ \A u \in Task \ {t} : call'[u] = call[u]
        /\ call'[t].op = "lock" /\ call'[t].arg = m
    <2>1. "lock" \in WaitingApi
      BY DEF WaitingApi
    <2> QED
      BY <1>1, <1>3, <1>6, <1>7, <2>1, BlockStep DEF MutexInv
  <1>9. /\ \A u \in Task : kern'.wait_list[u] = IF u = t THEN m ELSE kern.wait_list[u]
        /\ \A u \in Task \ {t} : kern'.timeout_expired[u] = kern.timeout_expired[u]
        /\ ~kern'.timeout_expired[t]
    BY <1>5, <1>6, ParkedWaits
  <1>10. /\ \A u \in Task : kern'.priority[u] = IF u = o /\ p > kern.priority[o] THEN p
                                                ELSE kern.priority[u]
         /\ \A u \in Task : kern'.base_priority[u] = kern.base_priority[u]
    BY <1>5, <1>6 DEF Parked
  <1>11. \A u \in Task : /\ kern.priority[u] \in Int /\ kern.base_priority[u] \in Int
                         /\ kern.base_priority[u] <= kern.priority[u]
    BY MutexBasics DEF MutexInv, AboveBase
  <1>12. /\ \A u \in Task : /\ kern'.priority[u] >= kern.priority[u]
                            /\ kern'.priority[u] \in Int
         /\ kern'.priority[o] >= kern.priority[t]
    BY <1>1, <1>10, <1>11
  <1>13. WaitersOwned'
    <2> SUFFICES ASSUME NEW v \in Task, kern'.wait_list[v] # NoList
                 PROVE  LET n == kern'.wait_list[v] IN
                        /\ call'[v].op = "lock" /\ call'[v].arg = n
                        /\ ~kern'.timeout_expired[v]
                        /\ owner[n] \in Task \ {v}
                        /\ kern'.base_priority[v] <= kern'.priority[owner[n]]
      BY <1>3 DEF WaitersOwned
    <2>1. CASE v = t
      <3>1. kern.base_priority[t] <= kern'.priority[o]
        BY <1>1, <1>11, <1>12
      <3> QED
        BY <1>1, <1>8, <1>9, <1>10, <2>1, <3>1
    <2>2. CASE v # t
      <3> DEFINE n == kern.wait_list[v]
      <3>1. n # NoList /\ kern'.wait_list[v] = n
        BY <1>9, <2>2
      <3>2. /\ call[v].op = "lock" /\ call[v].arg = n
            /\ ~kern.timeout_expired[v]
            /\ owner[n] \in Task \ {v}
            /\ kern.base_priority[v] <= kern.priority[owner[n]]
        BY <3>1 DEF MutexInv, WaitersOwned
      <3> HIDE DEF n
      <3>3. kern'.base_priority[v] <= kern'.priority[owner[n]]
        BY <1>10, <1>11, <1>12, <3>2
      <3> QED
        BY <1>8, <1>9, <2>2, <3>1, <3>2, <3>3
    <2> QED
      BY <2>1, <2>2
  <1>14. AboveBase'
    BY <1>10, <1>11, <1>12 DEF AboveBase
  <1>15. OwnersLive'
    BY <1>3, <1>7 DEF MutexInv, OwnersLive
  <1>16. LockArgs' /\ LockResultExact'
    <2>1. LockArgs'
      BY <1>8 DEF MutexInv, LockArgs
    <2>2. m # NoList
      BY MutexBasics
    <2> QED
      BY <1>3, <1>8, <1>9, <2>1, <2>2 DEF MutexInv, LockResultExact
  <1>17. BoostEndsWithMutexes'
    <2>1. held[o] # {}
      BY <1>1 DEF MutexInv, HeldExact
    <2> QED
      BY <1>3, <1>10, <2>1 DEF MutexInv, BoostEndsWithMutexes
  <1>18. HeldExact' /\ ListsSorted'
    BY <1>3, <1>5, <1>6 DEF MutexInv, HeldExact, Parked, Sorted, ListsSorted
  <1> QED
    BY <1>3, <1>8, <1>13, <1>14, <1>15, <1>16, <1>17, <1>18 DEF MutexInv

LEMMA LockReturnStep ==
    ASSUME MutexInv, NEW t \in Task, lock_return(t)
    PROVE  MutexInv'
  <1>1. /\ Thread(t) /\ call[t].op = "lock" /\ call[t].at = "ret" /\ Return(t)
        /\ UNCHANGED <<kern, current_task, started, pendsv, tick_count, panic>>
        /\ UNCHANGED <<owner, held>>
    BY DEF lock_return, Inside
  <1>2. t \in Task \ {Idle}
    BY <1>1 DEF MutexInv, IInv, IdleReady, NoCall
  <1>3. IInv'
    BY <1>1, <1>2, ReturnStep DEF MutexInv
  <1>4. kern.state[t] = "Running" /\ kern.wait_list[t] = NoList
    BY <1>1, RunningThread, MutexBasics DEF MutexInv
  <1>5. (\A u \in Task : call'[u] = IF u = t THEN NoCall ELSE call[u]) /\ NoCall.op = "none"
    BY <1>1, Basics DEF MutexInv, Return, NoCall
  <1>6. WaitersOwned'
    BY <1>1, <1>4, <1>5 DEF MutexInv, WaitersOwned
  <1>7. LockArgs' /\ LockResultExact'
    BY <1>1, <1>5 DEF MutexInv, LockArgs, LockResultExact
  <1>8. HeldExact' /\ OwnersLive' /\ AboveBase' /\ BoostEndsWithMutexes' /\ ListsSorted'
    BY <1>1 DEF MutexInv, HeldExact, OwnersLive, AboveBase, BoostEndsWithMutexes,
       ListsSorted
  <1> QED
    BY <1>1, <1>3, <1>6, <1>7, <1>8 DEF MutexInv
\* recompute_priority of a task that holds M: a priority that is not below the
\* task's own nor below the first waiter of any mutex in M.
LEMMA RecomputePriority ==
    ASSUME NEW k \in KernelType, NEW t \in Task, NEW M \in SUBSET Lists
    PROVE  LET np == recompute_priority(k, t, M)
           IN  /\ np \in Priorities
               /\ k.base_priority[t] <= np
               /\ \A m \in M : peek_waiter(k, m) # NoTask =>
                                   k.priority[peek_waiter(k, m)] <= np
               /\ M = {} => np = k.base_priority[t]
  <1> DEFINE W == {n \in M : peek_waiter(k, n) # NoTask}
             T == {k.base_priority[t]} \cup {k.priority[peek_waiter(k, m)] : m \in W}
  <1>1. \A m \in W : peek_waiter(k, m) \in Task
    <2> SUFFICES ASSUME NEW m \in W PROVE peek_waiter(k, m) \in Task
      OBVIOUS
    <2>1. k.wait_lists[m] \in Seq(Task)
      BY Fields
    <2> QED
      BY <2>1 DEF peek_waiter
  <1>2. kMaxPriorities - 1 \in Nat /\ T \in SUBSET (0..(kMaxPriorities - 1)) /\ T # {}
    <2>1. kMaxPriorities - 1 \in Nat
      BY KernelAssumption
    <2>2. \A v \in Task : k.priority[v] \in Priorities /\ k.base_priority[v] \in Priorities
      BY Fields
    <2> HIDE DEF W
    <2>3. \A n \in T : n \in Priorities
      BY <1>1, <2>2
    <2> QED
      BY <2>1, <2>3 DEF Priorities
  <1>3. recompute_priority(k, t, M) = Max(T)
    BY DEF recompute_priority
  <1>4. M = {} => T = {k.base_priority[t]}
    OBVIOUS
  <1>5. /\ k.base_priority[t] \in T
        /\ \A m \in M : peek_waiter(k, m) # NoTask => k.priority[peek_waiter(k, m)] \in T
    OBVIOUS
  <1> HIDE DEF T, W
  <1>6. Max(T) \in T /\ \A n \in T : n <= Max(T)
    BY <1>2, MaxOfSet
  <1> QED
    BY <1>2, <1>3, <1>4, <1>5, <1>6 DEF Priorities

\* In a sorted kernel nobody in a wait list is above the first waiter.
LEMMA FirstHighest ==
    ASSUME NEW k \in KernelType, Consistent(k, {}), Sorted(k), NEW l \in Lists,
           NEW v \in Task, k.wait_list[v] = l
    PROVE  /\ peek_waiter(k, l) # NoTask
           /\ peek_waiter(k, l) \in Task
           /\ k.priority[v] <= k.priority[peek_waiter(k, l)]
  <1>1. v \in Range(k.wait_lists[l]) /\ k.wait_lists[l] # <<>>
    BY WaitersExact
  <1>2. peek_waiter(k, l) # NoTask
    BY <1>1, PeekWaiter
  <1> QED
    BY <1>1, <1>2, WakeWaiter

\* unlock: the first waiter owns the mutex, and what is left of the boost of the
\* caller still covers the waiters of the mutexes it keeps.
LEMMA UnlockStep ==
    ASSUME MutexInv, NEW t \in Task, NEW m \in Lists, unlock(t, m)
    PROVE  MutexInv'
  <1> DEFINE u  == peek_waiter(kern, m)
             k  == make_task_ready(wake_highest(kern, m), u)
             M  == held[t] \ {m}
             np == recompute_priority(k, t, M)
             y  == (u # NoTask /\ preempts(u)) \/ np # kern.priority[t]
             W  == IF u = NoTask THEN {} ELSE {u}
  <1>1. /\ t \in Task \ {Idle} /\ Thread(t) /\ call[t] = NoCall /\ call[t].op = "none"
        /\ owner[m] = t
    BY DEF unlock, Calls, NoCall
  <1>2. /\ kern.state[t] = "Running" /\ started
        /\ kern.wait_list[t] = NoList
        /\ \A v \in Task : kern.state[v] = "Ready" => kern.priority[v] <= kern.priority[t]
    BY <1>1, Basics, RunningThread, MutexBasics DEF MutexInv
  <1>3. /\ held \in [Task -> SUBSET Lists]
        /\ owner \in [Lists -> Task \cup {NoTask}]
        /\ M \in SUBSET Lists
        /\ remove_held(held, t, m)[t] = M
    BY DEF MutexInv, remove_held
  <1>4. /\ owner' = [owner EXCEPT ![m] = u]
        /\ held' = add_held(remove_held(held, t, m), u, m)
        /\ kern' = set_task_priority(k, t, np)
        /\ Leave(t, "unlock", NoTask, y)
        /\ UNCHANGED <<current_task, started, pendsv, tick_count, panic>>
    BY <1>3 DEF unlock, unlock_yields
  <1>5. /\ u \in Task \cup {NoTask} /\ W \subseteq Task /\ t \notin W
        /\ \A v \in W : kern.wait_list[v] = m /\ kern.state[v] = "Blocked"
        /\ k \in KernelType /\ Consistent(k, {}) /\ Sorted(k)
        /\ \A v \in Task : k.state[v] = IF v \in W THEN "Ready" ELSE kern.state[v]
        /\ k.priority = kern.priority
        /\ k.base_priority = kern.base_priority
        /\ \A v \in Task : k.wait_list[v] = IF v \in W THEN NoList ELSE kern.wait_list[v]
        /\ k.timeout_expired = kern.timeout_expired
    <2>1. CASE u = NoTask
      <3>1. k = kern
        BY <2>1, MutexBasics, PeekWaiter DEF make_task_ready, wake_highest
      <3> QED
        BY <2>1, <3>1, MutexBasics
    <2>2. CASE u # NoTask
      <3> HIDE DEF k, u
      <3>1. /\ u \in Task /\ kern.state[u] = "Blocked" /\ kern.wait_list[u] = m
            /\ WokenFirst(kern, k, u)
        BY <2>2, MutexBasics, WakeFirst DEF u, k
      <3>2. /\ kern.state \in [Task -> TaskStates]
            /\ kern.wait_list \in [Task -> Lists \cup {NoList}]
        BY MutexBasics DEF KernelType
      <3>3. W = {u} /\ u # t
        BY <1>2, <2>2, <3>1
      <3> QED
        BY <3>1, <3>2, <3>3, MutexBasics DEF WokenFirst
    <2> QED
      BY <2>1, <2>2
  <1>6. /\ np \in Priorities
        /\ kern.base_priority[t] <= np
        /\ \A n \in M : peek_waiter(k, n) # NoTask => kern.priority[peek_waiter(k, n)] <= np
        /\ M = {} => np = kern.base_priority[t]
    BY <1>3, <1>5, RecomputePriority
  <1>7. /\ kern' \in KernelType /\ Consistent(kern', {}) /\ Sorted(kern')
        /\ \A v \in Task : kern'.state[v] = IF v \in W THEN "Ready" ELSE kern.state[v]
        /\ \A v \in Task : kern'.priority[v] = IF v = t THEN np ELSE kern.priority[v]
        /\ \A v \in Task : kern'.base_priority[v] = kern.base_priority[v]
        /\ \A v \in Task : kern'.wait_list[v] = IF v \in W THEN NoList
                                                ELSE kern.wait_list[v]
        /\ \A v \in Task : kern'.timeout_expired[v] = kern.timeout_expired[v]
    <2> HIDE DEF k, np, W
    <2> QED
      BY <1>4, <1>5, <1>6, SetTaskPriority
  <1>8. y \in BOOLEAN /\ (u # NoTask => W = {u}) /\ (u = NoTask => W = {})
    BY DEF preempts
  <1>9. ~y => \A v \in Task : kern'.state[v] = "Ready" => kern'.priority[v] <= kern'.priority[t]
    <2> SUFFICES ASSUME ~y, NEW v \in Task, kern'.state[v] = "Ready"
                 PROVE  kern'.priority[v] <= kern'.priority[t]
      OBVIOUS
    <2>1. np = kern.priority[t] /\ (u # NoTask => ~preempts(u))
      OBVIOUS
    <2>2. kern'.priority[v] = kern.priority[v] /\ kern'.priority[t] = kern.priority[t]
      BY <1>7, <2>1
    <2> HIDE DEF u, np, k
    <2>3. CASE v \in W
      <3>1. v = u /\ u # NoTask /\ current_task = t
        BY <1>1, <1>8, <2>3 DEF Thread
      <3>2. kern.priority[v] \in Int /\ kern.priority[t] \in Int
        BY MutexBasics
      <3>3. ~(kern.priority[v] > kern.priority[t])
        BY <1>2, <2>1, <3>1, KernelAssumption DEF preempts
      <3> QED
        BY <2>2, <3>2, <3>3
    <2>4. CASE v \notin W
      BY <1>2, <1>7, <2>2, <2>4
    <2> QED
      BY <2>3, <2>4
  <1> HIDE DEF u, k, M, np, y, W
  <1>10. /\ IInv'
         /\ \A v \in Task \ {t} : call'[v] = call[v]
         /\ call'[t].op # "lock"
    <2>1. "unlock" \in WakingApi /\ "lock" \in WaitingApi
      BY DEF WakingApi, WaitingApi
    <2>2. Woken(kern, kern')
      BY <1>5, <1>7 DEF Woken
    <2>3. /\ IInv'
          /\ \A v \in Task \ {t} : call'[v] = call[v]
          /\ call'[t].op \notin WaitingApi
      BY <1>1, <1>4, <1>7, <1>8, <1>9, <2>1, <2>2, LeaveStep DEF MutexInv
    <2> QED
      BY <2>1, <2>3
  <1>11. /\ \A n \in Lists : owner'[n] = IF n = m THEN u ELSE owner[n]
         /\ owner' \in [Lists -> Task \cup {NoTask}]
    BY <1>3, <1>4, <1>5
  <1>12. /\ \A v \in Task : held'[v] = IF v = t THEN M
                                       ELSE IF v \in W THEN held[v] \cup {m} ELSE held[v]
         /\ held' \in [Task -> SUBSET Lists]
    <2> DEFINE h == remove_held(held, t, m)
    <2>1. h = [held EXCEPT ![t] = M]
      BY <1>3 DEF remove_held, M
    <2>2. h \in [Task -> SUBSET Lists]
      BY <1>3, <2>1
    <2> HIDE DEF h
    <2>3. CASE u = NoTask
      <3>1. held' = h /\ W = {}
        BY <1>4, <1>8, <2>3 DEF add_held, h
      <3> QED
        BY <1>3, <2>1, <2>2, <3>1
    <2>4. CASE u # NoTask
      <3>1. held' = [h EXCEPT ![u] = h[u] \cup {m}] /\ W = {u} /\ u \in Task /\ u # t
        BY <1>4, <1>5, <1>8, <2>4 DEF add_held, h
      <3> QED
        BY <1>3, <2>1, <2>2, <3>1
    <2> QED
      BY <2>3, <2>4
  <1>13. HeldExact'
    <2>1. \A v \in Task : held[v] = {n \in Lists : owner[n] = v}
      BY DEF MutexInv, HeldExact
    <2>2. M = {n \in Lists : owner[n] = t} \ {m} /\ NoTask \notin Task
      BY <2>1, KernelAssumption DEF M
    <2> SUFFICES ASSUME NEW v \in Task, NEW n \in Lists
                 PROVE  n \in held'[v] <=> owner'[n] = v
      BY <1>12 DEF HeldExact
    <2>3. CASE v = t
      BY <1>5, <1>8, <1>11, <1>12, <2>2, <2>3
    <2>4. CASE v # t /\ v \in W
      BY <1>1, <1>5, <1>8, <1>11, <1>12, <2>1, <2>4
    <2>5. CASE v # t /\ v \notin W
      BY <1>1, <1>5, <1>8, <1>11, <1>12, <2>1, <2>2, <2>5
    <2> QED
      BY <2>3, <2>4, <2>5
  <1>14. OwnersLive'
    <2> SUFFICES ASSUME NEW n \in Lists, owner'[n] # NoTask
                 PROVE  kern'.state[owner'[n]] # "Free"
      BY DEF OwnersLive
    <2>1. CASE n = m
      BY <1>5, <1>7, <1>8, <1>11, <2>1
    <2>2. CASE n # m
      <3>1. owner'[n] = owner[n] /\ owner[n] \in Task
        BY <1>3, <1>11, <2>2
      <3>2. kern.state[owner[n]] # "Free"
        BY <3>1 DEF MutexInv, OwnersLive
      <3> QED
        BY <1>7, <3>1, <3>2
    <2> QED
      BY <2>1, <2>2
  <1>15. /\ \A v \in Task : /\ kern.priority[v] \in Int /\ kern.base_priority[v] \in Int
                            /\ kern.base_priority[v] <= kern.priority[v]
         /\ np \in Int
    BY <1>6, MutexBasics, KernelAssumption DEF MutexInv, AboveBase, Priorities
  <1>16. WaitersOwned'
    <2> SUFFICES ASSUME NEW v \in Task, kern'.wait_list[v] # NoList
                 PROVE  LET n == kern'.wait_list[v] IN
                        /\ call'[v].op = "lock" /\ call'[v].arg = n
                        /\ ~kern'.timeout_expired[v]
                        /\ owner'[n] \in Task \ {v}
                        /\ kern'.base_priority[v] <= kern'.priority[owner'[n]]
      BY DEF WaitersOwned
    <2> DEFINE n == kern.wait_list[v]
    <2>1. v \notin W /\ n # NoList /\ kern'.wait_list[v] = n /\ v # t /\ k.wait_list[v] = n
      BY <1>2, <1>5, <1>7
    <2>2. n \in Lists
      BY <2>1, MutexBasics
    <2>3. /\ call[v].op = "lock" /\ call[v].arg = n
          /\ ~kern.timeout_expired[v]
          /\ owner[n] \in Task \ {v}
          /\ kern.base_priority[v] <= kern.priority[owner[n]]
      BY <2>1 DEF MutexInv, WaitersOwned
    <2> HIDE DEF n
    <2>4. call'[v].op = "lock" /\ call'[v].arg = n /\ ~kern'.timeout_expired[v]
      BY <1>7, <1>10, <2>1, <2>3
    <2>5. owner'[n] \in Task \ {v} /\ kern.base_priority[v] <= kern'.priority[owner'[n]]
      <3>1. CASE n = m
        <4>1. /\ peek_waiter(kern, m) # NoTask /\ peek_waiter(kern, m) \in Task
              /\ kern.priority[v] <= kern.priority[peek_waiter(kern, m)]
          BY <3>1, FirstHighest, MutexBasics DEF n
        <4>2. u \in Task /\ kern.priority[v] <= kern.priority[u] /\ W = {u}
          BY <1>8, <4>1 DEF u
        <4>3. owner'[n] = u /\ u # v /\ u # t
          BY <1>5, <1>11, <2>1, <2>2, <3>1, <4>2
        <4>4. kern'.priority[u] = kern.priority[u]
          BY <1>7, <4>2, <4>3
        <4> QED
          BY <1>15, <4>2, <4>3, <4>4
      <3>2. CASE n # m /\ owner[n] = t
        <4>1. n \in M
          BY <2>2, <3>2 DEF MutexInv, HeldExact, M
        <4>2. /\ peek_waiter(k, n) # NoTask /\ peek_waiter(k, n) \in Task
              /\ k.priority[v] <= k.priority[peek_waiter(k, n)]
          BY <1>5, <2>1, <2>2, FirstHighest
        <4>3. kern.priority[v] <= np
          BY <1>5, <1>6, <1>15, <4>1, <4>2
        <4>4. owner'[n] = t /\ kern'.priority[t] = np
          BY <1>7, <1>11, <2>2, <3>2
        <4> QED
          BY <1>15, <2>1, <4>3, <4>4
      <3>3. CASE n # m /\ owner[n] # t
        BY <1>7, <1>11, <2>2, <2>3, <3>3
      <3> QED
        BY <3>1, <3>2, <3>3
    <2> QED
      BY <1>7, <2>1, <2>4, <2>5
  <1>17. AboveBase'
    BY <1>6, <1>7, <1>15 DEF AboveBase
  <1>18. BoostEndsWithMutexes'
    <2> SUFFICES ASSUME NEW v \in Task, held'[v] = {}
                 PROVE  kern'.priority[v] = kern'.base_priority[v]
      BY DEF BoostEndsWithMutexes
    <2>1. CASE v = t
      BY <1>6, <1>7, <1>12, <2>1
    <2>2. CASE v # t
      BY <1>7, <1>12, <2>2 DEF MutexInv, BoostEndsWithMutexes
    <2> QED
      BY <2>1, <2>2
  <1>19. LockArgs'
    BY <1>10 DEF MutexInv, LockArgs
  <1>20. LockResultExact'
    <2> SUFFICES ASSUME NEW v \in Task, call'[v].op = "lock", kern'.wait_list[v] = NoList
                 PROVE  ~kern'.timeout_expired[v] <=> owner'[call'[v].arg] = v
      BY DEF LockResultExact
    <2>1. /\ v # t /\ call'[v] = call[v] /\ call[v].op = "lock" /\ call[v].arg \in Lists
          /\ kern'.timeout_expired[v] = kern.timeout_expired[v]
      BY <1>7, <1>10 DEF MutexInv, LockArgs
    <2>2. CASE v \in W
      <3>1. kern.wait_list[v] = m /\ m # NoList /\ v = u
        BY <1>5, <1>8, <2>2, MutexBasics
      <3>2. ~kern.timeout_expired[v] /\ call[v].arg = m
        BY <3>1 DEF MutexInv, WaitersOwned
      <3> QED
        BY <1>11, <2>1, <3>1, <3>2
    <2>3. CASE v \notin W
      <3>1. kern.wait_list[v] = NoList
        BY <1>7, <2>3
      <3>2. ~kern.timeout_expired[v] <=> owner[call[v].arg] = v
        BY <2>1, <3>1 DEF MutexInv, LockResultExact
      <3>3. owner'[call[v].arg] = v <=> owner[call[v].arg] = v
        BY <1>1, <1>8, <1>11, <2>1, <2>3, KernelAssumption
      <3> QED
        BY <2>1, <3>2, <3>3
    <2> QED
      BY <2>2, <2>3
  <1>21. ListsSorted'
    BY <1>7 DEF Sorted, ListsSorted
  <1> QED
    BY <1>10, <1>11, <1>12, <1>13, <1>14, <1>16, <1>17, <1>18, <1>19, <1>20, <1>21
    DEF MutexInv

\* A failed assert leaves everything but panic alone.
LEMMA MisuseStep ==
    ASSUME MutexInv, NEW t \in Task, NEW m \in Lists, lock_own(t, m) \/ unlock_foreign(t, m)
    PROVE  MutexInv'
  <1>1. PICK label \in {"locking an owned mutex", "unlock by another task"} :
            AssertFails(label)
    BY DEF lock_own, unlock_foreign
  <1>2. UNCHANGED <<kern, call, owner, held>>
    BY <1>1 DEF lock_own, unlock_foreign, AssertFails
  <1>3. IInv'
    BY <1>1, PanicStep DEF MutexInv
  <1> QED
    BY <1>2, <1>3 DEF MutexInv, ListsSorted, WaitersOwned, HeldExact, OwnersLive, AboveBase,
       LockArgs, LockResultExact, BoostEndsWithMutexes

LEMMA MutexNextInv == MutexInv /\ [MutexNext]_mutexvars => MutexInv'
  <1> SUFFICES ASSUME MutexInv, [MutexNext]_mutexvars PROVE MutexInv'
    OBVIOUS
  <1>1. CASE SchedNext /\ UNCHANGED <<owner, held>>
    BY <1>1, MutexSchedStep
  <1>2. ASSUME NEW t \in Task, lock_return(t) PROVE MutexInv'
    BY <1>2, LockReturnStep
  <1>3. ASSUME NEW t \in Task, NEW m \in Lists, lock_free(t, m) PROVE MutexInv'
    BY <1>3, LockFreeStep
  <1>4. ASSUME NEW t \in Task, NEW m \in Lists, lock_wait(t, m) PROVE MutexInv'
    BY <1>4, LockWaitStep
  <1>5. ASSUME NEW t \in Task, NEW m \in Lists, unlock(t, m) PROVE MutexInv'
    BY <1>5, UnlockStep
  <1>6. ASSUME NEW t \in Task, NEW m \in Lists, lock_own(t, m) \/ unlock_foreign(t, m)
        PROVE  MutexInv'
    BY <1>6, MisuseStep
  <1>7. CASE UNCHANGED mutexvars
    BY <1>7, MutexSchedStep DEF mutexvars
  <1> QED
    BY <1>1, <1>2, <1>3, <1>4, <1>5, <1>6, <1>7 DEF MutexNext

----------------------------------------------------------------------------
(* The theorems *)

\* The inductive invariant holds in every reachable state: every wait for a mutex
\* is a lock call that somebody else's ownership holds up, ownership and the
\* lists of held mutexes agree, and inherited priorities only raise.
THEOREM MutexInvariant == MutexSpec => []MutexInv
  BY MutexInitInv, MutexNextInv, PTL DEF MutexSpec

\* The types of the mutexes and of the scheduler under them.
THEOREM MutexTypes == MutexSpec => []MutexTypeOK
  <1>1. MutexInv => MutexTypeOK
    BY DEF MutexInv, IInv, MutexTypeOK
  <1> QED
    BY <1>1, MutexInvariant, PTL

\* lock() returns true exactly when its caller owns the mutex, however often
\* waiters are suspended, resumed or deleted while they wait.
THEOREM MutexLockResult == MutexSpec => []LockResultExact
  <1>1. MutexInv => LockResultExact
    BY DEF MutexInv
  <1> QED
    BY <1>1, MutexInvariant, PTL

\* The list of held mutexes that recompute_priority walks is the set the task owns,
\* and a mutex somebody waits for has an owner outside its own wait list.
THEOREM MutexOwners == MutexSpec => []OwnersExact
  <1>1. MutexInv => OwnersExact
    <2> SUFFICES ASSUME MutexInv PROVE OwnersExact
      OBVIOUS
    <2>1. \A t \in Task : held[t] = {m \in Lists : owner[m] = t}
      BY DEF MutexInv, HeldExact
    <2>2. ASSUME NEW m \in Lists, kern.wait_lists[m] # <<>>
          PROVE  owner[m] # NoTask /\ owner[m] \notin Range(kern.wait_lists[m])
      <3>1. /\ Range(kern.wait_lists[m]) = {t \in Task : kern.wait_list[t] = m}
            /\ \E t \in Task : kern.wait_list[t] = m
        BY <2>2, MutexBasics, WaitersExact
      <3>2. \A t \in Task : kern.wait_list[t] = m => owner[m] \in Task \ {t}
        BY MutexBasics DEF MutexInv, WaitersOwned
      <3> QED
        BY <3>1, <3>2, KernelAssumption
    <2> QED
      BY <2>1, <2>2 DEF OwnersExact
  <1> QED
    BY <1>1, MutexInvariant, PTL

\* Priority inversion is bounded: no owner of a mutex is below the priority any
\* of its waiters was created with, for any nesting of mutexes.
THEOREM MutexInversion == MutexSpec => []BoundedInversion
  <1>1. MutexInv => BoundedInversion
    <2> SUFFICES ASSUME MutexInv, NEW m \in Lists, NEW t \in Range(kern.wait_lists[m])
                 PROVE  kern.base_priority[t] <= kern.priority[owner[m]]
      BY DEF BoundedInversion
    <2>1. t \in Task /\ kern.wait_list[t] = m /\ m # NoList
      BY MutexBasics, WaitersExact
    <2> QED
      BY <2>1 DEF MutexInv, WaitersOwned
  <1> QED
    BY <1>1, MutexInvariant, PTL

\* A task that owns no mutex has the priority it was created with.
THEOREM MutexBoostEnds == MutexSpec => []BoostEndsWithMutexes
  <1>1. MutexInv => BoostEndsWithMutexes
    BY DEF MutexInv
  <1> QED
    BY <1>1, MutexInvariant, PTL

\* Moving tasks between ready lists, wait lists and priorities in the middle of
\* lock and unlock costs the scheduler none of its guarantees.
THEOREM MutexScheduler ==
    MutexSpec => [](ListsConsistent /\ ListsSorted /\ NoLostPreemption /\ KernelAssertsHold)
  <1>1. MutexInv => ListsConsistent /\ ListsSorted /\ NoLostPreemption /\ KernelAssertsHold
    BY DEF MutexInv, IInv
  <1> QED
    BY <1>1, MutexInvariant, PTL
=============================================================================
