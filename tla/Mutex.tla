------------------------------- MODULE Mutex -------------------------------
(***************************************************************************)
(* Mutexes with priority inheritance (src/src/ipc.cpp) on top of           *)
(* Scheduler.  A mutex is named by its wait list.                          *)
(***************************************************************************)
EXTENDS Scheduler

VARIABLES
    owner,   \* Mutex::owner_
    held     \* per task, the mutexes of the list TaskControlBlock::held_mutexes

mutexvars == <<svars, owner, held>>

MutexTypeOK ==
    /\ TypeOK
    /\ owner \in [Lists -> Task \cup {NoTask}]
    /\ held \in [Task -> SUBSET Lists]

MutexInit ==
    /\ SchedInit
    /\ owner = [m \in Lists |-> NoTask]
    /\ held = [t \in Task |-> {}]

----------------------------------------------------------------------------
\* Mutants of recompute_priority: the waiters of the other mutexes are forgotten,
\* or the inherited priority is never given back.
recompute_base(k, t, M) == k.base_priority[t]

recompute_keep(k, t, M) == k.priority[t]

\* Mutex::recompute_priority of a task that holds the mutexes M: the highest of
\* its own priority and the first waiters'.
recompute_priority(k, t, M) ==
    Max({k.base_priority[t]} \cup
        {k.priority[peek_waiter(k, m)] :
            m \in {n \in M : peek_waiter(k, n) # NoTask}})

\* Mutant of add_held: the mutex is not linked.
add_held_none(h, t, m) == h

\* Mutex::add_held and remove_held: the list of the mutexes t holds.
add_held(h, t, m) == IF t = NoTask THEN h ELSE [h EXCEPT ![t] = @ \cup {m}]

remove_held(h, t, m) == [h EXCEPT ![t] = @ \ {m}]

\* Mutex::lock of a free mutex.
lock_free(t, m) ==
    /\ Calls(t, "lock")
    /\ owner[m] = NoTask
    /\ owner' = [owner EXCEPT ![m] = t]
    /\ held' = add_held(held, t, m)
    /\ UNCHANGED svars

\* Mutex::lock of a mutex that is held: the owner inherits a higher priority,
\* then the caller parks.
lock_wait(t, m) ==
    LET o == owner[m] IN
    /\ Calls(t, "lock")
    /\ o \notin {NoTask, t}
    /\ IF kern.wait_list[t] # NoList
       THEN AssertFails("already parked")
       ELSE /\ kern' = park(IF kern.priority[t] > kern.priority[o]
                            THEN set_task_priority(kern, o, kern.priority[t])
                            ELSE kern, t, m)
            /\ GoTo(t, "lock", "yield", m)
            /\ UNCHANGED <<current_task, started, pendsv, tick_count, panic>>
    /\ UNCHANGED <<owner, held>>

\* The end of lock: its result is ~timeout_expired.
lock_return(t) ==
    /\ Inside(t, "lock", "ret")
    /\ Return(t)
    /\ UNCHANGED <<kern, current_task, started, pendsv, tick_count, panic,
                   owner, held>>

\* Mutant of unlock_yields: a priority given back is forgotten.
unlock_yields_woken(u, t, np) == u # NoTask /\ preempts(u)

\* should_preempt of unlock: the woken task u outranks the caller, or the caller
\* has given back an inherited priority.
unlock_yields(u, t, np) == (u # NoTask /\ preempts(u)) \/ np # kern.priority[t]

\* Mutex::unlock by the owner: the first waiter owns the mutex now, and the
\* caller keeps only the priority it still inherits.
unlock(t, m) ==
    LET u    == peek_waiter(kern, m)
        k    == make_task_ready(wake_highest(kern, m), u)
        h    == remove_held(held, t, m)
        np   == recompute_priority(k, t, h[t])
    IN  /\ Calls(t, "unlock")
        /\ owner[m] = t
        /\ owner' = [owner EXCEPT ![m] = u]
        /\ held' = add_held(h, u, m)
        /\ kern' = set_task_priority(k, t, np)
        /\ Leave(t, "unlock", NoTask, unlock_yields(u, t, np))
        /\ UNCHANGED <<current_task, started, pendsv, tick_count, panic>>

\* lock by the owner stops at an assert, and so does unlock by another task.
lock_own(t, m) ==
    /\ Calls(t, "lock") /\ owner[m] = t
    /\ AssertFails("locking an owned mutex")
    /\ UNCHANGED <<owner, held>>

unlock_foreign(t, m) ==
    /\ Calls(t, "unlock") /\ owner[m] # t
    /\ AssertFails("unlock by another task")
    /\ UNCHANGED <<owner, held>>

MutexNext ==
    \/ SchedNext /\ UNCHANGED <<owner, held>>
    \/ \E t \in Task :
        \/ lock_return(t)
        \/ \E m \in Lists : \/ lock_free(t, m)
                            \/ lock_wait(t, m)
                            \/ unlock(t, m)
                            \/ lock_own(t, m)
                            \/ unlock_foreign(t, m)

MutexSpec == MutexInit /\ [][MutexNext]_mutexvars

----------------------------------------------------------------------------
(* Properties *)

\* A lock call that is over, by handover or because it was suspended or deleted,
\* reports true exactly when the caller owns the mutex (ipc.hpp on lock).
LockResultExact ==
    \A t \in Task :
        call[t].op = "lock" /\ kern.wait_list[t] = NoList =>
            (~kern.timeout_expired[t] <=> owner[call[t].arg] = t)

\* The list recompute_priority walks has the mutexes the task owns, and
\* somebody owns every mutex that is waited for, but does not wait for it.
OwnersExact ==
    /\ \A t \in Task : held[t] = {m \in Lists : owner[m] = t}
    /\ \A m \in Lists :
        kern.wait_lists[m] # <<>> =>
            owner[m] # NoTask /\ owner[m] \notin Range(kern.wait_lists[m])

\* Priority inversion is bounded: the owner of a mutex never runs below the
\* priority any of its waiters was created with, through nested mutexes,
\* handovers, suspensions and deletions.
BoundedInversion ==
    \A m \in Lists : \A t \in Range(kern.wait_lists[m]) :
        kern.base_priority[t] <= kern.priority[owner[m]]

\* A boost never outlives the mutexes it was lent for: a task that owns none has
\* its own priority, whatever was suspended or deleted in between.
BoostEndsWithMutexes ==
    \A t \in Task : held[t] = {} => kern.priority[t] = kern.base_priority[t]

\* Inherited priority ends with the wait that lent it: ipc.hpp says a task runs
\* at the highest priority among its own and the waiters of its mutexes.
NotOverBoosted ==
    \A t \in Task :
        kern.priority[t] > kern.base_priority[t] =>
            \E m \in {n \in Lists : owner[n] = t} :
                \E u \in Range(kern.wait_lists[m]) :
                    kern.priority[u] >= kern.priority[t]

\* The processor goes on with what is begun; a task that owns a mutex and gets
\* the processor again and again unlocks it.
MutexFairness ==
    /\ WF_mutexvars(tick /\ UNCHANGED <<owner, held>>)
    /\ WF_mutexvars(schedule_next_task /\ UNCHANGED <<owner, held>>)
    /\ WF_mutexvars(BootYield /\ UNCHANGED <<owner, held>>)
    /\ \A t \in Task :
        /\ SF_mutexvars(Proceed(t) /\ UNCHANGED <<owner, held>>)
        /\ SF_mutexvars(lock_return(t))
        /\ SF_mutexvars(\E m \in Lists : unlock(t, m))

FairMutexSpec == MutexSpec /\ MutexFairness

\* What priority inheritance is for (docs/synchronization.md): the task of
\* highest priority gets the mutex it waits for even if tasks between it and
\* the owner never leave the processor.
HighestGetsMutex ==
    \A t \in Task :
        /\ kern.wait_list[t] # NoList
        /\ \A u \in Task \ {t} : kern.base_priority[u] < kern.base_priority[t]
        ~> kern.wait_list[t] = NoList \/ panic # "none"
=============================================================================
