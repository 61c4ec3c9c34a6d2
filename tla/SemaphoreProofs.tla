--------------------------- MODULE SemaphoreProofs ---------------------------
(***************************************************************************)
(* The invariants of one semaphore, for every set of tasks, priorities,    *)
(* counts, timeouts and choice of calls, with interrupt handlers coming    *)
(* between any two steps.                                                  *)
(***************************************************************************)
EXTENDS Semaphore, SchedulerProofs, FiniteSetTheorems

\* Whoever is in a wait list is inside take, and its wait has not failed.
WaitersTake ==
    \A t \in Task : kern.wait_list[t] # NoList =>
        /\ kern.wait_list[t] = Sem
        /\ call[t].op = "take"
        /\ ~kern.timeout_expired[t]

\* A token is counted or has ended the wait of one task, living or deleted.
TokensKept == tokens = count + Cardinality(Served)

\* The inductive invariant of SemSpec.
SemInv ==
    /\ IInv
    /\ ListsSorted
    /\ count \in 0..CountMax
    /\ TokensKept
    /\ NobodyWaitsForAToken
    /\ WaitersTake
    /\ WaitingListed

\* Served is a finite set of tasks.
LEMMA ServedFinite == IsFiniteSet(Served) /\ Cardinality(Served) \in Nat
  <1>1. Served \in SUBSET Task
    BY DEF Served
  <1> QED
    BY <1>1, KernelAssumption, FS_Subset, FS_CardinalityType

LEMMA SemInitInv == SemInit => SemInv
  <1> SUFFICES ASSUME SemInit PROVE SemInv
    OBVIOUS
  <1>1. IInv /\ ListsSorted
    BY InitInv, InitSorted DEF SemInit
  <1>2. /\ \A t \in Task : call[t].op = "none" /\ kern.wait_list[t] = NoList
        /\ kern.wait_lists[Sem] = <<>>
    BY SemaphoreAssumption DEF SemInit, SchedInit, NoCall, EmptyKernel
  <1>3. Served = {}
    BY <1>2 DEF Served
  <1>4. Cardinality(Served) = 0
    BY <1>3, FS_EmptySet
  <1>5. count \in 0..CountMax /\ tokens = count /\ count \in Int
    BY SemaphoreAssumption DEF SemInit
  <1>6. WaitingListed
    BY <1>2 DEF WaitingListed, WaitingApi
  <1> QED
    BY <1>1, <1>2, <1>4, <1>5, <1>6
    DEF SemInv, TokensKept, NobodyWaitsForAToken, WaitersTake

\* Nobody waits on Sem exactly when its list is empty.
LEMMA NoWaiter ==
    ASSUME IInv
    PROVE  kern.wait_lists[Sem] = <<>> <=> \A t \in Task : kern.wait_list[t] # Sem
  BY Basics, WaitersExact, SemaphoreAssumption

\* The tokens stay conserved when the same tasks are handed one and the counter
\* and the history move together.
LEMMA SameServed ==
    ASSUME TokensKept, NEW d \in Int, count \in Int,
           count' = count + d, tokens' = tokens + d,
           \A t \in Task : t \in Served' <=> t \in Served
    PROVE  TokensKept'
  <1>1. Served' = Served
    BY DEF Served
  <1> QED
    BY <1>1, ServedFinite DEF TokensKept

\* The scheduler ends waits only by making them fail, and hands nobody a token.
LEMMA SemSchedStep ==
    ASSUME SemInv, [SchedNext]_svars, UNCHANGED <<count, tokens>>
    PROVE  SemInv' /\ DecidedKept
  <1>1. IInv' /\ Effect
    BY NextInv, NextEffect DEF SemInv
  <1>2. ListsSorted'
    BY <1>1 DEF SemInv, Effect, KernelStep, Sorted, ListsSorted
  <1>3. /\ WaitsKept(kern, kern') /\ CallsKept
        /\ "take" \in WaitingApi
    BY <1>1 DEF Effect, KernelStep, WaitingApi
  <1>4. WaitersTake'
    BY <1>3 DEF SemInv, WaitersTake, WaitsKept, CallsKept
  <1>5. \A t \in Task : t \in Served' <=> t \in Served
    BY <1>3 DEF Served, WaitsKept, CallsKept
  <1>6. count \in Int /\ count' = count + 0 /\ tokens' = tokens + 0
    BY ServedFinite, SemaphoreAssumption DEF SemInv, TokensKept
  <1>7. TokensKept'
    BY <1>5, <1>6, SameServed DEF SemInv
  <1>8. NobodyWaitsForAToken'
    <2>1. Sem # NoList
      BY KernelAssumption, SemaphoreAssumption
    <2>2. \A t \in Task : kern'.wait_list[t] = Sem => kern.wait_list[t] = Sem
      BY <1>3, <2>1 DEF WaitsKept
    <2>3. kern'.wait_lists[Sem] = <<>> <=> \A t \in Task : kern'.wait_list[t] # Sem
      <3>1. kern' \in KernelType /\ Consistent(kern', {})
        BY <1>1 DEF IInv, TypeOK, ListsConsistent
      <3> QED
        BY <3>1, WaitersExact, SemaphoreAssumption
    <2> QED
      BY <2>2, <2>3, NoWaiter DEF SemInv, NobodyWaitsForAToken
  <1>9. WaitingListed' /\ DecidedKept
    BY <1>1, SchedDecided DEF SemInv
  <1> QED
    BY <1>1, <1>2, <1>4, <1>7, <1>8, <1>9 DEF SemInv

\* A token is taken without waiting.
LEMMA TakeTokenStep ==
    ASSUME SemInv, TakeToken
    PROVE  SemInv' /\ DecidedKept
  <1>1. /\ UNCHANGED <<kern, call>> /\ count \in Nat /\ count > 0
        /\ count' = count - 1 /\ tokens' = tokens - 1
    BY SemaphoreAssumption DEF SemInv, TakeToken, svars
  <1>2. IInv' /\ ListsSorted'
    BY <1>1, SameScheduler DEF SemInv, TakeToken, ListsSorted
  <1>3. TokensKept'
    <2>1. \A t \in Task : t \in Served' <=> t \in Served
      BY <1>1 DEF Served
    <2>2. tokens \in Int
      BY <1>1, ServedFinite DEF SemInv, TokensKept
    <2>3. count' = count + (-1) /\ tokens' = tokens + (-1)
      BY <1>1, <2>2
    <2> QED
      BY <1>1, <2>1, <2>3, SameServed DEF SemInv
  <1>4. NobodyWaitsForAToken' /\ WaitersTake'
    BY <1>1 DEF SemInv, NobodyWaitsForAToken, WaitersTake
  <1>5. count' \in 0..CountMax
    BY <1>1, SemaphoreAssumption DEF SemInv
  <1>6. WaitingListed' /\ DecidedKept
    BY <1>1, SameDecided DEF SemInv
  <1> QED
    BY <1>2, <1>3, <1>4, <1>5, <1>6 DEF SemInv

\* take waits only when there is no token.
LEMMA TakeWaitStep ==
    ASSUME SemInv, NEW t \in Task, NEW ms \in Timeouts, Calls(t, "take"), count = 0,
           wait_on(t, "take", Sem, ms), UNCHANGED <<count, tokens>>
    PROVE  SemInv' /\ DecidedKept
  <1>1. t \in Task \ {Idle} /\ Thread(t) /\ call[t] = NoCall /\ call[t].op = "none"
    BY DEF Calls, NoCall
  <1>2. Sem \in Lists /\ "take" \in WaitingApi /\ Sem # NoList
    BY SemaphoreAssumption, KernelAssumption DEF WaitingApi
  <1>3. /\ IInv'
        /\ \A u \in Task \ {t} : call'[u] = call[u]
        /\ call'[t].op = "take"
        /\ Parked(kern, kern', t, Sem)
    BY <1>1, <1>2, WaitOn DEF SemInv
  <1>4. ListsSorted'
    BY <1>3 DEF SemInv, Sorted, ListsSorted, Parked
  <1>5. /\ \A u \in Task : kern'.wait_list[u] = IF u = t THEN Sem ELSE kern.wait_list[u]
        /\ \A u \in Task \ {t} : kern'.timeout_expired[u] = kern.timeout_expired[u]
        /\ ~kern'.timeout_expired[t]
    BY <1>3, ParkedWaits, Basics DEF SemInv
  <1>6. \A u \in Task : u \in Served' <=> u \in Served
    BY <1>1, <1>2, <1>3, <1>5 DEF Served
  <1>7. count \in Int /\ count' = count + 0 /\ tokens' = tokens + 0
    BY ServedFinite, SemaphoreAssumption DEF SemInv, TokensKept
  <1>8. TokensKept'
    BY <1>6, <1>7, SameServed DEF SemInv
  <1>9. WaitersTake'
    BY <1>3, <1>5 DEF SemInv, WaitersTake
  <1>10. NobodyWaitsForAToken' /\ count' \in 0..CountMax
    BY DEF SemInv, NobodyWaitsForAToken
  <1>11. WaitingListed' /\ DecidedKept
    <2>1. call[t].op \notin WaitingApi
      BY <1>1 DEF WaitingApi
    <2> QED
      BY <1>2, <1>3, <2>1, Basics, ParkedDecided DEF SemInv
  <1> QED
    BY <1>3, <1>4, <1>8, <1>9, <1>10, <1>11 DEF SemInv

\* take returns: a task that was handed its token takes it.
LEMMA TakeReturnStep ==
    ASSUME SemInv, NEW t \in Task, take_return(t)
    PROVE  SemInv' /\ DecidedKept
  <1>1. /\ Thread(t) /\ call[t].op = "take" /\ call[t].at = "ret" /\ Return(t)
        /\ UNCHANGED <<kern, current_task, started, pendsv, tick_count, panic, count>>
        /\ tokens' = IF kern.timeout_expired[t] THEN tokens ELSE tokens - 1
    BY DEF take_return, Inside
  <1>2. t \in Task \ {Idle}
    BY <1>1 DEF SemInv, IInv, IdleReady, NoCall
  <1>3. IInv'
    BY <1>1, <1>2, ReturnStep DEF SemInv
  <1>4. kern.state[t] = "Running"
    BY <1>1, RunningThread DEF SemInv
  <1>5. kern.wait_list[t] = NoList
    BY <1>4, Basics, WaitersExact, Fields DEF SemInv, Consistent, WaitListed, WaitComplete
  <1>6. \A u \in Task : call'[u] = IF u = t THEN NoCall ELSE call[u]
    BY <1>1, Basics DEF SemInv, Return
  <1>7. NoCall.op = "none"
    BY DEF NoCall
  <1>8. TokensKept'
    <2>1. Served' = Served \ {t}
      BY <1>1, <1>6, <1>7 DEF Served
    <2>2. t \in Served <=> ~kern.timeout_expired[t]
      BY <1>1, <1>5 DEF Served
    <2>3. Cardinality(Served') = IF t \in Served THEN Cardinality(Served) - 1
                                                 ELSE Cardinality(Served)
      BY <2>1, ServedFinite, FS_RemoveElement
    <2>4. count \in Int /\ Cardinality(Served) \in Int
      BY ServedFinite, SemaphoreAssumption DEF SemInv
    <2>5. CASE kern.timeout_expired[t]
      BY <1>1, <2>2, <2>3, <2>4, <2>5 DEF SemInv, TokensKept
    <2>6. CASE ~kern.timeout_expired[t]
      BY <1>1, <2>2, <2>3, <2>4, <2>6 DEF SemInv, TokensKept
    <2> QED
      BY <2>5, <2>6
  <1>9. WaitersTake'
    BY <1>1, <1>5, <1>6 DEF SemInv, WaitersTake
  <1>10. NobodyWaitsForAToken' /\ ListsSorted' /\ count' \in 0..CountMax
    BY <1>1 DEF SemInv, NobodyWaitsForAToken, ListsSorted
  <1>11. WaitingListed' /\ DecidedKept
    <2>1. \A u \in Task : call'[u].op \in WaitingApi => call'[u].op = call[u].op
      BY <1>6, <1>7 DEF WaitingApi
    <2> QED
      BY <1>1, <2>1, SameDecided DEF SemInv
  <1> QED
    BY <1>3, <1>8, <1>9, <1>10, <1>11 DEF SemInv

\* A waiter that is woken is handed the token; nobody else's wait is touched.
\* W is the task whose own call may change in the step, which is no take.
LEMMA HandOver ==
    ASSUME SemInv, NEW u \in Task, kern.wait_list[u] = Sem, WokenFirst(kern, kern', u),
           tokens' = tokens + 1, count' = count, IInv',
           NEW W, u \notin W, \A v \in Task \ W : call'[v] = call[v],
           \A v \in Task \cap W : call[v].op \notin WaitingApi /\ call'[v].op \notin WaitingApi
    PROVE  SemInv' /\ DecidedKept
  <1>1. Sem # NoList
    BY SemaphoreAssumption, KernelAssumption
  <1>2. \A v \in Task : /\ kern'.wait_list[v] = IF v = u THEN NoList ELSE kern.wait_list[v]
                        /\ kern'.timeout_expired[v] = kern.timeout_expired[v]
    BY Basics DEF SemInv, WokenFirst, KernelType
  <1>3. u \notin Served /\ call[u].op = "take" /\ ~kern.timeout_expired[u]
    BY <1>1 DEF SemInv, WaitersTake, Served
  <1>4. Served' = Served \cup {u}
    <2>1. \A v \in Task : v \in Served' <=> v \in Served \/ v = u
      BY <1>1, <1>2, <1>3 DEF Served, WaitingApi
    <2>2. Served' \subseteq Task /\ Served \subseteq Task
      BY DEF Served, WaitingApi
    <2> QED
      BY <2>1, <2>2
  <1>5. TokensKept'
    <2>1. Cardinality(Served') = Cardinality(Served) + 1
      BY <1>3, <1>4, ServedFinite, FS_AddElement
    <2>2. count \in Int /\ Cardinality(Served) \in Int
      BY ServedFinite, SemaphoreAssumption DEF SemInv
    <2> QED
      BY <2>1, <2>2 DEF SemInv, TokensKept
  <1>6. WaitersTake'
    BY <1>2 DEF SemInv, WaitersTake, WaitingApi
  <1>7. NobodyWaitsForAToken'
    <2>1. count = 0
      BY NoWaiter, SemaphoreAssumption DEF SemInv, NobodyWaitsForAToken
    <2> QED
      BY <2>1 DEF NobodyWaitsForAToken
  <1>8. ListsSorted' /\ count' \in 0..CountMax
    BY DEF SemInv, WokenFirst, Sorted, ListsSorted
  <1>9. WaitingListed' /\ DecidedKept
    BY Basics, WokenDecided DEF SemInv
  <1> QED
    BY <1>5, <1>6, <1>7, <1>8, <1>9 DEF SemInv

\* The token is counted when nobody waits.
LEMMA CountToken ==
    ASSUME SemInv, peek_waiter(kern, Sem) = NoTask, kern' = kern,
           count' = one_more(count), tokens' = tokens + (count' - count), IInv',
           NEW W, \A v \in Task \ W : call'[v] = call[v],
           \A v \in Task \cap W : call[v].op \notin WaitingApi /\ call'[v].op \notin WaitingApi
    PROVE  SemInv' /\ DecidedKept
  <1>1. kern.wait_lists[Sem] = <<>>
    BY Basics, PeekWaiter, SemaphoreAssumption DEF SemInv
  <1>2. \A t \in Task : kern.wait_list[t] = NoList
    BY <1>1, NoWaiter DEF SemInv, WaitersTake
  <1>3. count \in 0..CountMax /\ CountMax \in Nat
    BY SemaphoreAssumption DEF SemInv
  <1>4. count' \in 0..CountMax /\ count' - count \in Int /\ count' = count + (count' - count)
    BY <1>3 DEF one_more
  <1>5. \A t \in Task : t \in Served' <=> t \in Served
    BY DEF Served, WaitingApi
  <1>6. TokensKept'
    BY <1>3, <1>4, <1>5, SameServed DEF SemInv
  <1>7. NobodyWaitsForAToken' /\ WaitersTake' /\ ListsSorted'
    BY <1>1, <1>2 DEF SemInv, NobodyWaitsForAToken, WaitersTake, ListsSorted
  <1>8. WaitingListed' /\ DecidedKept
    BY SameDecided DEF SemInv
  <1> QED
    BY <1>4, <1>6, <1>7, <1>8 DEF SemInv

\* The critical section of give finds a waiter, or the list is empty.
LEMMA GiveCases ==
    ASSUME SemInv, GiveToken
    PROVE  LET u == peek_waiter(kern, Sem)
           IN  \/ /\ u \in Task /\ kern.state[u] = "Blocked" /\ kern.wait_list[u] = Sem
                  /\ WokenFirst(kern, kern', u)
                  /\ tokens' = tokens + 1 /\ count' = count
                  /\ GivePreempts <=> preempts(u)
               \/ /\ u = NoTask
                  /\ kern' = kern
                  /\ count' = one_more(count) /\ tokens' = tokens + (count' - count)
                  /\ ~GivePreempts
  <1> DEFINE u == peek_waiter(kern, Sem)
  <1>1. CASE u # NoTask
    <2>1. /\ u \in Task /\ kern.state[u] = "Blocked" /\ kern.wait_list[u] = Sem
          /\ WokenFirst(kern, make_task_ready(wake_highest(kern, Sem), u), u)
      BY <1>1, Basics, WakeFirst, SemaphoreAssumption DEF SemInv
    <2>2. /\ kern' = make_task_ready(wake_highest(kern, Sem), u)
          /\ tokens' = tokens + 1 /\ count' = count
      BY <1>1 DEF GiveToken
    <2> QED
      BY <1>1, <2>1, <2>2 DEF GivePreempts
  <1>2. CASE u = NoTask
    BY <1>2 DEF GiveToken, GivePreempts
  <1> QED
    BY <1>1, <1>2

LEMMA GiveStep ==
    ASSUME SemInv, NEW t \in Task, give(t)
    PROVE  SemInv' /\ DecidedKept
  <1> DEFINE u == peek_waiter(kern, Sem)
  <1>1. /\ t \in Task \ {Idle} /\ Thread(t) /\ call[t] = NoCall /\ call[t].op \notin WaitingApi
        /\ GiveToken /\ Leave(t, "give", NoTask, GivePreempts)
        /\ UNCHANGED <<current_task, started, pendsv, tick_count, panic>>
    BY DEF give, Calls, NoCall, WaitingApi
  <1>2. "give" \in WakingApi /\ "take" \in WaitingApi
    BY DEF WakingApi, WaitingApi
  <1>3. /\ kern.state[t] = "Running"
        /\ \A v \in Task : kern.state[v] = "Ready" => kern.priority[v] <= kern.priority[t]
    BY <1>1, Basics, RunningThread DEF SemInv
  <1>4. CASE /\ u \in Task /\ kern.state[u] = "Blocked" /\ kern.wait_list[u] = Sem
             /\ WokenFirst(kern, kern', u)
             /\ tokens' = tokens + 1 /\ count' = count
             /\ GivePreempts <=> preempts(u)
    <2>1. Leave(t, "give", NoTask, preempts(u))
      BY <1>1, <1>4 DEF Leave
    <2> HIDE DEF u
    <2>2. /\ IInv'
          /\ \A v \in Task \ {t} : call'[v] = call[v]
          /\ call'[t].op \notin WaitingApi
      BY <1>1, <1>2, <1>4, <2>1, WakeStep DEF SemInv
    <2>3. u \notin {t}
      BY <1>3, <1>4
    <2>4. \A v \in Task \cap {t} : call[v].op \notin WaitingApi /\ call'[v].op \notin WaitingApi
      BY <1>1, <1>2, <2>2
    <2> QED
      BY <1>4, <2>2, <2>3, <2>4, HandOver
  <1>5. CASE /\ u = NoTask
             /\ kern' = kern
             /\ count' = one_more(count) /\ tokens' = tokens + (count' - count)
             /\ ~GivePreempts
    <2>1. Leave(t, "give", NoTask, FALSE)
      BY <1>1, <1>5 DEF Leave
    <2>2. Woken(kern, kern') /\ kern' \in KernelType /\ Consistent(kern', {})
      BY <1>5, Basics DEF Woken, SemInv
    <2>3. \A v \in Task : kern'.state[v] = "Ready" => kern'.priority[v] <= kern'.priority[t]
      BY <1>3, <1>5
    <2> HIDE DEF u
    <2>4. /\ IInv'
          /\ \A v \in Task \ {t} : call'[v] = call[v]
          /\ call'[t].op \notin WaitingApi
      BY <1>1, <1>2, <2>1, <2>2, <2>3, LeaveStep DEF SemInv
    <2>5. \A v \in Task \cap {t} : call[v].op \notin WaitingApi /\ call'[v].op \notin WaitingApi
      BY <1>1, <1>2, <2>4
    <2> QED
      BY <1>5, <2>4, <2>5, CountToken DEF u
  <1> QED
    BY <1>1, <1>4, <1>5, GiveCases

LEMMA GiveFromIsrStep ==
    ASSUME SemInv, give_from_isr
    PROVE  SemInv' /\ DecidedKept
  <1> DEFINE u == peek_waiter(kern, Sem)
  <1>1. /\ GiveToken /\ pendsv' = (pendsv \/ GivePreempts)
        /\ UNCHANGED <<current_task, started, tick_count, call, panic>>
    BY DEF give_from_isr
  <1>2. CASE /\ u \in Task /\ kern.state[u] = "Blocked" /\ kern.wait_list[u] = Sem
             /\ WokenFirst(kern, kern', u)
             /\ tokens' = tokens + 1 /\ count' = count
             /\ GivePreempts <=> preempts(u)
    <2>1. pendsv' = (pendsv \/ preempts(u))
      BY <1>1, <1>2
    <2> HIDE DEF u
    <2>2. IInv'
      BY <1>1, <1>2, <2>1, IsrWakeStep DEF SemInv
    <2>3. u \notin {} /\ \A v \in Task \ {} : call'[v] = call[v]
      BY <1>1
    <2>4. \A v \in Task \cap {} : call[v].op \notin WaitingApi /\ call'[v].op \notin WaitingApi
      OBVIOUS
    <2> QED
      BY <1>2, <2>2, <2>3, <2>4, HandOver
  <1>3. CASE /\ u = NoTask
             /\ kern' = kern
             /\ count' = one_more(count) /\ tokens' = tokens + (count' - count)
             /\ ~GivePreempts
    <2>1. pendsv' = pendsv
      BY <1>1, <1>3 DEF SemInv, IInv, TypeOK
    <2>2. IInv'
      BY <1>1, <1>3, <2>1, SameScheduler DEF SemInv, svars
    <2>3. \A v \in Task \ {} : call'[v] = call[v]
      BY <1>1
    <2>4. \A v \in Task \cap {} : call[v].op \notin WaitingApi /\ call'[v].op \notin WaitingApi
      OBVIOUS
    <2> QED
      BY <1>3, <2>2, <2>3, <2>4, CountToken
  <1> QED
    BY <1>1, <1>2, <1>3, GiveCases

\* Every step of a system with a semaphore keeps the invariant.
LEMMA SemNextInv == SemInv /\ [SemNext]_semvars => SemInv' /\ DecidedKept
  <1> SUFFICES ASSUME SemInv, [SemNext]_semvars PROVE SemInv' /\ DecidedKept
    OBVIOUS
  <1>1. CASE SchedNext /\ UNCHANGED <<count, tokens>>
    BY <1>1, SemSchedStep
  <1>2. CASE try_take_from_isr
    BY <1>2, TakeTokenStep DEF try_take_from_isr
  <1>3. CASE give_from_isr
    BY <1>3, GiveFromIsrStep
  <1>4. ASSUME NEW t \in Task, NEW ms \in Timeouts, take(t, ms) PROVE SemInv' /\ DecidedKept
    BY <1>4, TakeTokenStep, TakeWaitStep DEF take
  <1>5. ASSUME NEW t \in Task, take_return(t) PROVE SemInv' /\ DecidedKept
    BY <1>5, TakeReturnStep
  <1>6. ASSUME NEW t \in Task, try_take(t) PROVE SemInv' /\ DecidedKept
    BY <1>6, TakeTokenStep DEF try_take
  <1>7. ASSUME NEW t \in Task, give(t) PROVE SemInv' /\ DecidedKept
    BY <1>7, GiveStep
  <1>8. CASE UNCHANGED semvars
    BY <1>8, SemSchedStep DEF semvars
  <1> QED
    BY <1>1, <1>2, <1>3, <1>4, <1>5, <1>6, <1>7, <1>8 DEF SemNext

----------------------------------------------------------------------------
\* The invariant holds in every state of a system whose tasks and interrupt
\* handlers use a semaphore.
THEOREM SemaphoreInvariant == SemSpec => []SemInv
  BY SemInitInv, SemNextInv, PTL DEF SemSpec

\* Type correctness: the count stays between 0 and UINT32_MAX, and the history
\* never goes below 0.
THEOREM SemaphoreTypes == SemSpec => []SemTypeOK
  <1>1. SemInv => SemTypeOK
    <2> SUFFICES ASSUME SemInv PROVE SemTypeOK
      OBVIOUS
    <2>1. tokens \in Nat
      BY ServedFinite, SemaphoreAssumption DEF SemInv, TokensKept
    <2> QED
      BY <2>1 DEF SemInv, IInv, SemTypeOK
  <1> QED
    BY <1>1, SemaphoreInvariant, PTL

\* The tasks a token has reached either live or are deleted.
LEMMA ServedSplit == Cardinality(Served) = Cardinality(Handed) + Cardinality(LostWithTask)
  <1>1. Handed \cup LostWithTask = Served /\ Handed \cap LostWithTask = {}
    BY DEF Handed, LostWithTask
  <1>2. Handed \in SUBSET Served /\ LostWithTask \in SUBSET Served
    BY DEF Handed, LostWithTask
  <1>3. IsFiniteSet(Handed) /\ IsFiniteSet(LostWithTask)
    BY <1>2, ServedFinite, FS_Subset
  <1>4. Cardinality(Handed) \in Nat /\ Cardinality(LostWithTask) \in Nat
    BY <1>3, FS_CardinalityType
  <1>5. Cardinality(Handed \cup LostWithTask) =
            Cardinality(Handed) + Cardinality(LostWithTask)
                - Cardinality(Handed \cap LostWithTask)
    BY <1>3, FS_Union
  <1>6. Cardinality(Handed \cap LostWithTask) = 0
    BY <1>1, FS_EmptySet
  <1>7. Cardinality(Handed \cup LostWithTask) = Cardinality(Served)
    BY <1>1
  <1> HIDE DEF Handed, LostWithTask, Served
  <1> QED
    BY <1>4, <1>5, <1>6, <1>7

\* No token is made, and none is lost but with a task that is deleted after the
\* token was handed to it, for any number of tasks and any interleaving of give,
\* take, timeouts, suspensions, deletions and interrupts (Semaphore::take, give,
\* DelayList::tick, suspend_task, delete_task).
THEOREM SemaphoreTokens == SemSpec => []TokensConserved
  <1>1. SemInv => TokensConserved
    <2> SUFFICES ASSUME SemInv PROVE TokensConserved
      OBVIOUS
    <2>1. /\ Cardinality(Handed) \in Nat /\ Cardinality(LostWithTask) \in Nat
          /\ count \in Nat
      <3>1. Handed \in SUBSET Served /\ LostWithTask \in SUBSET Served
        BY DEF Handed, LostWithTask
      <3> QED
        BY <3>1, ServedFinite, FS_Subset, FS_CardinalityType, SemaphoreAssumption DEF SemInv
    <2> QED
      BY <2>1, ServedSplit DEF SemInv, TokensKept, TokensConserved
  <1> QED
    BY <1>1, SemaphoreInvariant, PTL

\* Nobody waits while a token is there (the count is looked at and the caller
\* parked in one critical section; give wakes before it counts).
THEOREM SemaphoreNoLostWakeup == SemSpec => []NobodyWaitsForAToken
  <1>1. SemInv => NobodyWaitsForAToken
    BY DEF SemInv
  <1> QED
    BY <1>1, SemaphoreInvariant, PTL

\* The result of a take is decided once: a call that still waits has not failed,
\* and from the hand-over, timeout or suspension that ends the wait until take
\* returns no step changes the result or leaves a timeout behind.
THEOREM SemaphoreDecidedOnce == SemSpec => WaitDecidedOnce
  <1> DEFINE A == \A t \in Task :
                      call[t].op \in WaitingApi /\ call'[t].op = call[t].op => ResultKept(t)
  <1>1. SemInv /\ [SemNext]_semvars => [A]_svars
    <2> SUFFICES ASSUME SemInv, [SemNext]_semvars PROVE A
      OBVIOUS
    <2>1. SemInv' /\ DecidedKept
      BY SemNextInv
    <2>2. IInv' /\ WaitingListed'
      BY <2>1 DEF SemInv
    <2>3. \A t \in Task : kern.wait_list[t] # NoList => ~kern.timeout_expired[t]
      BY DEF SemInv, WaitersTake
    <2> QED
      BY <2>1, <2>2, <2>3, DecidedOnce
  <1>2. WaitDecidedOnce <=> [][A]_svars
    BY DEF WaitDecidedOnce
  <1> HIDE DEF A
  <1> QED
    BY <1>1, <1>2, SemaphoreInvariant, PTL DEF SemSpec

\* The scheduler's own guarantees survive the calls of the semaphore: consistent
\* and sorted lists, no lost preemption, no failed assert on kernel data.
THEOREM SemaphoreScheduler ==
    SemSpec => [](ListsConsistent /\ ListsSorted /\ NoLostPreemption /\ KernelAssertsHold)
  <1>1. SemInv => ListsConsistent /\ ListsSorted /\ NoLostPreemption /\ KernelAssertsHold
    BY DEF SemInv, IInv
  <1> QED
    BY <1>1, SemaphoreInvariant, PTL
=============================================================================
