----------------------------- MODULE Semaphore -----------------------------
(***************************************************************************)
(* One Semaphore (src/src/ipc.cpp) used by tasks and interrupt handlers,   *)
(* on top of Scheduler.  An interrupt handler comes between any two steps  *)
(* of the threads, also while a context switch is pending.                 *)
(***************************************************************************)
EXTENDS Scheduler

CONSTANTS
    Sem,        \* its wait list
    InitCount,  \* the constructor's argument
    CountMax    \* UINT32_MAX

ASSUME SemaphoreAssumption ==
    /\ Sem \in Lists
    /\ CountMax \in Nat \ {0}
    /\ InitCount \in 0..CountMax

VARIABLES
    count,   \* Semaphore::count_
    tokens   \* history: InitCount plus tokens given, minus tokens taken

semvars == <<svars, count, tokens>>

SemTypeOK ==
    /\ TypeOK
    /\ count \in 0..CountMax
    /\ tokens \in Nat

SemInit == SchedInit /\ count = InitCount /\ tokens = InitCount

----------------------------------------------------------------------------
\* The path of take, try_take and try_take_from_isr that finds a token.
TakeToken ==
    /\ count > 0
    /\ count' = count - 1
    /\ tokens' = tokens - 1
    /\ UNCHANGED svars

\* Semaphore::take with a timeout, or without a limit.
take(t, ms) ==
    /\ Calls(t, "take")
    /\ \/ TakeToken
       \/ /\ count = 0
          /\ wait_on(t, "take", Sem, ms)
          /\ UNCHANGED <<count, tokens>>

\* The end of take: the token was handed over unless the wait failed.
take_return(t) ==
    /\ Inside(t, "take", "ret")
    /\ tokens' = IF kern.timeout_expired[t] THEN tokens ELSE tokens - 1
    /\ Return(t)
    /\ UNCHANGED <<kern, current_task, started, pendsv, tick_count, panic, count>>

\* Semaphore::try_take, which is also take(0).  Without a token it does nothing.
try_take(t) == Calls(t, "try_take") /\ TakeToken

try_take_from_isr ==
    /\ panic = "none" /\ "try_take_from_isr" \in Api
    /\ TakeToken

\* Mutant of one_more: the count is not limited.
one_more_unlimited(n) == n + 1

\* A token more, up to the largest count.
one_more(n) == IF n < CountMax THEN n + 1 ELSE n

\* Mutant of GiveToken: the token is counted though somebody waits.
GiveToken_counted ==
    /\ count' = one_more(count)
    /\ tokens' = tokens + (count' - count)
    /\ UNCHANGED kern

\* The critical section of give: a waiter gets the token, else it is counted,
\* up to the largest count.
GiveToken ==
    LET u == peek_waiter(kern, Sem) IN
    IF u # NoTask
    THEN /\ kern' = make_task_ready(wake_highest(kern, Sem), u)
         /\ tokens' = tokens + 1
         /\ UNCHANGED count
    ELSE /\ count' = one_more(count)
         /\ tokens' = tokens + (count' - count)
         /\ UNCHANGED kern

\* Whether the critical section of give wakes a task that should run now.
GivePreempts == LET u == peek_waiter(kern, Sem) IN u # NoTask /\ preempts(u)

give(t) ==
    /\ Calls(t, "give")
    /\ GiveToken
    /\ Leave(t, "give", NoTask, GivePreempts)
    /\ UNCHANGED <<current_task, started, pendsv, tick_count, panic>>

\* give_from_isr leaves task_yield() to the handler, which calls it.
give_from_isr ==
    /\ panic = "none" /\ "give_from_isr" \in Api
    /\ GiveToken
    /\ pendsv' = (pendsv \/ GivePreempts)
    /\ UNCHANGED <<current_task, started, tick_count, call, panic>>

SemNext ==
    \/ SchedNext /\ UNCHANGED <<count, tokens>>
    \/ try_take_from_isr
    \/ give_from_isr
    \/ \E t \in Task :
        \/ \E ms \in Timeouts : take(t, ms)
        \/ take_return(t)
        \/ try_take(t)
        \/ give(t)

SemSpec == SemInit /\ [][SemNext]_semvars

----------------------------------------------------------------------------
(* Properties *)

\* Tasks whose wait was ended by a token and that have not returned from take.
Served == {t \in Task : /\ call[t].op = "take"
                        /\ kern.wait_list[t] = NoList
                        /\ ~kern.timeout_expired[t]}

\* The tokens of tasks that will report success, and those of tasks that were
\* deleted before they could: nobody gets these back.
Handed == {t \in Served : kern.state[t] # "Deleted"}
LostWithTask == {t \in Served : kern.state[t] = "Deleted"}

\* Tokens are neither made nor lost, but for one way: whatever timeouts and
\* suspensions meet give, a token is counted, or on its way to exactly one task
\* that lives and will report success, or it was handed to a task that was
\* deleted before its take returned (delete_task gives nothing back).
TokensConserved ==
    tokens = count + Cardinality(Handed) + Cardinality(LostWithTask)

\* No wake-up is lost: nobody waits while a token is there.
NobodyWaitsForAToken == count > 0 => kern.wait_lists[Sem] = <<>>

\* The processor goes on with what interrupts and calls have begun; a task that
\* gets the processor again and again gets on with its call.
SemFairness ==
    /\ WF_semvars(tick /\ UNCHANGED <<count, tokens>>)
    /\ WF_semvars(schedule_next_task /\ UNCHANGED <<count, tokens>>)
    /\ WF_semvars(BootYield /\ UNCHANGED <<count, tokens>>)
    /\ \A t \in Task :
        /\ SF_semvars(Proceed(t) /\ UNCHANGED <<count, tokens>>)
        /\ SF_semvars(take_return(t))

FairSemSpec == SemSpec /\ SemFairness

\* A take with a timeout returns: for a task no other task outranks, the tick
\* ends the wait and equal priorities share the processor, so the call comes
\* back unless somebody suspends or deletes the task.
TimedTakeReturns ==
    \A t \in Task :
        /\ call[t].op = "take" /\ kern.delay_left[t] > 0
        /\ \A u \in Task : kern.priority[u] <= kern.priority[t]
        ~> \/ call[t].op # "take" \/ panic # "none"
           \/ kern.state[t] \in {"Suspended", "Deleted"}
=============================================================================
