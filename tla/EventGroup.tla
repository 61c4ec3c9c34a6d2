----------------------------- MODULE EventGroup -----------------------------
(***************************************************************************)
(* One EventGroup (src/src/ipc.cpp) used by tasks and interrupt handlers,  *)
(* on top of Scheduler.  set_bits goes once through the waiters, highest   *)
(* priority first, and wakes each whose own condition holds.               *)
(***************************************************************************)
EXTENDS Scheduler

CONSTANTS
    waiters,   \* EventGroup::waiters_
    Bit,       \* the flags in use; a mask is a set of them
    Requests   \* the conditions tasks wait for: [mask, all, clear]

RequestType == [mask : SUBSET Bit, all : BOOLEAN, clear : BOOLEAN]

ASSUME EventGroupAssumption ==
    /\ waiters \in Lists
    /\ Requests \subseteq RequestType

VARIABLES
    current_bits,  \* EventGroup::current_bits_
    request,       \* per task, event_wait_mask, event_wait_all, event_clear_on_exit
    return_bits,   \* per task, the variable of wait_bits xfer_ptr points at
    sets           \* history: the parity of the calls of set_bits so far, by
                   \* which a call that changes nothing else is still a step

evars == <<svars, current_bits, request, return_bits, sets>>

NoRequest == [mask |-> {}, all |-> FALSE, clear |-> FALSE]

EventTypeOK ==
    /\ TypeOK
    /\ current_bits \subseteq Bit
    /\ request \in [Task -> RequestType]
    /\ return_bits \in [Task -> SUBSET Bit]
    /\ sets \in {0, 1}

EventInit ==
    /\ SchedInit
    /\ current_bits = {}
    /\ request = [t \in Task |-> NoRequest]
    /\ return_bits = [t \in Task |-> {}]
    /\ sets = 0

----------------------------------------------------------------------------
\* bits_satisfy and condition_met
bits_satisfy(bits, r) ==
    IF r.all THEN r.mask \subseteq bits ELSE bits \cap r.mask # {}

\* The bits that are left when a request is satisfied.
leave_bits(bits, r) == IF r.clear THEN bits \ r.mask ELSE bits

\* Mutant of event_wake: the timeout of the woken task is not cancelled.
event_wake_keep_timeout(k, t) ==
    make_task_ready([k EXCEPT !.wait_lists[waiters] = remove(@, t)], t)

\* A waiter whose condition holds leaves the wait list and the delay list.
event_wake(k, t) ==
    make_task_ready(
        delay_remove([k EXCEPT !.wait_lists[waiters] = remove(@, t)], t), t)

\* Mutant of satisfied_bits: what the waiter clears is missing in its result.
satisfied_bits_cleared(bits, r) == leave_bits(bits, r)

\* The result of a waiter: the bits before it takes any away.
satisfied_bits(bits, r) == bits

\* Mutant of should_yield: the answer for the last waiter alone decides.
should_yield_last(before, t) == preempts(t)

\* The scan yields if any of the waiters it wakes should run now.
should_yield(before, t) == before \/ preempts(t)

\* One turn of the loop in scan_and_wake_locked.
scan_step(s, t) ==
    IF ~bits_satisfy(s.bits, request[t]) THEN s
    ELSE [k     |-> event_wake(s.k, t),
          bits  |-> leave_bits(s.bits, request[t]),
          ret   |-> [s.ret EXCEPT ![t] = satisfied_bits(s.bits, request[t])],
          yield |-> should_yield(s.yield, t)]

\* The loop over list, which starts with the given bits: turns(list, bits)[i] is
\* what i turns have made of the kernel, the bits, the results and the answer.
turns(list, bits) ==
    LET turn[i \in 0..Len(list)] ==
            IF i = 0
            THEN [k |-> kern, bits |-> bits, ret |-> return_bits, yield |-> FALSE]
            ELSE scan_step(turn[i - 1], list[i])
    IN  turn

\* Mutant of scan_and_wake_locked: only the first waiter is looked at.
scan_first(bits) ==
    LET list == kern.wait_lists[waiters]
    IN  turns(list, bits)[IF list = <<>> THEN 0 ELSE 1]

scan_and_wake_locked(bits) ==
    LET list == kern.wait_lists[waiters] IN turns(list, bits)[Len(list)]

\* Mutant of SetBits: the scan starts with the new bits, but the group keeps the
\* old ones when nobody is woken.
SetBits_only_wakes(M) ==
    LET s == scan_and_wake_locked(current_bits \cup M) IN
    /\ kern' = s.k
    /\ current_bits' = IF s.k = kern THEN current_bits ELSE s.bits
    /\ return_bits' = s.ret
    /\ sets' = 1 - sets
    /\ UNCHANGED request

\* The critical section of set_bits.
SetBits(M) ==
    LET s == scan_and_wake_locked(current_bits \cup M) IN
    /\ kern' = s.k
    /\ current_bits' = s.bits
    /\ return_bits' = s.ret
    /\ sets' = 1 - sets
    /\ UNCHANGED request

----------------------------------------------------------------------------
\* wait_bits when its condition holds.  An empty mask, or timeout 0 when it
\* does not hold, returns the bits and changes nothing.
wait_bits_now(t, r) ==
    /\ Calls(t, "wait_bits")
    /\ bits_satisfy(current_bits, r)
    /\ current_bits' = leave_bits(current_bits, r)
    /\ UNCHANGED <<svars, request, return_bits, sets>>

wait_bits(t, r, ms) ==
    /\ Calls(t, "wait_bits")
    /\ r.mask # {} /\ ~bits_satisfy(current_bits, r)
    /\ wait_on(t, "wait_bits", waiters, ms)
    /\ request' = [request EXCEPT ![t] = r]
    /\ return_bits' = [return_bits EXCEPT ![t] = {}]
    /\ UNCHANGED <<current_bits, sets>>

\* The end of wait_bits.  What it returns, return_bits or after a failed wait
\* the current bits, goes to the application.
wait_bits_return(t) ==
    /\ Inside(t, "wait_bits", "ret")
    /\ Return(t)
    /\ request' = [request EXCEPT ![t] = NoRequest]
    /\ return_bits' = [return_bits EXCEPT ![t] = {}]
    /\ UNCHANGED <<kern, current_task, started, pendsv, tick_count, panic,
                   current_bits, sets>>

set_bits(t, M) ==
    /\ Calls(t, "set_bits")
    /\ SetBits(M)
    /\ Leave(t, "set_bits", NoTask,
             scan_and_wake_locked(current_bits \cup M).yield)
    /\ UNCHANGED <<current_task, started, pendsv, tick_count, panic>>

\* The handler calls task_yield() if it is told to.
set_bits_from_isr(M) ==
    /\ panic = "none" /\ "set_bits_from_isr" \in Api
    /\ SetBits(M)
    /\ pendsv' = (pendsv \/ scan_and_wake_locked(current_bits \cup M).yield)
    /\ UNCHANGED <<current_task, started, tick_count, call, panic>>

clear_bits(t, M) ==
    /\ Calls(t, "clear_bits")
    /\ current_bits' = current_bits \ M
    /\ UNCHANGED <<svars, request, return_bits, sets>>

EventNext ==
    \/ SchedNext /\ UNCHANGED <<current_bits, request, return_bits, sets>>
    \/ \E M \in SUBSET Bit : set_bits_from_isr(M)
    \/ \E t \in Task :
        \/ wait_bits_return(t)
        \/ \E M \in SUBSET Bit : set_bits(t, M) \/ clear_bits(t, M)
        \/ \E r \in Requests : \/ wait_bits_now(t, r)
                               \/ \E ms \in Timeouts : wait_bits(t, r, ms)

EventSpec == EventInit /\ [][EventNext]_evars

----------------------------------------------------------------------------
(* Properties *)

\* No wake-up is lost: no task waits for a condition that holds, though waiters
\* ahead of it may clear bits while set_bits goes through the list.
NobodyWaitsForSetBits ==
    \A t \in Range(kern.wait_lists[waiters]) :
        ~bits_satisfy(current_bits, request[t])

\* The waiters a step wakes without telling them that their wait failed.
WokenWaiters ==
    {t \in Range(kern.wait_lists[waiters]) : /\ kern'.wait_list[t] = NoList
                                             /\ ~kern'.timeout_expired[t]}

\* What set_bits(M) does (docs/event-group.md, "Return value contract" and
\* "clear_on_exit"): every waiter is judged by the old bits and M without those
\* that clear-on-exit waiters woken ahead of it have taken; those whose condition
\* holds get exactly these real bits and are woken, the others go on waiting, and
\* the group keeps what is left, which is all of it if nobody is woken.
SetBitsEffect(M) ==
    LET list == kern.wait_lists[waiters]
        Cleared(n) == UNION {request[list[i]].mask : i \in
            {j \in 1..n : list[j] \in WokenWaiters /\ request[list[j]].clear}}
    IN  /\ current_bits' = (current_bits \cup M) \ Cleared(Len(list))
        /\ \A i \in DOMAIN list :
             LET seen == (current_bits \cup M) \ Cleared(i - 1) IN
             /\ bits_satisfy(seen, request[list[i]]) <=> list[i] \in WokenWaiters
             /\ list[i] \in WokenWaiters => return_bits'[list[i]] = seen

\* The step is a call of set_bits with mask M, by a task or an interrupt handler.
SettingBits(M) == set_bits_from_isr(M) \/ \E t \in Task : set_bits(t, M)

\* Every call of set_bits has the effect of its own mask, whether it wakes
\* somebody or not, and nothing else ends a wait with success.
SetBitsExact ==
    [][/\ \A M \in SUBSET Bit : SettingBits(M) => SetBitsEffect(M)
       /\ WokenWaiters # {} => \E M \in SUBSET Bit : SettingBits(M)]_evars
=============================================================================
