----------------------------- MODULE KernelOps -----------------------------
(***************************************************************************)
(* What the lists of the kernel promise: the operations of module Kernel   *)
(* on sequences and remaining ticks, in any order in which the scheduler   *)
(* may call them, for one running task.  TcbHeap implements it.            *)
(***************************************************************************)
EXTENDS Kernel

CONSTANTS Ticks   \* the delays used
VARIABLES kern

\* create_task_impl
Create(t, p) ==
    /\ kern.state[t] = "Free"
    /\ kern' = add_to_ready_queue(allocate_tcb(kern, t, p), t)

\* schedule_next_task when the outgoing task is running, or there is none.
Switch ==
    LET Out  == {t \in Task : kern.state[t] = "Running"}
        k    == IF Out = {} THEN kern
                ELSE add_to_ready_queue(kern, CHOOSE t \in Out : TRUE)
        next == highest_priority_task(k)
    IN  next # NoTask /\ kern' = [pop_highest(k) EXCEPT !.state[next] = "Running"]

Sleep(t, n) ==
    /\ kern.state[t] = "Running"
    /\ kern' = delay_insert([kern EXCEPT !.state[t] = "Blocked"], t, n)

Wait(t, l) == kern.state[t] = "Running" /\ kern' = park(kern, t, l)

TimedWait(t, l, n) ==
    kern.state[t] = "Running" /\ kern' = delay_insert(park(kern, t, l), t, n)

Wake(l) ==
    /\ peek_waiter(kern, l) # NoTask
    /\ kern' = make_task_ready(wake_highest(kern, l), peek_waiter(kern, l))

Tick == kern' = delay_tick(kern)

Suspend(t) ==
    /\ kern.state[t] \in {"Ready", "Running", "Blocked"}
    /\ kern' = [unlink(kern, t) EXCEPT !.state[t] = "Suspended"]

Resume(t) == kern.state[t] = "Suspended" /\ kern' = add_to_ready_queue(kern, t)

SetPriority(t, p) ==
    kern.state[t] # "Free" /\ kern' = set_task_priority(kern, t, p)

OpsNext ==
    \/ Switch
    \/ Tick
    \/ \E l \in Lists : Wake(l)
    \/ \E t \in Task :
        \/ Suspend(t)
        \/ Resume(t)
        \/ \E p \in Priorities : Create(t, p) \/ SetPriority(t, p)
        \/ \E n \in Ticks : Sleep(t, n)
        \/ \E l \in Lists : Wait(t, l) \/ \E n \in Ticks : TimedWait(t, l, n)

OpsSpec == kern = EmptyKernel /\ [][OpsNext]_kern
=============================================================================
