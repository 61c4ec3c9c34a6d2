------------------------------ MODULE Context ------------------------------
(***************************************************************************)
(* The context switch (src/src/port_asm.s, src/src/port_cm4.cpp and the sp *)
(* and canary lines of scheduler.cpp): what happens to the registers and   *)
(* the stacks of the tasks that Scheduler switches between.                *)
(*                                                                         *)
(* Registers that are saved together form a group, and a group takes one   *)
(* slot of a stack: "low" is r0-r3, r12, lr, pc and xPSR, "s0" is s0-s15,  *)
(* both stacked by the processor; "high" is r4-r11 and "s16" is s16-s31,   *)
(* stacked by PendSV_Handler.  PendSV_Handler masks interrupts, so it is   *)
(* one step.                                                               *)
(***************************************************************************)
EXTENDS Scheduler

CONSTANT StackSlots   \* slots of a task's stack; the last is stack_base[0]

ASSUME ContextAssumption == StackSlots \in Nat /\ StackSlots > 2

VARIABLES
    hw,      \* psp, the register groups, CONTROL.FPCA and the stack memory
    sp,      \* per task, TaskControlBlock::sp
    mine,    \* history: per task, the registers as its own code left them
    depth    \* history: per task, the function calls it is inside of

cvars == <<svars, hw, sp, mine, depth>>

Groups == {"low", "high", "s0", "s16"}

\* Contents of a group or a slot: whose they are, and which of two.
Junk   == <<"junk", NoTask, 0>>
Canary == <<"canary", NoTask, 0>>
Frame(t) == <<"call", t, 0>>
Values == (Groups \cup {"call"}) \X Task \X {0, 1} \cup {Junk, Canary}

\* Slot 0 holds the callable; the slots past StackSlots are not the task's.
Slots == 0..(StackSlots + 4)

\* A slot beside r4-r11 holds EXC_RETURN: ext says that its bit 4 is 0.
Slot(v) == [val |-> v, ext |-> FALSE]

Pointers == [base : Task \cup {NoTask}, used : Slots]
NullPtr == [base |-> NoTask, used |-> 0]

ContextTypeOK ==
    /\ TypeOK
    /\ hw \in [psp   : Pointers,
               regs  : [Groups -> Values],
               fpca  : BOOLEAN,
               stack : [Task -> [Slots -> [val : Values, ext : BOOLEAN]]]]
    /\ sp \in [Task -> Pointers]
    /\ mine \in [Task -> [Groups -> Values]]
    /\ depth \in [Task -> 0..StackSlots]

\* psp is unknown after reset.
ContextInit ==
    /\ SchedInit
    /\ hw = [psp   |-> [base |-> NoTask, used |-> 1],
             regs  |-> [g \in Groups |-> Junk],
             fpca  |-> FALSE,
             stack |-> [t \in Task |-> [i \in Slots |-> Slot(Junk)]]]
    /\ sp = [t \in Task |-> NullPtr]
    /\ mine = [t \in Task |-> [g \in Groups |->
                  IF g \in {"low", "high"} THEN <<g, t, 0>> ELSE Junk]]
    /\ depth = [t \in Task |-> 0]

----------------------------------------------------------------------------
(* The processor.  The memory below a stack pointer may change at any time: *)
(* what is popped is lost.                                                 *)

push(m, s) ==
    [m EXCEPT !.psp.used = @ + 1, !.stack[m.psp.base][m.psp.used + 1] = s]

top(m) == m.stack[m.psp.base][m.psp.used]

drop(m) ==
    [m EXCEPT !.psp.used = @ - 1, !.stack[m.psp.base][m.psp.used] = Slot(Junk)]

pop(m, g) == [drop(m) EXCEPT !.regs[g] = top(m).val]

\* Exception entry and return with a task's stack.  In the handler fpca stands
\* for bit 4 of EXC_RETURN in lr; before the first task the main stack is used.
exception_entry(m) ==
    IF m.psp = NullPtr THEN m
    ELSE push(IF m.fpca THEN push(m, Slot(m.regs["s0"])) ELSE m, Slot(m.regs["low"]))

exception_return(m) ==
    IF m.psp = NullPtr THEN m
    ELSE LET n == pop(m, "low") IN IF m.fpca THEN pop(n, "s0") ELSE n

----------------------------------------------------------------------------
(* The port *)

\* create_task_impl and init_task_stack: the canary, and the two frames that
\* make the first switch to u call its trampoline, without FPU state.
init_task_stack(m, u) ==
    [m EXCEPT !.stack[u] = [i \in Slots |->
        CASE i = 1 -> Slot(<<"low", u, 0>>)
          [] i = 2 -> Slot(<<"high", u, 0>>)
          [] i = StackSlots -> Slot(Canary)
          [] OTHER -> Slot(Junk)]]

\* Mutant of save_context: s16-s31 are left in the registers.
save_context_integer(m) ==
    IF m.psp = NullPtr THEN m
    ELSE push(m, [val |-> m.regs["high"], ext |-> m.fpca])

\* PendSV_Handler up to the call of schedule_next_task.
save_context(m) ==
    IF m.psp = NullPtr THEN m
    ELSE push(IF m.fpca THEN push(m, Slot(m.regs["s16"])) ELSE m,
              [val |-> m.regs["high"], ext |-> m.fpca])

\* PendSV_Handler after the call, with the task whose sp is p.
restore_context(m, p) ==
    LET at == [m EXCEPT !.psp = p]
        n  == [pop(at, "high") EXCEPT !.fpca = top(at).ext]
    IN  IF n.fpca THEN pop(n, "s16") ELSE n

\* Mutant of store_sp: only a task that goes on to be ready gets its sp.
store_sp_running(t, p) ==
    IF t # NoTask /\ kern.state[t] = "Running" THEN [sp EXCEPT ![t] = p] ELSE sp

\* prev_task->sp = current_sp
store_sp(t, p) == IF t = NoTask THEN sp ELSE [sp EXCEPT ![t] = p]

\* Mutant of overflowed: only a task that is still running is looked at.
overflowed_running(m, t) ==
    /\ t # NoTask /\ kern.state[t] = "Running"
    /\ m.stack[t][StackSlots].val # Canary

\* The assert of schedule_next_task on the outgoing task, after the save.
overflowed(m, t) == t # NoTask /\ m.stack[t][StackSlots].val # Canary

\* PendSV_Handler as a whole.
PendSV_Handler ==
    LET m == save_context(exception_entry(hw)) IN
    /\ panic = "none" /\ pendsv
    /\ IF overflowed(m, current_task)
       THEN AssertFails("stack overflow") /\ hw' = m /\ UNCHANGED sp
       ELSE /\ schedule_next_task
            /\ sp' = store_sp(current_task, m.psp)
            /\ hw' = IF panic' # "none" THEN m
                     ELSE exception_return(restore_context(m, sp'[current_task']))
    /\ UNCHANGED <<mine, depth>>

\* A SysTick that interrupts a task leaves its marks below the stack pointer.
SysTick_Handler ==
    /\ tick
    /\ hw' = exception_return(exception_entry(hw))
    /\ UNCHANGED <<sp, mine, depth>>

\* The stack of a task that is created.
new_stack(u, m) ==
    /\ hw' = init_task_stack(m, u)
    /\ sp' = [sp EXCEPT ![u] = [base |-> u, used |-> 2]]
    /\ UNCHANGED <<mine, depth>>

\* start_hardware_and_yield sets psp to 0.
start_hardware == start /\ new_stack(Idle, [hw EXCEPT !.psp = NullPtr])

----------------------------------------------------------------------------
(* The code of the tasks *)

\* t computes, with the processor's registers or the FPU's.
Compute(t, G) ==
    LET new(regs) == [g \in Groups |->
            IF g \in G THEN <<g, t, 1 - mine[t][g][3]>> ELSE regs[g]]
    IN  /\ Thread(t) /\ t # Idle
        /\ hw' = [hw EXCEPT !.regs = new(@), !.fpca = @ \/ "s0" \in G]
        /\ mine' = [mine EXCEPT ![t] = new(@)]
        /\ UNCHANGED <<svars, sp, depth>>

\* t calls a function, or returns from one.  Nothing keeps the calls from
\* reaching the end of the stack.
Enter(t) ==
    /\ Thread(t) /\ t # Idle /\ depth[t] < StackSlots
    /\ hw' = push(hw, Slot(Frame(t)))
    /\ depth' = [depth EXCEPT ![t] = @ + 1]
    /\ UNCHANGED <<svars, sp, mine>>

Exit(t) ==
    /\ Thread(t) /\ depth[t] > 0
    /\ hw' = drop(hw)
    /\ depth' = [depth EXCEPT ![t] = @ - 1]
    /\ UNCHANGED <<svars, sp, mine>>

ContextNext ==
    \/ \E u \in Task : \E p \in TaskPriority[u] :
        \/ MainCreate(u, p) /\ new_stack(u, hw)
        \/ \E t \in Task : create_task(t, u, p) /\ new_stack(u, hw)
    \/ start_hardware
    \/ SysTick_Handler
    \/ PendSV_Handler
    \/ \E t \in Task : \/ Compute(t, {"low", "high"})
                       \/ Compute(t, {"s0", "s16"})
                       \/ Enter(t)
                       \/ Exit(t)
    \/ /\ BootYield \/ NoSlotForIdle \/ NoSlot \/ Halted \/ \E t \in Task : TaskStep(t)
       /\ UNCHANGED <<hw, sp, mine, depth>>

ContextSpec == ContextInit /\ [][ContextNext]_cvars

----------------------------------------------------------------------------
(* Properties *)

\* A task never notices a switch: whenever it executes, every register its code
\* has written holds what it wrote, FPU registers included, and its stack has
\* its own frames and nothing else.  The port, which takes psp = 0 for the
\* first switch, and the scheduler, which takes current_task_ = nullptr for it,
\* agree (PendSV_Handler, schedule_next_task, init_task_stack).
ContextPreserved ==
    /\ started => (hw.psp = NullPtr <=> current_task = NoTask)
    /\ \A t \in Task : Thread(t) =>
        /\ \A g \in Groups : mine[t][g] # Junk => hw.regs[g] = mine[t][g]
        /\ hw.psp = [base |-> t, used |-> depth[t]]
        /\ \A i \in 1..depth[t] : hw.stack[t][i] = Slot(Frame(t))

\* docs/architecture.md: a stack overflow is caught at the next switch.  No task
\* that has run over its stack, by calls or by the frames that interrupts and
\* the switch itself push, is ever switched away from and left behind.
OverflowCaught ==
    \A t \in Task :
        t # current_task /\ kern.state[t] # "Free" =>
            hw.stack[t][StackSlots].val = Canary /\ sp[t].used < StackSlots
=============================================================================
