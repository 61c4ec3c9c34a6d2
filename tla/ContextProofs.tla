---------------------------- MODULE ContextProofs ----------------------------
(***************************************************************************)
(* A task never notices a context switch and never overruns its stack      *)
(* unnoticed, for every number of tasks, every stack size, every depth of  *)
(* calls and every use of the FPU.                                         *)
(***************************************************************************)
EXTENDS Context, SchedulerProofs

SlotType == [val : Values, ext : BOOLEAN]

HwType == [psp   : Pointers,
           regs  : [Groups -> Values],
           fpca  : BOOLEAN,
           stack : [Task -> [Slots -> SlotType]]]

\* The registers of group g as t may have left them.
Written(g, t) == {<<g, t, 0>>, <<g, t, 1>>}

\* A task has used all of the FPU's registers or none.
MineExact ==
    \A t \in Task :
        /\ \A g \in {"low", "high"} : mine[t][g] \in Written(g, t)
        /\ \/ \A g \in {"s0", "s16"} : mine[t][g] = Junk
           \/ \A g \in {"s0", "s16"} : mine[t][g] \in Written(g, t)

\* What the histories may be.
HistoryOK ==
    /\ mine \in [Task -> [Groups -> Values]]
    /\ depth \in [Task -> 0..StackSlots]
    /\ MineExact

UsesFpu(t) == mine[t]["s0"] # Junk

\* A task that does not exist yet has left nothing.
Fresh ==
    \A t \in Task : kern.state[t] = "Free" =>
        /\ depth[t] = 0
        /\ mine[t] = [g \in Groups |-> IF g \in {"low", "high"} THEN <<g, t, 0>> ELSE Junk]

CurrentLive == current_task # NoTask => kern.state[current_task] # "Free"

\* The calls t is inside of are the bottom of its stack.
Frames(m, t) == \A i \in 1..depth[t] : m.stack[t][i] = Slot(Frame(t))

\* How many slots a switch pushes.
Pushed(t) == IF UsesFpu(t) THEN 4 ELSE 2

\* The context of t is on top of the calls, as PendSV_Handler leaves it.
OnStack(m, t) ==
    LET s == m.stack[t]
        d == depth[t]
    IN  /\ Frames(m, t)
        /\ IF UsesFpu(t)
           THEN /\ s[d + 1] = Slot(mine[t]["s0"]) /\ s[d + 2] = Slot(mine[t]["low"])
                /\ s[d + 3] = Slot(mine[t]["s16"])
                /\ s[d + 4] = [val |-> mine[t]["high"], ext |-> TRUE]
           ELSE /\ s[d + 1] = Slot(mine[t]["low"])
                /\ s[d + 2] = [val |-> mine[t]["high"], ext |-> FALSE]

\* The context of t is on its stack in m, below the canary, and q points at it.
SavedIn(m, q, t) ==
    /\ OnStack(m, t)
    /\ q = [base |-> t, used |-> depth[t] + Pushed(t)]
    /\ depth[t] + Pushed(t) < StackSlots
    /\ m.stack[t][StackSlots].val = Canary

\* t is not on the processor.
Saved(t) == SavedIn(hw, sp[t], t)

\* m has t on the processor.
Loaded(m, t) ==
    /\ m.psp = [base |-> t, used |-> depth[t]]
    /\ Frames(m, t)
    /\ m.fpca = UsesFpu(t)
    /\ \A g \in Groups : mine[t][g] # Junk => m.regs[g] = mine[t][g]

\* The inductive invariant of ContextSpec.
ContextInv ==
    /\ IInv
    /\ hw \in HwType
    /\ sp \in [Task -> Pointers]
    /\ HistoryOK
    /\ Fresh
    /\ CurrentLive
    /\ started => (hw.psp = NullPtr <=> current_task = NoTask)
    /\ \A t \in Task \ {current_task} : kern.state[t] # "Free" => Saved(t)
    /\ panic = "none" /\ current_task # NoTask => Loaded(hw, current_task)
----------------------------------------------------------------------------
(* The processor *)

LEMMA HwFields ==
    ASSUME NEW m \in HwType
    PROVE  /\ m.psp \in Pointers
           /\ m.psp.base \in Task \cup {NoTask} /\ m.psp.used \in 0..(StackSlots + 4)
           /\ m.psp.used \in Int
           /\ m.regs \in [Groups -> Values] /\ m.fpca \in BOOLEAN
           /\ m.stack \in [Task -> [Slots -> SlotType]]
           /\ StackSlots \in Nat /\ StackSlots > 2
  BY ContextAssumption DEF HwType, Pointers, Slots

LEMMA Push ==
    ASSUME NEW m \in HwType, m.psp.base \in Task, m.psp.used < StackSlots + 4,
           NEW s \in SlotType
    PROVE  LET b == m.psp.base
               n == m.psp.used + 1
           IN  /\ push(m, s) \in HwType
               /\ push(m, s).psp = [base |-> b, used |-> n]
               /\ push(m, s).regs = m.regs
               /\ push(m, s).fpca = m.fpca
               /\ push(m, s).stack = [m.stack EXCEPT ![b] = [m.stack[b] EXCEPT ![n] = s]]
  <1> DEFINE b == m.psp.base
             n == m.psp.used + 1
             st == [m.stack EXCEPT ![b] = [m.stack[b] EXCEPT ![n] = s]]
             q == [base |-> b, used |-> n]
  <1>1. push(m, s) = [m EXCEPT !.psp = q, !.stack = st]
    <2>1. [m.psp EXCEPT !.used = @ + 1] = q
      BY HwFields DEF Pointers
    <2>2. push(m, s) = [m EXCEPT !.psp = [m.psp EXCEPT !.used = @ + 1], !.stack = st]
      BY DEF push, HwType
    <2> QED
      BY <2>1, <2>2
  <1>2. q \in Pointers
    <2>1. n \in Slots /\ b \in Task \cup {NoTask}
      BY HwFields DEF Slots
    <2> QED
      BY <2>1 DEF Pointers
  <1>3. st \in [Task -> [Slots -> SlotType]]
    BY HwFields
  <1> HIDE DEF st, q
  <1>4. /\ push(m, s) \in HwType
        /\ push(m, s).psp = q /\ push(m, s).stack = st
        /\ push(m, s).regs = m.regs /\ push(m, s).fpca = m.fpca
    BY <1>1, <1>2, <1>3 DEF HwType
  <1> QED
    BY <1>4 DEF st, q

LEMMA Drop ==
    ASSUME NEW m \in HwType, m.psp.base \in Task, m.psp.used > 0
    PROVE  LET b == m.psp.base
               n == m.psp.used
           IN  /\ drop(m) \in HwType
               /\ drop(m).psp = [base |-> b, used |-> n - 1]
               /\ drop(m).regs = m.regs
               /\ drop(m).fpca = m.fpca
               /\ drop(m).stack = [m.stack EXCEPT ![b] = [m.stack[b] EXCEPT ![n] = Slot(Junk)]]
  <1> DEFINE b == m.psp.base
             n == m.psp.used
             st == [m.stack EXCEPT ![b] = [m.stack[b] EXCEPT ![n] = Slot(Junk)]]
             q == [base |-> b, used |-> n - 1]
  <1>1. drop(m) = [m EXCEPT !.psp = q, !.stack = st]
    <2>1. [m.psp EXCEPT !.used = @ - 1] = q
      BY HwFields DEF Pointers
    <2>2. drop(m) = [m EXCEPT !.psp = [m.psp EXCEPT !.used = @ - 1], !.stack = st]
      BY DEF drop, HwType
    <2> QED
      BY <2>1, <2>2
  <1>2. q \in Pointers
    <2>1. n - 1 \in Slots /\ b \in Task \cup {NoTask}
      BY HwFields DEF Slots
    <2> QED
      BY <2>1 DEF Pointers
  <1>3. Slot(Junk) \in SlotType
    BY DEF Slot, SlotType, Values
  <1>4. st \in [Task -> [Slots -> SlotType]]
    BY <1>3, HwFields
  <1> HIDE DEF st, q
  <1>5. /\ drop(m) \in HwType
        /\ drop(m).psp = q /\ drop(m).stack = st
        /\ drop(m).regs = m.regs /\ drop(m).fpca = m.fpca
    BY <1>1, <1>2, <1>4 DEF HwType
  <1> QED
    BY <1>5 DEF st, q

LEMMA Pop ==
    ASSUME NEW m \in HwType, m.psp.base \in Task, m.psp.used > 0, NEW g \in Groups
    PROVE  LET b == m.psp.base
               n == m.psp.used
               p == pop(m, g)
           IN  /\ p \in HwType
               /\ p.psp = [base |-> b, used |-> n - 1]
               /\ p.regs = [m.regs EXCEPT ![g] = m.stack[b][n].val]
               /\ p.fpca = m.fpca
               /\ p.stack = [m.stack EXCEPT ![b] = [m.stack[b] EXCEPT ![n] = Slot(Junk)]]
  <1> DEFINE b == m.psp.base
             n == m.psp.used
             r == [m.regs EXCEPT ![g] = m.stack[b][n].val]
             d == drop(m)
  <1>1. /\ d \in HwType
        /\ d.psp = [base |-> b, used |-> n - 1]
        /\ d.regs = m.regs
        /\ d.fpca = m.fpca
        /\ d.stack = [m.stack EXCEPT ![b] = [m.stack[b] EXCEPT ![n] = Slot(Junk)]]
    BY Drop
  <1>2. m.stack[b][n] \in SlotType
    BY HwFields DEF Slots
  <1>3. r \in [Groups -> Values]
    BY <1>2, HwFields DEF SlotType
  <1>4. top(m).val = m.stack[b][n].val
    BY DEF top
  <1> HIDE DEF d, r
  <1>5. pop(m, g) = [d EXCEPT !.regs = r]
    BY <1>1, <1>4 DEF pop, d, r, HwType
  <1>6. /\ pop(m, g) \in HwType
        /\ pop(m, g).psp = d.psp /\ pop(m, g).stack = d.stack
        /\ pop(m, g).regs = r /\ pop(m, g).fpca = d.fpca
    BY <1>1, <1>3, <1>5 DEF HwType
  <1> QED
    BY <1>1, <1>6 DEF r

\* What the histories say of one task.
LEMMA Histories ==
    ASSUME HistoryOK, NEW t \in Task
    PROVE  /\ depth[t] \in 0..StackSlots /\ depth[t] \in Int
           /\ StackSlots \in Nat /\ StackSlots > 2
           /\ \A g \in Groups : mine[t][g] \in Values /\ mine[t][g] # Canary
           /\ mine[t]["low"] # Junk /\ mine[t]["high"] # Junk
           /\ UsesFpu(t) \in BOOLEAN
           /\ UsesFpu(t) => mine[t]["s0"] # Junk /\ mine[t]["s16"] # Junk
           /\ ~UsesFpu(t) => mine[t]["s0"] = Junk /\ mine[t]["s16"] = Junk
           /\ t # NoTask
  <1>1. \A g \in Groups : Junk \notin Written(g, t) /\ Canary \notin Written(g, t)
    BY DEF Written, Junk, Canary, Groups
  <1>2. Junk # Canary
    BY DEF Junk, Canary
  <1>3. "low" \in Groups /\ "high" \in Groups /\ "s0" \in Groups /\ "s16" \in Groups
    BY DEF Groups
  <1>4. /\ depth[t] \in 0..StackSlots /\ \A g \in Groups : mine[t][g] \in Values
        /\ StackSlots \in Nat /\ StackSlots > 2 /\ t # NoTask
    BY ContextAssumption, KernelAssumption DEF HistoryOK
  <1>5. /\ mine[t]["low"] \in Written("low", t) /\ mine[t]["high"] \in Written("high", t)
        /\ \/ mine[t]["s0"] = Junk /\ mine[t]["s16"] = Junk
           \/ mine[t]["s0"] \in Written("s0", t) /\ mine[t]["s16"] \in Written("s16", t)
    BY DEF HistoryOK, MineExact
  <1>6. \A g \in Groups : mine[t][g] # Canary
    BY <1>1, <1>2, <1>5 DEF Groups
  <1> QED
    BY <1>1, <1>3, <1>4, <1>5, <1>6 DEF UsesFpu

\* Slots the port and the processor write.
LEMMA SlotTypes ==
    ASSUME NEW v \in Values, NEW e \in BOOLEAN
    PROVE  /\ Slot(v) \in SlotType /\ Slot(v).val = v
           /\ [val |-> v, ext |-> e] \in SlotType
  BY DEF Slot, SlotType

\* What the processor has stacked of t at exception entry, and left in registers.
Entered(m, t) ==
    LET s == m.stack[t]
        d == depth[t]
    IN  /\ Frames(m, t)
        /\ m.fpca = UsesFpu(t)
        /\ mine[t]["high"] = m.regs["high"]
        /\ IF UsesFpu(t)
           THEN /\ m.psp = [base |-> t, used |-> d + 2]
                /\ s[d + 1] = Slot(mine[t]["s0"]) /\ s[d + 2] = Slot(mine[t]["low"])
                /\ mine[t]["s16"] = m.regs["s16"]
           ELSE /\ m.psp = [base |-> t, used |-> d + 1]
                /\ s[d + 1] = Slot(mine[t]["low"])

\* The stacks of all tasks but t are the same in m and n.
OthersKept(m, n, t) == \A v \in Task \ {t} : n.stack[v] = m.stack[v]

\* A push onto the stack of t, slot by slot.
LEMMA PushOn ==
    ASSUME NEW m \in HwType, NEW t \in Task, NEW n \in 0..(StackSlots + 3),
           m.psp = [base |-> t, used |-> n], NEW s \in SlotType
    PROVE  LET p == push(m, s)
           IN  /\ p \in HwType
               /\ p.psp = [base |-> t, used |-> n + 1]
               /\ p.regs = m.regs
               /\ p.fpca = m.fpca
               /\ OthersKept(m, p, t)
               /\ p.stack[t][n + 1] = s
               /\ \A i \in Slots \ {n + 1} : p.stack[t][i] = m.stack[t][i]
  <1> DEFINE p == push(m, s)
  <1>1. /\ m.psp.base = t /\ m.psp.used = n /\ n < StackSlots + 4 /\ n + 1 \in Slots
        /\ m.stack \in [Task -> [Slots -> SlotType]]
    BY HwFields DEF Slots
  <1>2. /\ p \in HwType
        /\ p.psp = [base |-> t, used |-> n + 1]
        /\ p.regs = m.regs
        /\ p.fpca = m.fpca
        /\ p.stack = [m.stack EXCEPT ![t] = [m.stack[t] EXCEPT ![n + 1] = s]]
    BY <1>1, Push
  <1> HIDE DEF p
  <1>3. /\ p.stack[t] = [m.stack[t] EXCEPT ![n + 1] = s]
        /\ \A v \in Task \ {t} : p.stack[v] = m.stack[v]
    BY <1>1, <1>2
  <1>4. m.stack[t] \in [Slots -> SlotType]
    BY <1>1
  <1>5. p.stack[t][n + 1] = s /\ \A i \in Slots \ {n + 1} : p.stack[t][i] = m.stack[t][i]
    BY <1>1, <1>3, <1>4
  <1> QED
    BY <1>2, <1>3, <1>5 DEF OthersKept, p

\* And a pop.
LEMMA PopOff ==
    ASSUME NEW m \in HwType, NEW t \in Task, NEW n \in 1..(StackSlots + 4),
           m.psp = [base |-> t, used |-> n], NEW g \in Groups
    PROVE  LET p == pop(m, g)
           IN  /\ p \in HwType
               /\ p.psp = [base |-> t, used |-> n - 1]
               /\ p.regs[g] = m.stack[t][n].val
               /\ \A h \in Groups \ {g} : p.regs[h] = m.regs[h]
               /\ p.fpca = m.fpca
               /\ OthersKept(m, p, t)
               /\ \A i \in Slots \ {n} : p.stack[t][i] = m.stack[t][i]
  <1> DEFINE p == pop(m, g)
  <1>1. /\ m.psp.base = t /\ m.psp.used = n /\ n > 0 /\ n \in Slots
        /\ m.stack \in [Task -> [Slots -> SlotType]]
        /\ m.regs \in [Groups -> Values]
    BY HwFields DEF Slots
  <1>2. /\ p \in HwType
        /\ p.psp = [base |-> t, used |-> n - 1]
        /\ p.regs = [m.regs EXCEPT ![g] = m.stack[t][n].val]
        /\ p.fpca = m.fpca
        /\ p.stack = [m.stack EXCEPT ![t] = [m.stack[t] EXCEPT ![n] = Slot(Junk)]]
    BY <1>1, Pop
  <1> HIDE DEF p
  <1>3. /\ p.stack[t] = [m.stack[t] EXCEPT ![n] = Slot(Junk)]
        /\ \A v \in Task \ {t} : p.stack[v] = m.stack[v]
    BY <1>1, <1>2
  <1>4. m.stack[t] \in [Slots -> SlotType]
    BY <1>1
  <1>5. \A i \in Slots \ {n} : p.stack[t][i] = m.stack[t][i]
    BY <1>1, <1>3, <1>4
  <1>6. p.regs[g] = m.stack[t][n].val /\ \A h \in Groups \ {g} : p.regs[h] = m.regs[h]
    BY <1>1, <1>2
  <1> QED
    BY <1>2, <1>3, <1>5, <1>6 DEF OthersKept, p

\* Exception entry stacks the caller-saved registers of the running task.
LEMMA ExceptionEntry ==
    ASSUME HistoryOK, NEW m \in HwType, NEW t \in Task, Loaded(m, t)
    PROVE  LET e == exception_entry(m)
           IN  e \in HwType /\ Entered(e, t) /\ OthersKept(m, e, t)
  <1> DEFINE d == depth[t]
             e == exception_entry(m)
  <1>1. /\ d \in 0..StackSlots /\ d \in Int /\ StackSlots \in Nat /\ StackSlots > 2
        /\ \A g \in Groups : mine[t][g] \in Values
        /\ mine[t]["low"] # Junk /\ mine[t]["high"] # Junk
        /\ UsesFpu(t) \in BOOLEAN
        /\ UsesFpu(t) => mine[t]["s0"] # Junk /\ mine[t]["s16"] # Junk
        /\ t # NoTask
    BY Histories
  <1>2. "low" \in Groups /\ "high" \in Groups /\ "s0" \in Groups /\ "s16" \in Groups
    BY DEF Groups
  <1>3. /\ m.psp = [base |-> t, used |-> d] /\ m.psp # NullPtr
        /\ m.fpca = UsesFpu(t)
        /\ m.regs["low"] = mine[t]["low"] /\ m.regs["high"] = mine[t]["high"]
        /\ UsesFpu(t) => m.regs["s0"] = mine[t]["s0"] /\ m.regs["s16"] = mine[t]["s16"]
        /\ \A i \in 1..d : m.stack[t][i] = Slot(Frame(t))
    BY <1>1, <1>2 DEF Loaded, Frames, NullPtr
  <1>4. /\ Slot(m.regs["low"]) \in SlotType
        /\ UsesFpu(t) => Slot(m.regs["s0"]) \in SlotType
    BY <1>1, <1>2, <1>3, SlotTypes
  <1>5. \A i \in 1..d : i \in Slots /\ i # d + 1 /\ i # d + 2
    BY <1>1 DEF Slots
  <1>6. d \in 0..(StackSlots + 3) /\ d + 1 \in 0..(StackSlots + 3)
        /\ (d + 1) + 1 = d + 2 /\ d + 1 # d + 2 /\ d + 1 \in Slots
    BY <1>1 DEF Slots
  <1> HIDE DEF d
  <1>7. CASE ~UsesFpu(t)
    <2> DEFINE p == push(m, Slot(m.regs["low"]))
    <2>1. e = p
      BY <1>3, <1>7 DEF exception_entry
    <2>2. /\ p \in HwType
          /\ p.psp = [base |-> t, used |-> d + 1]
          /\ p.regs = m.regs
          /\ p.fpca = m.fpca
          /\ OthersKept(m, p, t)
          /\ p.stack[t][d + 1] = Slot(m.regs["low"])
          /\ \A i \in Slots \ {d + 1} : p.stack[t][i] = m.stack[t][i]
      BY <1>3, <1>4, <1>6, PushOn
    <2> HIDE DEF p
    <2>3. Frames(p, t)
      BY <1>3, <1>5, <2>2 DEF Frames, d
    <2> QED
      BY <1>3, <1>7, <2>1, <2>2, <2>3 DEF Entered, d
  <1>8. CASE UsesFpu(t)
    <2> DEFINE q == push(m, Slot(m.regs["s0"]))
               p == push(q, Slot(m.regs["low"]))
    <2>1. e = p
      BY <1>3, <1>8 DEF exception_entry
    <2>2. /\ q \in HwType
          /\ q.psp = [base |-> t, used |-> d + 1]
          /\ q.regs = m.regs
          /\ q.fpca = m.fpca
          /\ OthersKept(m, q, t)
          /\ q.stack[t][d + 1] = Slot(m.regs["s0"])
          /\ \A i \in Slots \ {d + 1} : q.stack[t][i] = m.stack[t][i]
      <3>1. Slot(m.regs["s0"]) \in SlotType
        BY <1>4, <1>8
      <3> QED
        BY <1>3, <1>6, <3>1, PushOn
    <2> HIDE DEF q
    <2>3. /\ p \in HwType
          /\ p.psp = [base |-> t, used |-> d + 2]
          /\ p.regs = q.regs
          /\ p.fpca = q.fpca
          /\ OthersKept(q, p, t)
          /\ p.stack[t][d + 2] = Slot(m.regs["low"])
          /\ \A i \in Slots \ {d + 2} : p.stack[t][i] = q.stack[t][i]
      BY <1>4, <1>6, <2>2, PushOn
    <2> HIDE DEF p
    <2>4. Frames(p, t)
      BY <1>3, <1>5, <2>2, <2>3 DEF Frames, d
    <2>5. p.stack[t][d + 1] = Slot(m.regs["s0"])
      BY <1>6, <2>2, <2>3
    <2>6. OthersKept(m, p, t)
      BY <2>2, <2>3 DEF OthersKept
    <2> QED
      BY <1>3, <1>8, <2>1, <2>2, <2>3, <2>4, <2>5, <2>6 DEF Entered, d
  <1> QED
    BY <1>1, <1>7, <1>8

\* PendSV_Handler stacks the rest of what t has in the registers.
LEMMA SaveContext ==
    ASSUME HistoryOK, NEW m \in HwType, NEW t \in Task, Entered(m, t)
    PROVE  LET e == save_context(m)
           IN  /\ e \in HwType
               /\ e.psp = [base |-> t, used |-> depth[t] + Pushed(t)]
               /\ OnStack(e, t) /\ OthersKept(m, e, t)
  <1> DEFINE d == depth[t]
             e == save_context(m)
             s == [val |-> m.regs["high"], ext |-> m.fpca]
  <1>1. /\ d \in 0..StackSlots /\ d \in Int /\ StackSlots \in Nat /\ StackSlots > 2
        /\ \A g \in Groups : mine[t][g] \in Values
        /\ UsesFpu(t) \in BOOLEAN
        /\ t # NoTask
    BY Histories
  <1>2. "low" \in Groups /\ "high" \in Groups /\ "s0" \in Groups /\ "s16" \in Groups
    BY DEF Groups
  <1>3. /\ m.psp # NullPtr
        /\ m.fpca = UsesFpu(t) /\ m.regs["high"] = mine[t]["high"]
        /\ \A i \in 1..d : m.stack[t][i] = Slot(Frame(t))
    BY <1>1 DEF Entered, Frames, NullPtr
  <1>4. s \in SlotType /\ s = [val |-> mine[t]["high"], ext |-> UsesFpu(t)]
    BY <1>1, <1>2, <1>3, SlotTypes
  <1>5. \A i \in 1..d : i \in Slots /\ i # d + 1 /\ i # d + 2 /\ i # d + 3 /\ i # d + 4
    BY <1>1 DEF Slots
  <1>6. /\ d + 1 \in 0..(StackSlots + 3) /\ d + 2 \in 0..(StackSlots + 3)
        /\ d + 3 \in 0..(StackSlots + 3)
        /\ (d + 1) + 1 = d + 2 /\ (d + 2) + 1 = d + 3 /\ (d + 3) + 1 = d + 4
        /\ d + 1 \in Slots /\ d + 2 \in Slots /\ d + 3 \in Slots
        /\ d + 1 # d + 2 /\ d + 1 # d + 3 /\ d + 1 # d + 4
        /\ d + 2 # d + 3 /\ d + 2 # d + 4 /\ d + 3 # d + 4
    BY <1>1 DEF Slots
  <1> HIDE DEF d, s
  <1>7. CASE ~UsesFpu(t)
    <2> DEFINE p == push(m, s)
    <2>1. e = p
      BY <1>3, <1>7 DEF save_context, s
    <2>2. m.psp = [base |-> t, used |-> d + 1] /\ m.stack[t][d + 1] = Slot(mine[t]["low"])
      BY <1>7 DEF Entered, d
    <2>3. /\ p \in HwType
          /\ p.psp = [base |-> t, used |-> d + 2]
          /\ OthersKept(m, p, t)
          /\ p.stack[t][d + 2] = s
          /\ \A i \in Slots \ {d + 2} : p.stack[t][i] = m.stack[t][i]
      BY <1>4, <1>6, <2>2, PushOn
    <2> HIDE DEF p
    <2>4. Frames(p, t)
      BY <1>3, <1>5, <2>3 DEF Frames, d
    <2>5. p.stack[t][d + 1] = Slot(mine[t]["low"])
      BY <1>6, <2>2, <2>3
    <2>6. s = [val |-> mine[t]["high"], ext |-> FALSE]
      <3>1. UsesFpu(t) = FALSE
        BY <1>1, <1>7
      <3> QED
        BY <1>4, <3>1
    <2>7. OnStack(p, t)
      BY <1>7, <2>3, <2>4, <2>5, <2>6 DEF OnStack, d
    <2> QED
      BY <1>7, <2>1, <2>3, <2>7 DEF Pushed, d
  <1>8. CASE UsesFpu(t)
    <2> DEFINE q == push(m, Slot(m.regs["s16"]))
               p == push(q, s)
    <2>1. e = p
      BY <1>3, <1>8 DEF save_context, s
    <2>2. /\ m.psp = [base |-> t, used |-> d + 2]
          /\ m.stack[t][d + 1] = Slot(mine[t]["s0"])
          /\ m.stack[t][d + 2] = Slot(mine[t]["low"])
          /\ m.regs["s16"] = mine[t]["s16"]
      BY <1>8 DEF Entered, d
    <2>3. Slot(m.regs["s16"]) \in SlotType
      BY <1>1, <1>2, <2>2, SlotTypes
    <2>4. /\ q \in HwType
          /\ q.psp = [base |-> t, used |-> d + 3]
          /\ OthersKept(m, q, t)
          /\ q.stack[t][d + 3] = Slot(m.regs["s16"])
          /\ \A i \in Slots \ {d + 3} : q.stack[t][i] = m.stack[t][i]
      BY <1>6, <2>2, <2>3, PushOn
    <2> HIDE DEF q
    <2>5. /\ p \in HwType
          /\ p.psp = [base |-> t, used |-> d + 4]
          /\ OthersKept(q, p, t)
          /\ p.stack[t][d + 4] = s
          /\ \A i \in Slots \ {d + 4} : p.stack[t][i] = q.stack[t][i]
      BY <1>4, <1>6, <2>4, PushOn
    <2> HIDE DEF p
    <2>6. Frames(p, t)
      BY <1>3, <1>5, <2>4, <2>5 DEF Frames, d
    <2>7. /\ p.stack[t][d + 1] = Slot(mine[t]["s0"])
          /\ p.stack[t][d + 2] = Slot(mine[t]["low"])
          /\ p.stack[t][d + 3] = Slot(mine[t]["s16"])
      BY <1>6, <2>2, <2>4, <2>5
    <2>8. s = [val |-> mine[t]["high"], ext |-> TRUE]
      BY <1>4, <1>8
    <2>9. OnStack(p, t)
      BY <1>8, <2>5, <2>6, <2>7, <2>8 DEF OnStack, d
    <2>10. OthersKept(m, p, t)
      BY <2>4, <2>5 DEF OthersKept
    <2> QED
      BY <1>8, <2>1, <2>5, <2>9, <2>10 DEF Pushed, d
  <1> QED
    BY <1>1, <1>7, <1>8

\* A context that reaches the last slot of the stack, or lies beyond it, has
\* overwritten the canary: nothing on a stack looks like it.
LEMMA NotCanary ==
    ASSUME HistoryOK, NEW m \in HwType, NEW t \in Task, OnStack(m, t),
           m.stack[t][StackSlots].val = Canary
    PROVE  depth[t] + Pushed(t) < StackSlots
  <1> DEFINE d == depth[t]
             s == m.stack[t]
  <1>1. /\ d \in 0..StackSlots /\ d \in Int /\ StackSlots \in Nat /\ StackSlots > 2
        /\ \A g \in Groups : mine[t][g] # Canary
        /\ UsesFpu(t) \in BOOLEAN
    BY Histories
  <1>2. Frame(t) # Canary
    BY DEF Frame, Canary
  <1>3. \A v : Slot(v).val = v
    BY DEF Slot
  <1>4. "low" \in Groups /\ "high" \in Groups /\ "s0" \in Groups /\ "s16" \in Groups
    BY DEF Groups
  <1>5. d < StackSlots
    <2>1. SUFFICES ASSUME d = StackSlots PROVE FALSE
      BY <1>1
    <2>2. s[StackSlots] = Slot(Frame(t))
      BY <1>1, <2>1 DEF OnStack, Frames
    <2> QED
      BY <1>2, <1>3, <2>2
  <1> HIDE DEF d
  <1>6. CASE ~UsesFpu(t)
    <2>1. s[d + 1].val # Canary /\ s[d + 2].val # Canary
      BY <1>1, <1>3, <1>4, <1>6 DEF OnStack, d
    <2>2. d + 1 # StackSlots /\ d + 2 # StackSlots
      BY <2>1
    <2> QED
      BY <1>1, <1>5, <1>6, <2>2 DEF Pushed, d
  <1>7. CASE UsesFpu(t)
    <2>1. /\ s[d + 1].val # Canary /\ s[d + 2].val # Canary
          /\ s[d + 3].val # Canary /\ s[d + 4].val # Canary
      BY <1>1, <1>3, <1>4, <1>7 DEF OnStack, d
    <2>2. /\ d + 1 # StackSlots /\ d + 2 # StackSlots
          /\ d + 3 # StackSlots /\ d + 4 # StackSlots
      BY <2>1
    <2> QED
      BY <1>1, <1>5, <1>7, <2>2 DEF Pushed, d
  <1> QED
    BY <1>1, <1>6, <1>7

\* Exception return gives t its registers back.
LEMMA ExceptionReturn ==
    ASSUME HistoryOK, NEW m \in HwType, NEW t \in Task, Entered(m, t)
    PROVE  LET e == exception_return(m)
           IN  e \in HwType /\ Loaded(e, t) /\ OthersKept(m, e, t)
  <1> DEFINE d == depth[t]
             e == exception_return(m)
             n == pop(m, "low")
  <1>1. /\ d \in 0..StackSlots /\ d \in Int /\ StackSlots \in Nat /\ StackSlots > 2
        /\ \A g \in Groups : mine[t][g] \in Values
        /\ UsesFpu(t) \in BOOLEAN
        /\ ~UsesFpu(t) => mine[t]["s0"] = Junk /\ mine[t]["s16"] = Junk
        /\ t # NoTask
    BY Histories
  <1>2. /\ "low" \in Groups /\ "high" \in Groups /\ "s0" \in Groups /\ "s16" \in Groups
        /\ \A g \in Groups : g \in {"low", "high", "s0", "s16"}
    BY DEF Groups
  <1>3. /\ m.psp # NullPtr
        /\ m.fpca = UsesFpu(t) /\ m.regs["high"] = mine[t]["high"]
        /\ \A i \in 1..d : m.stack[t][i] = Slot(Frame(t))
    BY <1>1 DEF Entered, Frames, NullPtr
  <1>4. \A v : Slot(v).val = v
    BY DEF Slot
  <1>5. \A i \in 1..d : i \in Slots /\ i # d + 1 /\ i # d + 2
    BY <1>1 DEF Slots
  <1>6. /\ d + 1 \in 1..(StackSlots + 4) /\ d + 2 \in 1..(StackSlots + 4)
        /\ (d + 1) - 1 = d /\ (d + 2) - 1 = d + 1
        /\ d + 1 \in Slots /\ d + 1 # d + 2
    BY <1>1 DEF Slots
  <1> HIDE DEF d
  <1>7. CASE ~UsesFpu(t)
    <2>1. e = n
      BY <1>3, <1>7 DEF exception_return
    <2>2. m.psp = [base |-> t, used |-> d + 1] /\ m.stack[t][d + 1] = Slot(mine[t]["low"])
      BY <1>7 DEF Entered, d
    <2>3. /\ n \in HwType
          /\ n.psp = [base |-> t, used |-> d]
          /\ n.regs["low"] = m.stack[t][d + 1].val
          /\ \A h \in Groups \ {"low"} : n.regs[h] = m.regs[h]
          /\ n.fpca = m.fpca
          /\ OthersKept(m, n, t)
          /\ \A i \in Slots \ {d + 1} : n.stack[t][i] = m.stack[t][i]
      BY <1>2, <1>6, <2>2, PopOff
    <2> HIDE DEF n
    <2>4. Frames(n, t)
      BY <1>3, <1>5, <2>3 DEF Frames, d
    <2>5. n.regs["low"] = mine[t]["low"] /\ n.regs["high"] = mine[t]["high"]
      BY <1>2, <1>3, <1>4, <2>2, <2>3
    <2>6. \A g \in Groups : mine[t][g] # Junk => n.regs[g] = mine[t][g]
      BY <1>1, <1>2, <1>7, <2>5
    <2> QED
      BY <1>3, <2>1, <2>3, <2>4, <2>6 DEF Loaded, d
  <1>8. CASE UsesFpu(t)
    <2> DEFINE p == pop(n, "s0")
    <2>1. e = p
      BY <1>3, <1>8 DEF exception_return
    <2>2. /\ m.psp = [base |-> t, used |-> d + 2]
          /\ m.stack[t][d + 1] = Slot(mine[t]["s0"])
          /\ m.stack[t][d + 2] = Slot(mine[t]["low"])
          /\ m.regs["s16"] = mine[t]["s16"]
      BY <1>8 DEF Entered, d
    <2>3. /\ n \in HwType
          /\ n.psp = [base |-> t, used |-> d + 1]
          /\ n.regs["low"] = m.stack[t][d + 2].val
          /\ \A h \in Groups \ {"low"} : n.regs[h] = m.regs[h]
          /\ n.fpca = m.fpca
          /\ OthersKept(m, n, t)
          /\ \A i \in Slots \ {d + 2} : n.stack[t][i] = m.stack[t][i]
      BY <1>2, <1>6, <2>2, PopOff
    <2> HIDE DEF n
    <2>4. /\ p \in HwType
          /\ p.psp = [base |-> t, used |-> d]
          /\ p.regs["s0"] = n.stack[t][d + 1].val
          /\ \A h \in Groups \ {"s0"} : p.regs[h] = n.regs[h]
          /\ p.fpca = n.fpca
          /\ OthersKept(n, p, t)
          /\ \A i \in Slots \ {d + 1} : p.stack[t][i] = n.stack[t][i]
      BY <1>2, <1>6, <2>3, PopOff
    <2> HIDE DEF p
    <2>5. Frames(p, t)
      BY <1>3, <1>5, <2>3, <2>4 DEF Frames, d
    <2>6. n.stack[t][d + 1] = Slot(mine[t]["s0"])
      BY <1>6, <2>2, <2>3
    <2>7. /\ n.regs["low"] = mine[t]["low"] /\ n.regs["high"] = mine[t]["high"]
          /\ n.regs["s16"] = mine[t]["s16"]
      BY <1>2, <1>3, <1>4, <2>2, <2>3
    <2>8. /\ p.regs["low"] = mine[t]["low"] /\ p.regs["high"] = mine[t]["high"]
          /\ p.regs["s16"] = mine[t]["s16"] /\ p.regs["s0"] = mine[t]["s0"]
      BY <1>2, <1>4, <2>4, <2>6, <2>7
    <2>9. \A g \in Groups : mine[t][g] # Junk => p.regs[g] = mine[t][g]
      BY <1>2, <2>8
    <2>10. OthersKept(m, p, t)
      BY <2>3, <2>4 DEF OthersKept
    <2> QED
      BY <1>3, <2>1, <2>3, <2>4, <2>5, <2>9, <2>10 DEF Loaded, d
  <1> QED
    BY <1>1, <1>7, <1>8

\* PendSV_Handler finds on t's stack what it put there, whatever it did in
\* between with the registers and with the stacks of others.
LEMMA RestoreContext ==
    ASSUME HistoryOK, NEW m \in HwType, NEW t \in Task, OnStack(m, t)
    PROVE  LET e == restore_context(m, [base |-> t, used |-> depth[t] + Pushed(t)])
           IN  e \in HwType /\ Entered(e, t) /\ OthersKept(m, e, t)
  <1> DEFINE d == depth[t]
             x == d + Pushed(t)
             ptr == [base |-> t, used |-> x]
             at == [m EXCEPT !.psp = ptr]
             q == pop(at, "high")
             n == [q EXCEPT !.fpca = top(at).ext]
             e == restore_context(m, ptr)
  <1>1. /\ d \in 0..StackSlots /\ d \in Int /\ StackSlots \in Nat /\ StackSlots > 2
        /\ UsesFpu(t) \in BOOLEAN
    BY Histories
  <1>2. /\ "low" \in Groups /\ "high" \in Groups /\ "s0" \in Groups /\ "s16" \in Groups
    BY DEF Groups
  <1>3. /\ x \in 1..(StackSlots + 4) /\ x \in Slots /\ ptr \in Pointers
        /\ x - 1 \in 1..(StackSlots + 4) /\ x - 1 \in Slots
        /\ \A i \in 1..d : i \in Slots /\ i # x /\ i # x - 1
    BY <1>1 DEF Slots, Pointers, Pushed
  <1>4. \A v : Slot(v).val = v
    BY DEF Slot
  <1>5. /\ m.stack[t][x] = [val |-> mine[t]["high"], ext |-> UsesFpu(t)]
        /\ \A i \in 1..d : m.stack[t][i] = Slot(Frame(t))
    <2>1. CASE UsesFpu(t)
      <3>1. UsesFpu(t) = TRUE
        BY <1>1, <2>1
      <3> QED
        BY <2>1, <3>1 DEF OnStack, Pushed, Frames
    <2>2. CASE ~UsesFpu(t)
      <3>1. UsesFpu(t) = FALSE
        BY <1>1, <2>2
      <3> QED
        BY <2>2, <3>1 DEF OnStack, Pushed, Frames
    <2> QED
      BY <2>1, <2>2
  <1>6. /\ at \in HwType /\ at.psp = ptr /\ at.stack = m.stack /\ at.regs = m.regs
        /\ top(at) = m.stack[t][x]
    BY <1>3 DEF HwType, top
  <1> HIDE DEF x, at, d
  <1>7. /\ q \in HwType
        /\ q.psp = [base |-> t, used |-> x - 1]
        /\ q.regs["high"] = at.stack[t][x].val
        /\ OthersKept(at, q, t)
        /\ \A i \in Slots \ {x} : q.stack[t][i] = at.stack[t][i]
    BY <1>2, <1>3, <1>6, PopOff
  <1> HIDE DEF q
  <1>8. top(at).ext = UsesFpu(t)
    BY <1>5, <1>6
  <1>9. /\ n \in HwType /\ n.psp = q.psp /\ n.regs = q.regs /\ n.stack = q.stack
        /\ n.fpca = UsesFpu(t)
    BY <1>1, <1>7, <1>8 DEF HwType
  <1>10. e = IF n.fpca THEN pop(n, "s16") ELSE n
    BY DEF restore_context, at, q
  <1> HIDE DEF n, e
  <1>11. /\ n.psp = [base |-> t, used |-> x - 1]
         /\ n.regs["high"] = mine[t]["high"]
         /\ OthersKept(m, n, t)
         /\ \A i \in Slots \ {x} : n.stack[t][i] = m.stack[t][i]
    BY <1>5, <1>6, <1>7, <1>9 DEF OthersKept
  <1>12. CASE ~UsesFpu(t)
    <2>1. e = n
      BY <1>9, <1>10, <1>12
    <2>2. x - 1 = d + 1
      BY <1>1, <1>12 DEF x, Pushed, d
    <2>3. m.stack[t][d + 1] = Slot(mine[t]["low"])
      BY <1>12 DEF OnStack, d
    <2>4. n.stack[t][d + 1] = Slot(mine[t]["low"])
      BY <1>3, <1>11, <2>2, <2>3 DEF Slots
    <2>5. Frames(n, t)
      BY <1>3, <1>5, <1>11 DEF Frames, d
    <2>6. Entered(n, t)
      BY <1>9, <1>11, <1>12, <2>2, <2>4, <2>5 DEF Entered, d
    <2> QED
      BY <1>9, <1>11, <2>1, <2>6 DEF e, x, d
  <1>13. CASE UsesFpu(t)
    <2> DEFINE p == pop(n, "s16")
    <2>1. e = p
      BY <1>9, <1>10, <1>13
    <2>2. x - 1 = d + 3 /\ (x - 1) - 1 = d + 2 /\ d + 1 \in Slots /\ d + 2 \in Slots
          /\ d + 1 # x /\ d + 2 # x /\ d + 3 # x /\ d + 1 # d + 3 /\ d + 2 # d + 3
      BY <1>1, <1>13 DEF x, Pushed, d, Slots
    <2>3. /\ m.stack[t][d + 1] = Slot(mine[t]["s0"])
          /\ m.stack[t][d + 2] = Slot(mine[t]["low"])
          /\ m.stack[t][d + 3] = Slot(mine[t]["s16"])
      BY <1>13 DEF OnStack, d
    <2>4. /\ n.stack[t][d + 1] = Slot(mine[t]["s0"])
          /\ n.stack[t][d + 2] = Slot(mine[t]["low"])
          /\ n.stack[t][d + 3] = Slot(mine[t]["s16"])
      BY <1>3, <1>11, <2>2, <2>3
    <2>5. /\ p \in HwType
          /\ p.psp = [base |-> t, used |-> d + 2]
          /\ p.regs["s16"] = n.stack[t][d + 3].val
          /\ \A h \in Groups \ {"s16"} : p.regs[h] = n.regs[h]
          /\ p.fpca = n.fpca
          /\ OthersKept(n, p, t)
          /\ \A i \in Slots \ {d + 3} : p.stack[t][i] = n.stack[t][i]
      BY <1>2, <1>3, <1>9, <1>11, <2>2, PopOff
    <2> HIDE DEF p
    <2>6. p.stack[t][d + 1] = Slot(mine[t]["s0"]) /\ p.stack[t][d + 2] = Slot(mine[t]["low"])
      BY <2>2, <2>4, <2>5
    <2>7. p.regs["s16"] = mine[t]["s16"] /\ p.regs["high"] = mine[t]["high"]
      BY <1>2, <1>4, <1>11, <2>4, <2>5
    <2>8. Frames(p, t)
      BY <1>3, <1>5, <1>11, <2>2, <2>5 DEF Frames, d
    <2>9. Entered(p, t)
      BY <1>9, <1>13, <2>5, <2>6, <2>7, <2>8 DEF Entered, d
    <2>10. OthersKept(m, p, t)
      BY <1>11, <2>5 DEF OthersKept
    <2> QED
      BY <2>1, <2>5, <2>9, <2>10 DEF e, x, d
  <1> QED
    BY <1>1, <1>12, <1>13 DEF e, x, d
----------------------------------------------------------------------------
(* The steps *)

LEMMA SavedKept ==
    ASSUME NEW m, NEW n, NEW q, NEW t \in Task, SavedIn(m, q, t), n.stack[t] = m.stack[t]
    PROVE  SavedIn(n, q, t)
  BY DEF SavedIn, OnStack, Frames

LEMMA SavedStep ==
    ASSUME NEW t \in Task, Saved(t), hw'.stack[t] = hw.stack[t], sp'[t] = sp[t],
           mine'[t] = mine[t], depth'[t] = depth[t]
    PROVE  Saved(t)'
  BY DEF Saved, SavedIn, OnStack, Frames, Pushed, UsesFpu

LEMMA LoadedStep ==
    ASSUME NEW t \in Task, NEW m, Loaded(m, t), m = hw',
           mine'[t] = mine[t], depth'[t] = depth[t]
    PROVE  Loaded(hw, t)'
  BY DEF Loaded, Frames, UsesFpu

\* No task comes to be or ceases to be.
SameTasks == \A t \in Task : kern'.state[t] = "Free" <=> kern.state[t] = "Free"

\* A step of the scheduler that is no switch and creates no task.
LEMMA SchedulerOnly ==
    ASSUME ContextInv, IInv', SameTasks,
           UNCHANGED <<current_task, started, hw, sp, mine, depth>>,
           panic' = "none" => panic = "none"
    PROVE  ContextInv'
  <1>1. /\ hw' \in HwType /\ sp' \in [Task -> Pointers] /\ HistoryOK'
        /\ started' => (hw'.psp = NullPtr <=> current_task' = NoTask)
    BY DEF ContextInv, HistoryOK, MineExact
  <1>2. Fresh' /\ CurrentLive'
    BY DEF ContextInv, Fresh, CurrentLive, SameTasks, IInv, TypeOK
  <1>3. \A t \in Task \ {current_task'} : kern'.state[t] # "Free" => Saved(t)'
    BY SavedStep DEF ContextInv, SameTasks
  <1>4. panic' = "none" /\ current_task' # NoTask => Loaded(hw, current_task)'
    BY LoadedStep DEF ContextInv, IInv, TypeOK
  <1> QED
    BY <1>1, <1>2, <1>3, <1>4 DEF ContextInv

\* A step that changes the registers, the stack or the history of the current
\* task t.
LEMMA CurrentStep ==
    ASSUME ContextInv, IInv', SameTasks, NEW t \in Task, current_task = t,
           UNCHANGED <<current_task, started, sp>>,
           hw' \in HwType, OthersKept(hw, hw', t), hw'.psp # NullPtr,
           HistoryOK',
           \A v \in Task \ {t} : mine'[v] = mine[v] /\ depth'[v] = depth[v],
           panic' = "none" => Loaded(hw, t)'
    PROVE  ContextInv'
  <1>1. t # NoTask
    BY KernelAssumption
  <1>2. /\ sp' \in [Task -> Pointers]
        /\ started' => (hw'.psp = NullPtr <=> current_task' = NoTask)
    BY <1>1 DEF ContextInv
  <1>3. CurrentLive' /\ kern'.state[t] # "Free"
    BY <1>1 DEF ContextInv, CurrentLive, SameTasks
  <1>4. Fresh'
    BY <1>3 DEF ContextInv, Fresh, SameTasks
  <1>5. \A v \in Task \ {current_task'} : kern'.state[v] # "Free" => Saved(v)'
    BY SavedStep DEF ContextInv, SameTasks, OthersKept
  <1>6. panic' = "none" /\ current_task' # NoTask => Loaded(hw, current_task)'
    BY DEF Loaded, Frames, UsesFpu
  <1> QED
    BY <1>2, <1>3, <1>4, <1>5, <1>6 DEF ContextInv

\* What is known of the current task.
LEMMA Current ==
    ASSUME ContextInv, NEW t \in Task, current_task = t, panic = "none"
    PROVE  /\ hw \in HwType /\ HistoryOK /\ Loaded(hw, t) /\ t # NoTask
           /\ hw.psp # NullPtr
  BY KernelAssumption DEF ContextInv, Loaded, NullPtr

LEMMA Loading ==
    ASSUME NEW m, NEW t \in Task, Loaded(m, t)
    PROVE  m.psp # NullPtr
  BY KernelAssumption DEF Loaded, NullPtr
----------------------------------------------------------------------------
(* The code of the tasks *)

LEMMA ComputeStep ==
    ASSUME ContextInv, NEW t \in Task, NEW G \in {{"low", "high"}, {"s0", "s16"}},
           Compute(t, G)
    PROVE  ContextInv'
  <1> DEFINE w == [g \in Groups |-> <<g, t, 1 - mine[t][g][3]>>]
             r == [g \in Groups |-> IF g \in G THEN w[g] ELSE hw.regs[g]]
             o == [g \in Groups |-> IF g \in G THEN w[g] ELSE mine[t][g]]
             f == hw.fpca \/ "s0" \in G
  <1>1. /\ current_task = t /\ panic = "none"
        /\ hw' = [hw EXCEPT !.regs = r, !.fpca = f]
        /\ mine' = [mine EXCEPT ![t] = o]
        /\ UNCHANGED <<svars, sp, depth>>
    BY DEF Compute, Thread
  <1>2. /\ hw \in HwType /\ HistoryOK /\ Loaded(hw, t) /\ t # NoTask /\ hw.psp # NullPtr
    BY <1>1, Current
  <1>3. /\ "low" \in Groups /\ "high" \in Groups /\ "s0" \in Groups /\ "s16" \in Groups
        /\ \A g \in Groups : g \in {"low", "high", "s0", "s16"}
        /\ "low" # "s0" /\ "high" # "s0" /\ "low" # "s16" /\ "high" # "s16"
    BY DEF Groups
  <1>4. \A g \in Groups : mine[t][g] \in Written(g, t) \cup {Junk}
    BY <1>2, <1>3 DEF HistoryOK, MineExact
  <1>5. \A g \in Groups : w[g] \in Written(g, t)
    <2> SUFFICES ASSUME NEW g \in Groups PROVE w[g] \in Written(g, t)
      OBVIOUS
    <2>1. mine[t][g][3] = 0 \/ mine[t][g][3] = 1
      BY <1>4 DEF Written, Junk
    <2> QED
      BY <2>1 DEF Written
  <1>6. \A g \in Groups : \A x \in Written(g, t) : x \in Values /\ x # Junk
    <2>1. \A g \in Groups : g # "junk"
      BY DEF Groups
    <2> SUFFICES ASSUME NEW g \in Groups, NEW x \in Written(g, t)
                 PROVE  x \in Values /\ x # Junk
      OBVIOUS
    <2>2. x = <<g, t, 0>> \/ x = <<g, t, 1>>
      BY DEF Written
    <2>3. x \in Values
      BY <2>2 DEF Values
    <2>4. x # Junk
      BY <2>1, <2>2 DEF Junk
    <2> QED
      BY <2>3, <2>4
  <1> HIDE DEF w
  <1>7. r \in [Groups -> Values] /\ o \in [Groups -> Values] /\ f \in BOOLEAN
    <2>1. hw.regs \in [Groups -> Values] /\ mine[t] \in [Groups -> Values]
          /\ hw.fpca \in BOOLEAN
      BY <1>2, HwFields DEF HistoryOK
    <2>2. \A g \in Groups : w[g] \in Values
      BY <1>5, <1>6
    <2> QED
      BY <2>1, <2>2
  <1>8. \A g \in Groups : /\ r[g] = IF g \in G THEN w[g] ELSE hw.regs[g]
                          /\ o[g] = IF g \in G THEN w[g] ELSE mine[t][g]
    OBVIOUS
  <1> HIDE DEF r, o, f
  <1>9. /\ hw' \in HwType /\ hw'.psp = hw.psp /\ hw'.stack = hw.stack
        /\ hw'.regs = r /\ hw'.fpca = f
    BY <1>1, <1>2, <1>7 DEF HwType
  <1>10. \A v \in Task : mine'[v] = IF v = t THEN o ELSE mine[v]
    BY <1>1, <1>2 DEF HistoryOK
  <1>11. mine' \in [Task -> [Groups -> Values]]
    BY <1>1, <1>2, <1>7 DEF HistoryOK
  <1>12. CASE G = {"low", "high"}
    <2>1. /\ o["low"] = w["low"] /\ o["high"] = w["high"]
          /\ o["s0"] = mine[t]["s0"] /\ o["s16"] = mine[t]["s16"]
      BY <1>3, <1>8, <1>12
    <2>2. HistoryOK'
      <3>1. MineExact'
        BY <1>2, <1>3, <1>5, <1>10, <2>1 DEF HistoryOK, MineExact
      <3> QED
        BY <1>1, <1>2, <1>11, <3>1 DEF HistoryOK
    <2>3. f = hw.fpca
      <3>1. hw.fpca = TRUE \/ hw.fpca = FALSE
        BY <1>2, HwFields
      <3>2. "s0" \notin G
        BY <1>3, <1>12
      <3> QED
        BY <3>1, <3>2 DEF f
    <2>4. \A g \in Groups : o[g] # Junk => r[g] = o[g]
      BY <1>2, <1>8 DEF Loaded
    <2>5. Loaded(hw, t)'
      BY <1>1, <1>2, <1>9, <1>10, <2>1, <2>3, <2>4 DEF Loaded, Frames, UsesFpu
    <2>6. IInv' /\ SameTasks
      BY <1>1, SameScheduler DEF ContextInv, SameTasks, svars
    <2> QED
      BY <1>1, <1>2, <1>9, <1>10, <2>2, <2>5, <2>6, CurrentStep DEF OthersKept, svars
  <1>13. CASE G = {"s0", "s16"}
    <2>1. /\ o["s0"] = w["s0"] /\ o["s16"] = w["s16"]
          /\ o["low"] = mine[t]["low"] /\ o["high"] = mine[t]["high"]
      BY <1>3, <1>8, <1>13
    <2>2. HistoryOK'
      <3>1. MineExact'
        BY <1>2, <1>3, <1>5, <1>10, <2>1 DEF HistoryOK, MineExact
      <3> QED
        BY <1>1, <1>2, <1>11, <3>1 DEF HistoryOK
    <2>3. f = TRUE /\ o["s0"] # Junk
      BY <1>3, <1>5, <1>6, <1>13, <2>1 DEF f
    <2>4. \A g \in Groups : o[g] # Junk => r[g] = o[g]
      BY <1>2, <1>8 DEF Loaded
    <2>5. Loaded(hw, t)'
      <3>1. mine'[t] = o
        BY <1>10
      <3>2. UsesFpu(t)' = TRUE /\ hw'.fpca = TRUE
        BY <1>9, <2>3, <3>1 DEF UsesFpu
      <3>3. hw'.psp = [base |-> t, used |-> depth'[t]] /\ Frames(hw, t)'
        BY <1>1, <1>2, <1>9 DEF Loaded, Frames
      <3>4. \A g \in Groups : mine'[t][g] # Junk => hw'.regs[g] = mine'[t][g]
        BY <1>9, <2>4, <3>1
      <3> QED
        BY <3>2, <3>3, <3>4 DEF Loaded
    <2>6. IInv' /\ SameTasks
      BY <1>1, SameScheduler DEF ContextInv, SameTasks, svars
    <2> QED
      BY <1>1, <1>2, <1>9, <1>10, <2>2, <2>5, <2>6, CurrentStep DEF OthersKept, svars
  <1> QED
    BY <1>12, <1>13

LEMMA EnterStep ==
    ASSUME ContextInv, NEW t \in Task, Enter(t)
    PROVE  ContextInv'
  <1> DEFINE d == depth[t]
  <1>1. /\ current_task = t /\ panic = "none" /\ d < StackSlots
        /\ hw' = push(hw, Slot(Frame(t)))
        /\ depth' = [depth EXCEPT ![t] = d + 1]
        /\ UNCHANGED <<svars, sp, mine>>
    BY DEF Enter, Thread
  <1>2. /\ hw \in HwType /\ HistoryOK /\ Loaded(hw, t) /\ t # NoTask /\ hw.psp # NullPtr
    BY <1>1, Current
  <1>3. d \in 0..StackSlots /\ d \in Int /\ StackSlots \in Nat /\ d + 1 \in 0..StackSlots
        /\ d \in 0..(StackSlots + 3)
    BY <1>1, <1>2, Histories
  <1>4. Slot(Frame(t)) \in SlotType
    <2>1. Frame(t) \in Values
      BY DEF Frame, Values
    <2> QED
      BY <2>1, SlotTypes
  <1>5. hw.psp = [base |-> t, used |-> d]
    BY <1>2 DEF Loaded
  <1>6. /\ hw' \in HwType
        /\ hw'.psp = [base |-> t, used |-> d + 1]
        /\ hw'.regs = hw.regs
        /\ hw'.fpca = hw.fpca
        /\ OthersKept(hw, hw', t)
        /\ hw'.stack[t][d + 1] = Slot(Frame(t))
        /\ \A i \in Slots \ {d + 1} : hw'.stack[t][i] = hw.stack[t][i]
    BY <1>1, <1>2, <1>3, <1>4, <1>5, PushOn
  <1>7. \A v \in Task : depth'[v] = IF v = t THEN d + 1 ELSE depth[v]
    BY <1>1, <1>2 DEF HistoryOK
  <1>8. HistoryOK'
    <2>1. depth' \in [Task -> 0..StackSlots]
      BY <1>1, <1>2, <1>3 DEF HistoryOK
    <2> QED
      BY <1>1, <1>2, <2>1 DEF HistoryOK, MineExact
  <1>9. \A i \in 1..(d + 1) : hw'.stack[t][i] = Slot(Frame(t))
    <2>1. \A i \in 1..(d + 1) : i = d + 1 \/ (i \in 1..d /\ i \in Slots /\ i # d + 1)
      BY <1>3 DEF Slots
    <2> QED
      BY <1>2, <1>6, <2>1 DEF Loaded, Frames
  <1>10. Loaded(hw, t)'
    BY <1>1, <1>2, <1>6, <1>7, <1>9 DEF Loaded, Frames, UsesFpu
  <1>11. IInv' /\ SameTasks
    BY <1>1, SameScheduler DEF ContextInv, SameTasks, svars
  <1>12. hw'.psp # NullPtr
    BY <1>2, <1>6 DEF NullPtr
  <1> QED
    BY <1>1, <1>6, <1>7, <1>8, <1>10, <1>11, <1>12, CurrentStep DEF svars

LEMMA ExitStep ==
    ASSUME ContextInv, NEW t \in Task, Exit(t)
    PROVE  ContextInv'
  <1> DEFINE d == depth[t]
  <1>1. /\ current_task = t /\ panic = "none" /\ d > 0
        /\ hw' = drop(hw)
        /\ depth' = [depth EXCEPT ![t] = d - 1]
        /\ UNCHANGED <<svars, sp, mine>>
    BY DEF Exit, Thread
  <1>2. /\ hw \in HwType /\ HistoryOK /\ Loaded(hw, t) /\ t # NoTask /\ hw.psp # NullPtr
    BY <1>1, Current
  <1>3. d \in 0..StackSlots /\ d \in Int /\ StackSlots \in Nat /\ d - 1 \in 0..StackSlots
        /\ d \in Slots
    BY <1>1, <1>2, Histories DEF Slots
  <1>4. hw.psp.base = t /\ hw.psp.used = d
    BY <1>2 DEF Loaded
  <1>5. /\ hw' \in HwType
        /\ hw'.psp = [base |-> t, used |-> d - 1]
        /\ hw'.regs = hw.regs
        /\ hw'.fpca = hw.fpca
        /\ hw'.stack = [hw.stack EXCEPT ![t] = [hw.stack[t] EXCEPT ![d] = Slot(Junk)]]
    BY <1>1, <1>2, <1>4, Drop
  <1>6. hw.stack \in [Task -> [Slots -> SlotType]] /\ hw.stack[t] \in [Slots -> SlotType]
    BY <1>2, HwFields
  <1>7. /\ hw'.stack[t] = [hw.stack[t] EXCEPT ![d] = Slot(Junk)]
        /\ OthersKept(hw, hw', t)
    BY <1>5, <1>6 DEF OthersKept
  <1>8. \A v \in Task : depth'[v] = IF v = t THEN d - 1 ELSE depth[v]
    BY <1>1, <1>2 DEF HistoryOK
  <1>9. HistoryOK'
    <2>1. depth' \in [Task -> 0..StackSlots]
      BY <1>1, <1>2, <1>3 DEF HistoryOK
    <2> QED
      BY <1>1, <1>2, <2>1 DEF HistoryOK, MineExact
  <1>10. \A i \in 1..(d - 1) : hw'.stack[t][i] = Slot(Frame(t))
    <2>1. \A i \in 1..(d - 1) : i \in 1..d /\ i \in Slots /\ i # d
      BY <1>3 DEF Slots
    <2> QED
      BY <1>2, <1>6, <1>7, <2>1 DEF Loaded, Frames
  <1>11. Loaded(hw, t)'
    BY <1>1, <1>2, <1>5, <1>8, <1>10 DEF Loaded, Frames, UsesFpu
  <1>12. IInv' /\ SameTasks
    BY <1>1, SameScheduler DEF ContextInv, SameTasks, svars
  <1>13. hw'.psp # NullPtr
    BY <1>2, <1>5 DEF NullPtr
  <1> QED
    BY <1>1, <1>5, <1>7, <1>8, <1>9, <1>11, <1>12, <1>13, CurrentStep DEF svars
----------------------------------------------------------------------------
(* The port and the scheduler *)

\* The frames of a new task are those of a task that has been switched away
\* from before its first instruction.
LEMMA InitTaskStack ==
    ASSUME HistoryOK, NEW m \in HwType, NEW u \in Task, depth[u] = 0,
           mine[u] = [g \in Groups |-> IF g \in {"low", "high"} THEN <<g, u, 0>> ELSE Junk]
    PROVE  LET n == init_task_stack(m, u)
           IN  /\ n \in HwType /\ n.psp = m.psp /\ n.regs = m.regs /\ n.fpca = m.fpca
               /\ OthersKept(m, n, u)
               /\ SavedIn(n, [base |-> u, used |-> 2], u)
  <1> DEFINE n == init_task_stack(m, u)
             f == [i \in Slots |-> CASE i = 1 -> Slot(<<"low", u, 0>>)
                                     [] i = 2 -> Slot(<<"high", u, 0>>)
                                     [] i = StackSlots -> Slot(Canary)
                                     [] OTHER -> Slot(Junk)]
             st == [m.stack EXCEPT ![u] = f]
  <1>1. /\ StackSlots \in Nat /\ StackSlots > 2 /\ 1 \in Slots /\ 2 \in Slots
        /\ StackSlots \in Slots
    BY ContextAssumption DEF Slots
  <1>2. /\ <<"low", u, 0>> \in Values /\ <<"high", u, 0>> \in Values
        /\ Canary \in Values /\ Junk \in Values
    BY DEF Values, Groups
  <1>3. /\ Slot(<<"low", u, 0>>) \in SlotType /\ Slot(<<"high", u, 0>>) \in SlotType
        /\ Slot(Canary) \in SlotType /\ Slot(Junk) \in SlotType
    BY <1>2, SlotTypes
  <1>4. /\ f \in [Slots -> SlotType]
        /\ f[1] = Slot(<<"low", u, 0>>) /\ f[2] = Slot(<<"high", u, 0>>)
        /\ f[StackSlots] = Slot(Canary)
    BY <1>1, <1>3
  <1>5. n = [m EXCEPT !.stack = st]
    BY DEF init_task_stack, HwType
  <1> HIDE DEF f
  <1>6. /\ st \in [Task -> [Slots -> SlotType]] /\ st[u] = f
        /\ \A v \in Task \ {u} : st[v] = m.stack[v]
    BY <1>4, HwFields
  <1> HIDE DEF st
  <1>7. /\ n \in HwType /\ n.psp = m.psp /\ n.regs = m.regs /\ n.fpca = m.fpca
        /\ n.stack = st
    BY <1>5, <1>6 DEF HwType
  <1> HIDE DEF n
  <1>8. /\ mine[u]["low"] = <<"low", u, 0>> /\ mine[u]["high"] = <<"high", u, 0>>
        /\ ~UsesFpu(u)
    BY DEF Groups, UsesFpu
  <1>9. OnStack(n, u)
    <2>1. Frames(n, u)
      BY DEF Frames
    <2>2. Slot(<<"high", u, 0>>) = [val |-> mine[u]["high"], ext |-> FALSE]
      BY <1>8 DEF Slot
    <2>3. n.stack[u][0 + 1] = Slot(mine[u]["low"])
          /\ n.stack[u][0 + 2] = [val |-> mine[u]["high"], ext |-> FALSE]
      BY <1>4, <1>6, <1>7, <1>8, <2>2
    <2> QED
      BY <1>8, <2>1, <2>3 DEF OnStack
  <1>10. n.stack[u][StackSlots].val = Canary
    BY <1>4, <1>6, <1>7 DEF Slot
  <1>11. SavedIn(n, [base |-> u, used |-> 2], u)
    <2>1. depth[u] + Pushed(u) = 2
      BY <1>8 DEF Pushed
    <2> QED
      BY <1>1, <1>9, <1>10, <2>1 DEF SavedIn
  <1> QED
    BY <1>6, <1>7, <1>11 DEF OthersKept, n

\* create_task and start(): the stack of u is nobody's yet.
LEMMA NewStack ==
    ASSUME ContextInv, IInv', NEW u \in Task, kern.state[u] = "Free",
           \A t \in Task : kern'.state[t] = "Free" <=> (kern.state[t] = "Free" /\ t # u),
           NEW m \in HwType, m.regs = hw.regs, m.fpca = hw.fpca, m.stack = hw.stack,
           m.psp = hw.psp \/ current_task = NoTask,
           started' => (m.psp = NullPtr <=> current_task = NoTask),
           new_stack(u, m), UNCHANGED <<current_task, panic>>
    PROVE  ContextInv'
  <1> DEFINE p == [base |-> u, used |-> 2]
  <1>1. /\ hw' = init_task_stack(m, u) /\ sp' = [sp EXCEPT ![u] = p]
        /\ UNCHANGED <<mine, depth>>
    BY DEF new_stack
  <1>2. HistoryOK /\ HistoryOK' /\ hw \in HwType
    BY <1>1 DEF ContextInv, HistoryOK, MineExact
  <1>3. /\ depth[u] = 0
        /\ mine[u] = [g \in Groups |-> IF g \in {"low", "high"} THEN <<g, u, 0>> ELSE Junk]
    BY DEF ContextInv, Fresh
  <1>4. /\ hw' \in HwType /\ hw'.psp = m.psp /\ hw'.regs = hw.regs /\ hw'.fpca = hw.fpca
        /\ OthersKept(hw, hw', u)
        /\ SavedIn(hw', p, u)
    BY <1>1, <1>2, <1>3, InitTaskStack DEF OthersKept
  <1>5. /\ sp' \in [Task -> Pointers] /\ sp'[u] = p
        /\ \A v \in Task \ {u} : sp'[v] = sp[v]
    <2>1. p \in Pointers
      BY ContextAssumption DEF Pointers, Slots
    <2>2. sp \in [Task -> Pointers]
      BY DEF ContextInv
    <2> HIDE DEF p
    <2> QED
      BY <1>1, <2>1, <2>2
  <1>6. current_task # u
    BY KernelAssumption DEF ContextInv, CurrentLive
  <1>7. CurrentLive'
    BY <1>6 DEF ContextInv, CurrentLive, IInv, TypeOK
  <1>8. Fresh'
    BY <1>1 DEF ContextInv, Fresh
  <1>9. Saved(u)'
    BY <1>1, <1>4, <1>5 DEF Saved, SavedIn, OnStack, Frames, Pushed, UsesFpu
  <1>10. \A v \in Task \ {current_task'} : kern'.state[v] # "Free" => Saved(v)'
    <2> SUFFICES ASSUME NEW v \in Task \ {current_task}, kern'.state[v] # "Free", v # u
                 PROVE  Saved(v)'
      BY <1>9
    <2>1. Saved(v)
      BY DEF ContextInv
    <2> QED
      BY <1>1, <1>4, <1>5, <2>1, SavedStep DEF OthersKept
  <1>11. panic' = "none" /\ current_task' # NoTask => Loaded(hw, current_task)'
    <2> SUFFICES ASSUME panic = "none", current_task # NoTask
                 PROVE  Loaded(hw, current_task)'
      OBVIOUS
    <2>1. current_task \in Task /\ Loaded(hw, current_task)
      BY DEF ContextInv, IInv, TypeOK
    <2>2. hw'.psp = hw.psp /\ hw'.stack[current_task] = hw.stack[current_task]
      BY <1>4, <1>6, <2>1 DEF OthersKept
    <2> QED
      BY <1>1, <1>4, <2>1, <2>2 DEF Loaded, Frames, UsesFpu
  <1>12. started' => (hw'.psp = NullPtr <=> current_task' = NoTask)
    BY <1>4
  <1> QED
    BY <1>2, <1>4, <1>5, <1>7, <1>8, <1>10, <1>11, <1>12 DEF ContextInv

LEMMA MainCreateContext ==
    ASSUME ContextInv, NEW u \in Task, NEW p \in TaskPriority[u],
           MainCreate(u, p), new_stack(u, hw)
    PROVE  ContextInv'
  <1>1. /\ IInv /\ kern.state[u] = "Free" /\ p \in Priorities /\ ~started'
        /\ kern' = add_to_ready_queue(allocate_tcb(kern, u, p), u)
        /\ UNCHANGED <<current_task, panic>>
    BY SchedulerAssumption DEF MainCreate, ContextInv
  <1>2. IInv'
    BY <1>1, NextInv DEF SchedNext
  <1>3. \A t \in Task : kern'.state[t] = IF t = u THEN "Ready" ELSE kern.state[t]
    BY <1>1, BootStates
  <1> QED
    BY <1>1, <1>2, <1>3, NewStack DEF ContextInv

LEMMA StartContext ==
    ASSUME ContextInv, start_hardware
    PROVE  ContextInv'
  <1> DEFINE m == [hw EXCEPT !.psp = NullPtr]
  <1>1. start /\ new_stack(Idle, m)
    BY DEF start_hardware
  <1>2. /\ IInv /\ Idle \in Task /\ kern.state[Idle] = "Free" /\ current_task = NoTask
        /\ kern' = add_to_ready_queue(allocate_tcb(kern, Idle, 0), Idle)
        /\ UNCHANGED <<current_task, panic>>
    BY <1>1, SchedulerAssumption DEF start, ContextInv, IInv, IdleReady
  <1>3. IInv'
    BY <1>1, <1>2, NextInv DEF SchedNext
  <1>4. 0 \in Priorities
    BY KernelAssumption DEF Priorities
  <1>5. \A t \in Task : kern'.state[t] = IF t = Idle THEN "Ready" ELSE kern.state[t]
    BY <1>2, <1>4, BootStates
  <1>6. /\ m \in HwType /\ m.psp = NullPtr /\ m.regs = hw.regs /\ m.fpca = hw.fpca
        /\ m.stack = hw.stack
    <2>1. NullPtr \in Pointers
      BY ContextAssumption DEF NullPtr, Pointers, Slots
    <2> QED
      BY <2>1 DEF ContextInv, HwType
  <1> HIDE DEF m
  <1> QED
    BY <1>1, <1>2, <1>3, <1>5, <1>6, NewStack

LEMMA CreateTaskContext ==
    ASSUME ContextInv, NEW t \in Task, NEW u \in Task, NEW p \in TaskPriority[u],
           create_task(t, u, p), new_stack(u, hw)
    PROVE  ContextInv'
  <1>1. /\ IInv /\ kern.state[u] = "Free" /\ p \in Priorities
        /\ kern' = allocate_tcb(kern, u, p)
        /\ UNCHANGED <<current_task, started, panic>>
    BY SchedulerAssumption DEF create_task, create_task_impl, ContextInv
  <1>2. IInv'
    BY <1>1, CreateTaskStep
  <1>3. \A v \in Task : kern'.state[v] = IF v = u THEN "Suspended" ELSE kern.state[v]
    BY <1>1, AllocateStep
  <1> QED
    BY <1>1, <1>2, <1>3, NewStack DEF ContextInv

\* An interrupt leaves the registers and the calls of the task it interrupts.
LEMMA SysTickContext ==
    ASSUME ContextInv, SysTick_Handler
    PROVE  ContextInv'
  <1>1. /\ IInv /\ tick /\ started /\ panic = "none"
        /\ UNCHANGED <<current_task, started, panic, sp, mine, depth>>
        /\ hw' = exception_return(exception_entry(hw))
    BY DEF SysTick_Handler, tick, ContextInv
  <1>2. IInv'
    BY <1>1, TickStep
  <1>3. SameTasks
    <2>1. \A t \in Task : \/ kern'.state[t] = kern.state[t]
                          \/ kern.state[t] = "Blocked" /\ kern'.state[t] = "Ready"
      BY <1>1, Basics, DelayTick DEF tick
    <2> QED
      BY <2>1 DEF SameTasks
  <1>4. CASE current_task = NoTask
    <2>1. hw.psp = NullPtr
      BY <1>1, <1>4 DEF ContextInv
    <2>2. hw' = hw
      BY <1>1, <2>1 DEF exception_entry, exception_return
    <2> QED
      BY <1>1, <1>2, <1>3, <2>2, SchedulerOnly
  <1>5. CASE current_task # NoTask
    <2> DEFINE t == current_task
               e == exception_entry(hw)
    <2>1. t \in Task
      BY <1>1, <1>5 DEF IInv, TypeOK
    <2>2. hw \in HwType /\ HistoryOK /\ Loaded(hw, t)
      BY <1>1, <2>1, Current
    <2>3. e \in HwType /\ Entered(e, t) /\ OthersKept(hw, e, t)
      BY <2>1, <2>2, ExceptionEntry
    <2> HIDE DEF e
    <2>4. hw' \in HwType /\ Loaded(hw', t) /\ OthersKept(e, hw', t)
      BY <1>1, <2>1, <2>2, <2>3, ExceptionReturn DEF e
    <2>5. OthersKept(hw, hw', t)
      BY <2>3, <2>4 DEF OthersKept
    <2>6. hw'.psp # NullPtr
      BY <2>1, <2>4, Loading
    <2>7. HistoryOK' /\ Loaded(hw, t)'
      BY <1>1, <2>2, <2>4 DEF HistoryOK, MineExact, Loaded, Frames, UsesFpu
    <2> QED
      BY <1>1, <1>2, <1>3, <2>1, <2>4, <2>5, <2>6, <2>7, CurrentStep
  <1> QED
    BY <1>4, <1>5

\* The calls of a running task create nobody: what they act on exists.
LEMMA TaskStepStates ==
    ASSUME IInv, NEW t \in Task, TaskStep(t)
    PROVE  /\ SameTasks /\ panic = "none"
           /\ UNCHANGED <<current_task, started>>
  <1>1. panic = "none" /\ UNCHANGED <<current_task, started>>
    BY DEF TaskStep, Proceed, task_yield, create_task_ready, suspend_task, resume_task,
           delete_task, delay_ms, delay_until, sleep, suspend_check, resume_check,
           delete_check, sleep_return, AssertFails, Inside, Calls, Thread
  <1> SUFFICES SameTasks
    BY <1>1
  <1>2. ASSUME NEW u \in Task, kern.state[u] = "Suspended",
               kern' = add_to_ready_queue(kern, u)
        PROVE  SameTasks
    <2>1. \A v \in Task : kern'.state[v] = IF v = u THEN "Ready" ELSE kern.state[v]
      BY <1>2, Basics, ReadyEffect
    <2> QED
      BY <1>2, <2>1 DEF SameTasks
  <1>3. ASSUME NEW u \in Task, kern.state[u] # "Free", NEW x \in {"Suspended", "Deleted"},
               kern' = [unlink(kern, u) EXCEPT !.state[u] = x]
        PROVE  SameTasks
    <2>1. unlink(kern, u) \in KernelType /\ unlink(kern, u).state = kern.state
      BY Basics, Unlink
    <2>2. \A v \in Task : kern'.state[v] = IF v = u THEN x ELSE kern.state[v]
      BY <1>3, <2>1 DEF KernelType
    <2> QED
      BY <1>3, <2>2 DEF SameTasks
  <1>4. CASE kern' = kern
    BY <1>4 DEF SameTasks
  <1>5. CASE create_task_ready(t)
    BY <1>2, <1>5 DEF create_task_ready, Inside, IInv, CallArgs
  <1>6. CASE suspend_task(t)
    BY <1>3, <1>4, <1>6 DEF suspend_task, Inside, IInv, CallArgs
  <1>7. CASE resume_task(t)
    BY <1>2, <1>4, <1>7 DEF resume_task, resumable, Inside, IInv, CallArgs
  <1>8. CASE delete_task(t)
    BY <1>3, <1>8 DEF delete_task, Inside, IInv, CallArgs
  <1>9. ASSUME NEW op, NEW arg, NEW n \in Nat \ {0}, Thread(t), call[t] = NoCall,
               sleep(t, op, arg, n)
        PROVE  SameTasks
    <2> DEFINE k == [kern EXCEPT !.state[t] = "Blocked"]
    <2>1. CASE in_delay_list(kern, t)
      BY <1>4, <1>9, <2>1 DEF sleep, AssertFails
    <2>2. CASE ~in_delay_list(kern, t)
      <3>1. kern' = delay_insert(k, t, n)
        BY <1>9, <2>2 DEF sleep
      <3>2. kern.state[t] = "Running"
        BY <1>9, Basics, RunningThread
      <3>3. Loose(kern, t) /\ Consistent(kern, {t}) /\ "Blocked" \in TaskStates
        BY <3>2, Basics, NotListed, InHand DEF TaskStates
      <3>4. k \in KernelType /\ Consistent(k, {t}) /\ Loose(k, t)
        BY <3>3, Basics, SetState
      <3>5. \A v \in Task : k.state[v] = IF v = t THEN "Blocked" ELSE kern.state[v]
        BY Basics DEF KernelType
      <3> HIDE DEF k
      <3>6. kern'.state = k.state
        BY <3>1, <3>4, <3>5, DelayInsert DEF Loose, in_delay_list
      <3> QED
        BY <3>2, <3>5, <3>6 DEF SameTasks
    <2> QED
      BY <2>1, <2>2
  <1>10. ASSUME NEW ms \in Delays, delay_ms(t, ms) PROVE SameTasks
    <2>1. ms_to_ticks(ms) \in Nat \ {0}
      BY <1>10, TicksType, SchedulerAssumption DEF delay_ms
    <2> QED
      BY <1>9, <1>10, <2>1 DEF delay_ms, Calls
  <1>11. ASSUME NEW wake \in 0..(TickRange - 1), delay_until(t, wake) PROVE SameTasks
    <2>1. remaining(wake, tick_count) \in Nat \ {0}
      BY <1>11, RemainingType DEF delay_until, IInv, TypeOK
    <2> QED
      BY <1>9, <1>11, <2>1 DEF delay_until, Calls
  <1>12. ASSUME NEW u \in Task,
                \/ task_yield(t) \/ sleep_return(t)
                \/ suspend_check(t, u) \/ resume_check(t, u) \/ delete_check(t, u)
         PROVE  kern' = kern
    BY <1>12 DEF task_yield, sleep_return, suspend_check, resume_check, delete_check,
       AssertFails
  <1> QED
    BY <1>4, <1>5, <1>6, <1>7, <1>8, <1>10, <1>11, <1>12 DEF TaskStep, Proceed

\* The steps of the scheduler that the port has no part in.
LEMMA OtherContext ==
    ASSUME ContextInv, UNCHANGED <<hw, sp, mine, depth>>,
           BootYield \/ NoSlotForIdle \/ NoSlot \/ Halted \/ \E t \in Task : TaskStep(t)
    PROVE  ContextInv'
  <1>1. IInv
    BY DEF ContextInv
  <1>2. IInv'
    BY <1>1, NextInv DEF SchedNext
  <1>3. CASE BootYield \/ NoSlotForIdle \/ NoSlot \/ Halted
    <2>1. /\ UNCHANGED <<kern, current_task, started>>
          /\ panic' = "none" => panic = "none"
      BY <1>3 DEF BootYield, NoSlotForIdle, NoSlot, Halted, table_full, AssertFails, svars,
                  Thread
    <2> QED
      BY <1>2, <2>1, SchedulerOnly DEF SameTasks
  <1>4. CASE \E t \in Task : TaskStep(t)
    BY <1>1, <1>2, <1>4, TaskStepStates, SchedulerOnly
  <1> QED
    BY <1>3, <1>4

\* Where PendSV_Handler calls schedule_next_task, every task that exists, the
\* outgoing one included, has its context on its own stack and sp pointing at
\* it, unless the assert has found the canary gone.
LEMMA SavePhase ==
    ASSUME ContextInv, started, panic = "none",
           NEW m, m = save_context(exception_entry(hw))
    PROVE  /\ m \in HwType
           /\ current_task # NoTask => /\ OthersKept(hw, m, current_task)
                                       /\ m.psp # NullPtr
           /\ ~overflowed(m, current_task) =>
                 /\ store_sp(current_task, m.psp) \in [Task -> Pointers]
                 /\ \A v \in Task : kern.state[v] # "Free" =>
                        SavedIn(m, store_sp(current_task, m.psp)[v], v)
  <1>1. IInv /\ hw \in HwType /\ HistoryOK /\ sp \in [Task -> Pointers]
    BY DEF ContextInv
  <1>2. CASE current_task = NoTask
    <2>1. hw.psp = NullPtr
      BY <1>2 DEF ContextInv
    <2>2. m = hw
      BY <2>1 DEF exception_entry, save_context
    <2>3. store_sp(current_task, m.psp) = sp
      BY <1>2 DEF store_sp
    <2>4. \A v \in Task : v # current_task
      BY <1>2, KernelAssumption
    <2>5. \A v \in Task : kern.state[v] # "Free" => SavedIn(m, sp[v], v)
      BY <2>2, <2>4 DEF ContextInv, Saved
    <2> QED
      BY <1>1, <1>2, <2>2, <2>3, <2>5
  <1>3. CASE current_task # NoTask
    <2> DEFINE t == current_task
               e == exception_entry(hw)
               q == [base |-> t, used |-> depth[t] + Pushed(t)]
    <2>1. t \in Task
      BY <1>1, <1>3 DEF IInv, TypeOK
    <2>2. Loaded(hw, t)
      BY <2>1, Current
    <2>3. e \in HwType /\ Entered(e, t) /\ OthersKept(hw, e, t)
      BY <1>1, <2>1, <2>2, ExceptionEntry
    <2>4. m = save_context(e)
      OBVIOUS
    <2> HIDE DEF e
    <2>5. m \in HwType /\ m.psp = q /\ OnStack(m, t) /\ OthersKept(e, m, t)
      BY <1>1, <2>1, <2>3, <2>4, SaveContext
    <2>6. OthersKept(hw, m, t)
      BY <2>3, <2>5 DEF OthersKept
    <2>7. m.psp # NullPtr
      BY <1>3, <2>5 DEF NullPtr
    <2>8. ASSUME ~overflowed(m, t)
          PROVE  /\ store_sp(t, m.psp) \in [Task -> Pointers]
                 /\ \A v \in Task : kern.state[v] # "Free" =>
                        SavedIn(m, store_sp(t, m.psp)[v], v)
      <3>1. m.stack[t][StackSlots].val = Canary
        BY <1>3, <2>8 DEF overflowed
      <3>2. SavedIn(m, q, t)
        BY <1>1, <2>1, <2>5, <3>1, NotCanary DEF SavedIn
      <3>3. store_sp(t, m.psp) = [sp EXCEPT ![t] = q]
        BY <1>3, <2>5 DEF store_sp
      <3>4. q \in Pointers
        BY <2>5, HwFields
      <3> HIDE DEF q, t
      <3>5. /\ store_sp(t, m.psp) \in [Task -> Pointers]
            /\ store_sp(t, m.psp)[t] = q
            /\ \A v \in Task \ {t} : store_sp(t, m.psp)[v] = sp[v]
        BY <1>1, <2>1, <3>3, <3>4
      <3>6. \A v \in Task \ {t} : kern.state[v] # "Free" => SavedIn(m, sp[v], v)
        BY <2>6, SavedKept DEF ContextInv, Saved, OthersKept, t
      <3> QED
        BY <3>2, <3>5, <3>6
    <2> QED
      BY <2>5, <2>6, <2>7, <2>8
  <1> QED
    BY <1>2, <1>3

LEMMA PendSVContext ==
    ASSUME ContextInv, PendSV_Handler
    PROVE  ContextInv'
  <1> DEFINE m == save_context(exception_entry(hw))
             p == store_sp(current_task, m.psp)
  <1>1. /\ IInv /\ panic = "none" /\ pendsv /\ UNCHANGED <<mine, depth>>
        /\ hw \in HwType /\ HistoryOK /\ HistoryOK'
    BY DEF PendSV_Handler, ContextInv, HistoryOK, MineExact
  <1>2. started
    BY <1>1 DEF IInv, IdleReady
  <1>3. /\ m \in HwType
        /\ current_task # NoTask => OthersKept(hw, m, current_task) /\ m.psp # NullPtr
        /\ ~overflowed(m, current_task) =>
              /\ p \in [Task -> Pointers]
              /\ \A v \in Task : kern.state[v] # "Free" => SavedIn(m, p[v], v)
    BY <1>1, <1>2, SavePhase
  <1>4. /\ overflowed(m, current_task) =>
              AssertFails("stack overflow") /\ hw' = m /\ sp' = sp
        /\ ~overflowed(m, current_task) =>
              /\ schedule_next_task
              /\ sp' = p
              /\ hw' = IF panic' # "none" THEN m
                       ELSE exception_return(restore_context(m, sp'[current_task']))
    BY DEF PendSV_Handler
  <1> HIDE DEF m, p
  <1>5. CASE overflowed(m, current_task)
    <2>1. /\ AssertFails("stack overflow") /\ hw' = m /\ sp' = sp
          /\ current_task # NoTask /\ current_task \in Task
      BY <1>1, <1>4, <1>5 DEF overflowed, IInv, TypeOK
    <2>2. IInv'
      BY <1>1, <2>1, PanicStep
    <2>3. SameTasks /\ UNCHANGED <<current_task, started>> /\ panic' # "none"
      BY <2>1 DEF AssertFails, SameTasks
    <2> QED
      BY <1>1, <1>3, <2>1, <2>2, <2>3, CurrentStep
  <1>6. CASE ~overflowed(m, current_task)
    <2> DEFINE next == current_task'
               x == restore_context(m, p[next])
    <2>1. /\ schedule_next_task /\ sp' = p
          /\ p \in [Task -> Pointers]
          /\ \A v \in Task : kern.state[v] # "Free" => SavedIn(m, p[v], v)
      BY <1>3, <1>4, <1>6
    <2>2. IInv'
      BY <1>1, <2>1, SwitchStep
    <2>3. /\ UNCHANGED <<started, panic>>
          /\ next \in Task /\ kern.state[next] # "Free"
          /\ \A t \in Task : kern'.state[t] = IF t = next THEN "Running"
                                              ELSE IF kern.state[t] = "Running" THEN "Ready"
                                              ELSE kern.state[t]
      BY <1>1, <2>1, SwitchTo
    <2>4. SameTasks /\ kern'.state[next] # "Free"
      BY <2>3 DEF SameTasks
    <2>5. hw' = exception_return(x)
      BY <1>1, <1>4, <1>6, <2>1, <2>3
    <2>6. /\ OnStack(m, next)
          /\ p[next] = [base |-> next, used |-> depth[next] + Pushed(next)]
      BY <2>1, <2>3 DEF SavedIn
    <2>7. x \in HwType /\ Entered(x, next) /\ OthersKept(m, x, next)
      BY <1>1, <1>3, <2>3, <2>6, RestoreContext
    <2> HIDE DEF x
    <2>8. hw' \in HwType /\ Loaded(hw', next) /\ OthersKept(x, hw', next)
      BY <1>1, <2>3, <2>5, <2>7, ExceptionReturn
    <2>9. \A v \in Task \ {next} : hw'.stack[v] = m.stack[v]
      BY <2>7, <2>8 DEF OthersKept
    <2>10. Loaded(hw, current_task)'
      BY <1>1, <2>8 DEF Loaded, Frames, UsesFpu
    <2>11. \A v \in Task \ {next} : kern'.state[v] # "Free" => Saved(v)'
      <3> SUFFICES ASSUME NEW v \in Task \ {next}, kern'.state[v] # "Free"
                   PROVE  Saved(v)'
        OBVIOUS
      <3>1. SavedIn(m, p[v], v)
        BY <2>1, <2>4 DEF SameTasks
      <3>2. SavedIn(hw', sp'[v], v)
        BY <2>1, <2>9, <3>1, SavedKept
      <3> QED
        BY <1>1, <3>2 DEF Saved, SavedIn, OnStack, Frames, Pushed, UsesFpu
    <2>12. Fresh'
      BY <1>1, <2>4 DEF ContextInv, Fresh, SameTasks
    <2>13. CurrentLive'
      BY <2>4 DEF CurrentLive
    <2>14. next # NoTask /\ hw'.psp # NullPtr
      BY <2>3, <2>8, Loading, KernelAssumption
    <2>15. started' => (hw'.psp = NullPtr <=> current_task' = NoTask)
      BY <2>14
    <2>16. panic' = "none" /\ current_task' # NoTask => Loaded(hw, current_task)'
      BY <2>10
    <2> QED
      BY <1>1, <2>1, <2>2, <2>8, <2>11, <2>12, <2>13, <2>15, <2>16 DEF ContextInv
  <1> QED
    BY <1>5, <1>6

LEMMA ContextInitInv == ContextInit => ContextInv
  <1> SUFFICES ASSUME ContextInit PROVE ContextInv
    OBVIOUS
  <1>1. /\ SchedInit
        /\ hw = [psp   |-> [base |-> NoTask, used |-> 1],
                 regs  |-> [g \in Groups |-> Junk],
                 fpca  |-> FALSE,
                 stack |-> [t \in Task |-> [i \in Slots |-> Slot(Junk)]]]
        /\ sp = [t \in Task |-> NullPtr]
        /\ mine = [t \in Task |-> [g \in Groups |->
                      IF g \in {"low", "high"} THEN <<g, t, 0>> ELSE Junk]]
        /\ depth = [t \in Task |-> 0]
    BY DEF ContextInit
  <1>2. /\ IInv /\ current_task = NoTask /\ started = FALSE
        /\ \A t \in Task : kern.state[t] = "Free"
    BY <1>1, InitInv DEF SchedInit, EmptyKernel
  <1>3. Junk \in Values /\ Slot(Junk) \in SlotType
    BY SlotTypes DEF Values
  <1>4. /\ [base |-> NoTask, used |-> 1] \in Pointers /\ NullPtr \in Pointers
        /\ 0 \in 0..StackSlots
    BY ContextAssumption DEF Pointers, Slots, NullPtr
  <1>5. hw \in HwType /\ sp \in [Task -> Pointers]
    BY <1>1, <1>3, <1>4 DEF HwType
  <1>6. HistoryOK
    <2>1. \A g \in Groups, t \in Task : <<g, t, 0>> \in Values
      BY DEF Values
    <2>2. mine \in [Task -> [Groups -> Values]] /\ depth \in [Task -> 0..StackSlots]
      BY <1>1, <1>3, <1>4, <2>1
    <2>3. MineExact
      BY <1>1 DEF MineExact, Written, Groups
    <2> QED
      BY <2>2, <2>3 DEF HistoryOK
  <1>7. Fresh /\ CurrentLive
    BY <1>1, <1>2 DEF Fresh, CurrentLive
  <1> QED
    BY <1>2, <1>5, <1>6, <1>7 DEF ContextInv

LEMMA ContextNextInv == ContextInv /\ [ContextNext]_cvars => ContextInv'
  <1> SUFFICES ASSUME ContextInv, [ContextNext]_cvars PROVE ContextInv'
    OBVIOUS
  <1>1. ASSUME NEW u \in Task, NEW p \in TaskPriority[u],
               \/ MainCreate(u, p) /\ new_stack(u, hw)
               \/ \E t \in Task : create_task(t, u, p) /\ new_stack(u, hw)
        PROVE  ContextInv'
    BY <1>1, MainCreateContext, CreateTaskContext
  <1>2. CASE start_hardware
    BY <1>2, StartContext
  <1>3. CASE SysTick_Handler
    BY <1>3, SysTickContext
  <1>4. CASE PendSV_Handler
    BY <1>4, PendSVContext
  <1>5. ASSUME NEW t \in Task, \/ Compute(t, {"low", "high"})
                               \/ Compute(t, {"s0", "s16"})
                               \/ Enter(t)
                               \/ Exit(t)
        PROVE  ContextInv'
    BY <1>5, ComputeStep, EnterStep, ExitStep
  <1>6. CASE /\ BootYield \/ NoSlotForIdle \/ NoSlot \/ Halted \/ \E t \in Task : TaskStep(t)
             /\ UNCHANGED <<hw, sp, mine, depth>>
    BY <1>6, OtherContext
  <1>7. CASE UNCHANGED cvars
    <2>1. IInv' /\ SameTasks
      BY <1>7, SameScheduler DEF cvars, svars, ContextInv, SameTasks
    <2> QED
      BY <1>7, <2>1, SchedulerOnly DEF cvars, svars
  <1> QED
    BY <1>1, <1>2, <1>3, <1>4, <1>5, <1>6, <1>7 DEF ContextNext

----------------------------------------------------------------------------
\* ContextInv holds in every state of the scheduler with its port
\* (PendSV_Handler, SysTick_Handler, init_task_stack, schedule_next_task).
THEOREM ContextInvariant == ContextSpec => []ContextInv
  BY ContextInitInv, ContextNextInv, PTL DEF ContextSpec

\* Type correctness: no push leaves the memory behind the stack, however deep
\* the calls are when the interrupt comes.
THEOREM ContextTypes == ContextSpec => []ContextTypeOK
  <1>1. ContextInv => ContextTypeOK
    BY DEF ContextInv, ContextTypeOK, IInv, HwType, SlotType, HistoryOK
  <1> QED
    BY <1>1, ContextInvariant, PTL

\* A task never notices that it was interrupted or switched away from: its
\* registers, FPU registers included, and its calls are as its own code left
\* them (PendSV_Handler, init_task_stack).
THEOREM ContextSwitch == ContextSpec => []ContextPreserved
  <1>1. ContextInv => ContextPreserved
    BY KernelAssumption DEF ContextInv, ContextPreserved, Thread, Loaded, Frames
  <1> QED
    BY <1>1, ContextInvariant, PTL

\* A task whose stack has overflowed is never left behind by a switch: the
\* canary of stack_base[0] is looked at after the last push
\* (schedule_next_task).
THEOREM ContextOverflow == ContextSpec => []OverflowCaught
  <1>1. ContextInv => OverflowCaught
    <2> SUFFICES ASSUME ContextInv, NEW t \in Task, t # current_task,
                        kern.state[t] # "Free"
                 PROVE  hw.stack[t][StackSlots].val = Canary /\ sp[t].used < StackSlots
      BY DEF OverflowCaught
    <2>1. SavedIn(hw, sp[t], t)
      BY DEF ContextInv, Saved
    <2> QED
      BY <2>1 DEF SavedIn
  <1> QED
    BY <1>1, ContextInvariant, PTL
=============================================================================
