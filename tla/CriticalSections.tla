-------------------------- MODULE CriticalSections --------------------------
(***************************************************************************)
(* Why a critical section is one step in the other modules: PRIMASK, the   *)
(* nesting of port::CriticalSection objects (src/include/acrtos/port.hpp), *)
(* exceptions that preempt each other, and PendSV_Handler, which masks     *)
(* interrupts by itself and calls kernel functions that open sections      *)
(* again (src/src/port_asm.s).                                             *)
(***************************************************************************)
EXTENDS Naturals, Sequences

CONSTANTS
    Threads,   \* the tasks, and main() before the first of them
    Handlers,  \* the exceptions and interrupts
    PendSV,    \* the exception that switches tasks
    rank       \* per handler, its priority: greater preempts smaller

\* rank is any assignment: on a part with few priority bits PendSV and SysTick
\* may share one.
PortAssumption ==
    /\ PendSV \in Handlers
    /\ Threads \cap Handlers = {}
    /\ rank \in [Handlers -> Nat]

VARIABLES
    primask,   \* PRIMASK: interrupts are masked
    active,    \* the handlers that have been entered and not left
    thread,    \* the thread that runs when no handler does
    pc,        \* PendSV_Handler: before cpsid i, up to cpsie i, after it
    read,      \* per context inside enter_critical, {the PRIMASK it has read}, else {}
    saved      \* per context, primask_ of its CriticalSection objects, outermost first

pvars == <<primask, active, thread, pc, read, saved>>

Contexts == Threads \cup Handlers

PortInit ==
    /\ primask = FALSE
    /\ active = {}
    /\ thread \in Threads
    /\ pc = "entry"
    /\ read = [c \in Contexts |-> {}]
    /\ saved = [c \in Contexts |-> <<>>]

\* The context that has the processor.
Executes(c) ==
    IF active = {} THEN c = thread
    ELSE c \in active /\ \A h \in active : rank[h] <= rank[c]

\* c has the processor and is not between the two instructions of enter_critical.
Steps(c) == Executes(c) /\ read[c] = {}

\* The constructor of CriticalSection calls enter_critical: mrs reads PRIMASK ...
\* PendSV_Handler opens sections only in schedule_next_task.
enter_critical(c) ==
    /\ Steps(c)
    /\ c = PendSV => pc = "masked"
    /\ read' = [read EXCEPT ![c] = {primask}]
    /\ UNCHANGED <<primask, active, thread, pc, saved>>

\* ... and cpsid i masks interrupts, which may have come in between.
enter_critical_masks(c) ==
    /\ Executes(c)
    /\ \E was \in read[c] : saved' = [saved EXCEPT ![c] = Append(@, was)]
    /\ read' = [read EXCEPT ![c] = {}]
    /\ primask' = TRUE
    /\ UNCHANGED <<active, thread, pc>>

\* Its destructor.
exit_critical(c) ==
    LET n == Len(saved[c]) IN
    /\ Steps(c) /\ n > 0
    /\ primask' = saved[c][n]
    /\ saved' = [saved EXCEPT ![c] = SubSeq(@, 1, n - 1)]
    /\ UNCHANGED <<active, thread, pc, read>>

\* The processor takes h; it may be pending at any time.
exception(h) ==
    /\ ~primask /\ h \notin active
    /\ \A g \in active : rank[g] < rank[h]
    /\ active' = active \cup {h}
    /\ UNCHANGED <<primask, thread, pc, read, saved>>

\* A handler returns with its sections closed, PendSV_Handler after cpsie i.
exception_return(h) ==
    /\ h \in active /\ Steps(h) /\ saved[h] = <<>>
    /\ IF h = PendSV THEN pc = "unmasked" /\ pc' = "entry" ELSE UNCHANGED pc
    /\ active' = active \ {h}
    /\ UNCHANGED <<primask, thread, read, saved>>

\* cpsid i, the first instruction of PendSV_Handler.
mask ==
    /\ Steps(PendSV) /\ pc = "entry"
    /\ primask' = TRUE
    /\ pc' = "masked"
    /\ UNCHANGED <<active, thread, read, saved>>

\* schedule_next_task makes t the task to return to.
switch(t) ==
    /\ Steps(PendSV) /\ pc = "masked"
    /\ thread' = t
    /\ UNCHANGED <<primask, active, pc, read, saved>>

\* cpsie i, at its end.
unmask ==
    /\ Steps(PendSV) /\ pc = "masked" /\ saved[PendSV] = <<>>
    /\ primask' = FALSE
    /\ pc' = "unmasked"
    /\ UNCHANGED <<active, thread, read, saved>>

PortNext ==
    \/ mask
    \/ unmask
    \/ \E t \in Threads : switch(t)
    \/ \E h \in Handlers : exception(h) \/ exception_return(h)
    \/ \E c \in Contexts : \/ enter_critical(c)
                          \/ enter_critical_masks(c)
                          \/ exit_critical(c)

PortSpec == PortInit /\ [][PortNext]_pvars

----------------------------------------------------------------------------
(* Properties *)

\* c is between the two ends of a section, or PendSV_Handler masks interrupts.
Within(c) == saved[c] # <<>> \/ (c = PendSV /\ pc = "masked")

\* A critical section is atomic: only one context is ever within one, nothing
\* has the processor before it is left, and no task is switched away inside it.
SectionsAtomic ==
    \A c \in Contexts : Within(c) =>
        Executes(c) /\ \A d \in Contexts : Executes(d) \/ Within(d) => d = c

\* However sections nest, interrupts are masked as long as one is open and no
\* longer: no inner destructor enables them early, none leaves them masked.
MaskExact == primask <=> \E c \in Contexts : Within(c)

----------------------------------------------------------------------------
(* The inductive invariant *)

PortTypeOK ==
    /\ primask \in BOOLEAN
    /\ active \subseteq Handlers
    /\ thread \in Threads
    /\ pc \in {"entry", "masked", "unmasked"}
    /\ read \in [Contexts -> SUBSET BOOLEAN]
    /\ saved \in [Contexts -> Seq(BOOLEAN)]

\* Active handlers have preempted each other, and PendSV_Handler is under way
\* only while it is active.
Preemption ==
    /\ \A g, h \in active : rank[g] = rank[h] => g = h
    /\ pc # "entry" => PendSV \in active

WithinExecutes == \A c \in Contexts : Within(c) => Executes(c)

\* The outermost section of a thread or a handler found interrupts enabled,
\* every other section, and every section PendSV_Handler gets to, masked.
SavedExact ==
    \A c \in Contexts : \A i \in 1..Len(saved[c]) :
        saved[c][i] <=> i > 1 \/ c = PendSV

\* What PendSV_Handler opens it opens while it has interrupts masked.
PendSVMasked ==
    saved[PendSV] # <<>> \/ read[PendSV] # {} => pc = "masked"

\* What enter_critical has read stays true until it masks, whatever interrupts
\* and switches come in between: interrupts were enabled exactly if this is the
\* outermost section.
ReadExact == \A c \in Contexts : \A was \in read[c] : was <=> Within(c)

PortInv ==
    /\ PortTypeOK
    /\ Preemption
    /\ WithinExecutes
    /\ MaskExact
    /\ SavedExact
    /\ PendSVMasked
    /\ ReadExact
=============================================================================
