----------------------- MODULE CriticalSectionProofs -----------------------
(***************************************************************************)
(* Critical sections are atomic and interrupts masked exactly inside them, *)
(* for every set of tasks and interrupts, every assignment of priorities   *)
(* and every depth of nesting.                                             *)
(***************************************************************************)
EXTENDS CriticalSections, SequenceTheorems, TLAPS

\* The initial state, with no handler active and no section open.
LEMMA InitPortInv == ASSUME PortAssumption, PortInit PROVE PortInv
<1> USE DEF PortInit
<1>1. \A c \in Contexts : saved[c] = <<>> /\ Len(saved[c]) = 0 /\ ~Within(c)
    BY DEF Within
<1>2. PortTypeOK
    <2>1. <<>> \in Seq(BOOLEAN)
        BY EmptySeq
    <2>2. saved \in [Contexts -> Seq(BOOLEAN)] /\ read \in [Contexts -> SUBSET BOOLEAN]
        BY <2>1
    <2> QED BY <2>2 DEF PortTypeOK
<1>3. Preemption /\ WithinExecutes /\ MaskExact
    BY <1>1 DEF Preemption, WithinExecutes, MaskExact
<1>4. SavedExact /\ PendSVMasked /\ ReadExact
    BY <1>1 DEF SavedExact, PendSVMasked, ReadExact, PortAssumption, Contexts
<1> QED BY <1>2, <1>3, <1>4 DEF PortInv

\* One context has the processor.
LEMMA OneExecutes ==
    ASSUME PortAssumption, PortTypeOK, Preemption,
           NEW c, NEW d, Executes(c), Executes(d)
    PROVE  c = d
<1>1. CASE active = {}
    BY <1>1 DEF Executes
<1>2. CASE active # {}
    <2>1. /\ c \in active /\ d \in active
          /\ rank[c] <= rank[d] /\ rank[d] <= rank[c]
        BY <1>2 DEF Executes
    <2>2. rank[c] \in Nat /\ rank[d] \in Nat
        BY <2>1 DEF PortAssumption, PortTypeOK
    <2>3. rank[c] = rank[d]
        BY <2>1, <2>2
    <2> QED BY <2>1, <2>3 DEF Preemption
<1> QED BY <1>1, <1>2

\* The context that has the processor reads PRIMASK: it is set exactly if the
\* context is within a section itself.
LEMMA ReadInv ==
    ASSUME PortAssumption, PortInv, NEW c \in Contexts, enter_critical(c)
    PROVE  PortInv'
<1> USE DEF PortInv, enter_critical, Steps
<1>1. /\ \A d \in Contexts \ {c} : read'[d] = read[d]
      /\ read'[c] = {primask} /\ primask \in BOOLEAN
    BY DEF PortTypeOK
<1>2. PortTypeOK'
    BY <1>1 DEF PortTypeOK
<1>3. \A d : (Executes(d)' <=> Executes(d)) /\ (Within(d)' <=> Within(d))
    BY DEF Executes, Within
<1>4. Preemption' /\ WithinExecutes' /\ MaskExact' /\ SavedExact'
    BY <1>3 DEF Preemption, WithinExecutes, MaskExact, SavedExact
<1>5. PendSVMasked'
    BY <1>1 DEF PendSVMasked, PortAssumption, Contexts
<1>6. primask <=> Within(c)
    BY OneExecutes DEF MaskExact, WithinExecutes
<1>7. ReadExact'
    BY <1>1, <1>3, <1>6 DEF ReadExact
<1> QED BY <1>2, <1>4, <1>5, <1>7

\* It masks: what it read is still so.
LEMMA EnterInv ==
    ASSUME PortAssumption, PortInv, NEW c \in Contexts, enter_critical_masks(c)
    PROVE  PortInv'
<1> USE DEF PortInv, enter_critical_masks
<1>0. PICK was \in read[c] : saved' = [saved EXCEPT ![c] = Append(@, was)]
    OBVIOUS
<1>1. /\ saved[c] \in Seq(BOOLEAN) /\ was \in BOOLEAN
      /\ saved'[c] = Append(saved[c], was)
      /\ \A d \in Contexts \ {c} : saved'[d] = saved[d] /\ read'[d] = read[d]
      /\ read'[c] = {}
    BY <1>0 DEF PortTypeOK
<1>2. PortTypeOK'
    BY <1>0, <1>1 DEF PortTypeOK
<1>3. saved'[c] # <<>>
    BY <1>1
<1>4. \A d \in Contexts : Within(d)' <=> Within(d) \/ d = c
    BY <1>1, <1>3 DEF Within
<1>5. \A d : Executes(d)' <=> Executes(d)
    BY DEF Executes
<1>6. Preemption' /\ WithinExecutes' /\ MaskExact'
    BY <1>4, <1>5 DEF Preemption, WithinExecutes, MaskExact
<1>7. SavedExact'
    <2> SUFFICES ASSUME NEW d \in Contexts, NEW i \in 1..Len(saved'[d])
                 PROVE  saved'[d][i] <=> i > 1 \/ d = PendSV
        BY DEF SavedExact
    <2>1. CASE d # c
        BY <2>1, <1>1 DEF SavedExact
    <2>2. CASE d = c /\ i <= Len(saved[c])
        <3>1. i \in 1..Len(saved[c]) /\ saved'[c][i] = saved[c][i]
            BY <2>2, <1>1
        <3> QED BY <3>1, <2>2 DEF SavedExact
    <2>3. CASE d = c /\ i = Len(saved[c]) + 1
        <3>1. saved'[c][i] = was
            BY <2>3, <1>1
        <3>2. was <=> Within(c)
            BY DEF ReadExact
        <3>3. Within(c) <=> i > 1 \/ c = PendSV
            BY <2>3, <1>1 DEF Within, PendSVMasked
        <3> QED BY <3>1, <3>2, <3>3, <2>3
    <2>4. Len(saved'[c]) = Len(saved[c]) + 1 /\ Len(saved[c]) \in Nat
        BY <1>1
    <2> QED BY <2>1, <2>2, <2>3, <2>4
<1>8. PendSVMasked'
    BY <1>1 DEF PendSVMasked, PortAssumption, Contexts
<1>9. ReadExact'
    BY <1>1, <1>4 DEF ReadExact
<1> QED BY <1>2, <1>6, <1>7, <1>8, <1>9

\* Its destructor does: an inner one restores a mask that is set.
LEMMA ExitInv ==
    ASSUME PortAssumption, PortInv, NEW c \in Contexts, exit_critical(c)
    PROVE  PortInv'
<1> DEFINE n == Len(saved[c])
<1> USE DEF PortInv, exit_critical, Steps
<1>1. /\ saved[c] \in Seq(BOOLEAN) /\ n \in Nat /\ n > 0
      /\ saved'[c] = SubSeq(saved[c], 1, n - 1)
      /\ \A d \in Contexts \ {c} : saved'[d] = saved[d]
    BY DEF PortTypeOK
<1>2. /\ saved'[c] \in Seq(BOOLEAN)
      /\ Len(saved'[c]) = n - 1
      /\ \A i \in 1..(n - 1) : saved'[c][i] = saved[c][i]
      /\ saved[c][n] \in BOOLEAN
    <2>1. 1 \in 1..(n + 1) /\ n - 1 \in 0..n /\ n \in 1..n
        BY <1>1
    <2>2. saved[c][n] \in BOOLEAN
        BY <1>1, <2>1, ElementOfSeq
    <2> HIDE DEF exit_critical, PortInv, Steps
    <2> QED BY <1>1, <2>1, <2>2, SubSeqProperties
<1>3. PortTypeOK'
    BY <1>1, <1>2 DEF PortTypeOK
<1>4. saved[c][n] <=> n > 1 \/ c = PendSV
    BY <1>1 DEF SavedExact
<1>5. saved'[c] = <<>> <=> n = 1
    <2> HIDE DEF exit_critical, PortInv, Steps
    <2>1. saved'[c] # <<>> => Len(saved'[c]) \in Nat \ {0}
        BY <1>2, EmptySeq
    <2>2. saved'[c] = <<>> => Len(saved'[c]) = 0
        BY EmptySeq
    <2>3. Len(saved'[c]) = 0 <=> n = 1
        <3> HIDE DEF n
        <3> QED BY <1>1, <1>2
    <2> QED BY <2>1, <2>2, <2>3
<1>6. \A d \in Contexts : Within(d) => d = c
    BY OneExecutes DEF WithinExecutes
<1>7. c = PendSV => pc = "masked"
    BY <1>1 DEF PendSVMasked
<1>8. Within(c)' <=> n > 1 \/ c = PendSV
    BY <1>1, <1>5, <1>7 DEF Within
<1>9. \A d \in Contexts \ {c} : ~Within(d)'
    BY <1>1, <1>6 DEF Within
<1>10. \A d : Executes(d)' <=> Executes(d)
    BY DEF Executes
<1>11. Preemption' /\ WithinExecutes'
    BY <1>9, <1>10 DEF Preemption, WithinExecutes
<1>12. MaskExact'
    BY <1>4, <1>8, <1>9 DEF MaskExact
<1>13. SavedExact'
    <2> SUFFICES ASSUME NEW d \in Contexts, NEW i \in 1..Len(saved'[d])
                 PROVE  saved'[d][i] <=> i > 1 \/ d = PendSV
        BY DEF SavedExact
    <2>1. CASE d # c
        BY <2>1, <1>1 DEF SavedExact
    <2>2. CASE d = c
        <3>1. i \in 1..(n - 1) /\ i \in 1..n
            BY <2>2, <1>1, <1>2
        <3> QED BY <2>2, <3>1, <1>2 DEF SavedExact
    <2> QED BY <2>1, <2>2
<1>14. PendSVMasked'
    BY <1>1, <1>7 DEF PendSVMasked, PortAssumption, Contexts
<1>15. ReadExact'
    BY <1>6, <1>9 DEF ReadExact
<1> QED BY <1>3, <1>11, <1>12, <1>13, <1>14, <1>15

\* An exception is taken only while no section is open.
LEMMA ExceptionInv ==
    ASSUME PortAssumption, PortInv, NEW h \in Handlers, exception(h)
    PROVE  PortInv'
<1> USE DEF PortInv, exception
<1>1. PortTypeOK' /\ SavedExact' /\ PendSVMasked'
    BY DEF PortTypeOK, SavedExact, PendSVMasked
<1>2. \A c \in Contexts : ~Within(c) /\ ~Within(c)'
    BY DEF MaskExact, Within
<1>3. WithinExecutes' /\ MaskExact' /\ ReadExact'
    BY <1>2 DEF WithinExecutes, MaskExact, ReadExact
<1>4. Preemption'
    BY DEF Preemption, PortAssumption, PortTypeOK
<1> QED BY <1>1, <1>3, <1>4

\* So it returns with none open.
LEMMA ReturnInv ==
    ASSUME PortAssumption, PortInv, NEW h \in Handlers, exception_return(h)
    PROVE  PortInv'
<1> USE DEF PortInv, exception_return, Steps
<1>1. PortTypeOK' /\ SavedExact'
    BY DEF PortTypeOK, SavedExact
<1>2. h \in Contexts /\ ~Within(h)
    BY DEF Within, Contexts
<1>3. \A c \in Contexts : ~Within(c)
    BY <1>2, OneExecutes DEF WithinExecutes
<1>4. \A c \in Contexts : ~Within(c)'
    BY <1>3 DEF Within
<1>5. WithinExecutes' /\ MaskExact' /\ ReadExact'
    BY <1>3, <1>4 DEF WithinExecutes, MaskExact, ReadExact
<1>6. Preemption'
    BY DEF Preemption
<1>7. PendSVMasked'
    BY <1>3 DEF PendSVMasked, Within, PortAssumption, Contexts
<1> QED BY <1>1, <1>5, <1>6, <1>7

\* PendSV_Handler masks, switches and unmasks.
LEMMA PendSVInv ==
    ASSUME PortAssumption, PortInv,
           mask \/ unmask \/ \E t \in Threads : switch(t)
    PROVE  PortInv'
<1> USE DEF PortInv
<1>1. PendSV \in Contexts /\ PendSV \notin Threads
    BY DEF PortAssumption, Contexts
<1>2. Executes(PendSV) /\ read[PendSV] = {} /\ read' = read
    BY DEF mask, unmask, switch, Steps
<1>3. \A c \in Contexts : Within(c) => c = PendSV
    BY <1>2, OneExecutes DEF WithinExecutes
<1>4. PendSV \in active
    <2>1. active # {}
        BY <1>1, <1>2 DEF Executes, PortTypeOK
    <2> QED BY <1>2, <2>1 DEF Executes
<1>5. Executes(PendSV)'
    BY <1>2, <1>4 DEF Executes, mask, unmask, switch
<1>6. PortTypeOK' /\ SavedExact'
    BY DEF PortTypeOK, SavedExact, mask, unmask, switch
<1>7. Preemption'
    BY <1>4 DEF Preemption, mask, unmask, switch
<1>8. \A c \in Contexts \ {PendSV} : ~Within(c)'
    BY <1>3 DEF Within, mask, unmask, switch
<1>9. WithinExecutes'
    BY <1>5, <1>8 DEF WithinExecutes
<1>10. Within(PendSV)' <=> primask'
    BY <1>1, <1>3 DEF Within, MaskExact, mask, unmask, switch
<1>11. MaskExact'
    BY <1>1, <1>8, <1>10 DEF MaskExact
<1>12. PendSVMasked'
    BY <1>2 DEF PendSVMasked, mask, unmask, switch
<1>13. ReadExact'
    BY <1>2, <1>3, <1>8 DEF ReadExact
<1> QED BY <1>6, <1>7, <1>9, <1>11, <1>12, <1>13

\* Interrupts are masked exactly while a critical section is open, and a
\* section is atomic (port::CriticalSection, PendSV_Handler).
THEOREM SectionsAtomicTheorem ==
    ASSUME PortAssumption PROVE PortSpec => [](SectionsAtomic /\ MaskExact)
<1>1. PortInit => PortInv
    BY InitPortInv
<1>2. PortInv /\ [PortNext]_pvars => PortInv'
    <2> SUFFICES ASSUME PortInv, [PortNext]_pvars PROVE PortInv'
        OBVIOUS
    <2>1. CASE UNCHANGED pvars
        BY <2>1 DEF pvars, PortInv, PortTypeOK, Preemption, WithinExecutes,
                    MaskExact, SavedExact, PendSVMasked, ReadExact, Within, Executes
    <2> QED BY <2>1, ReadInv, EnterInv, ExitInv, ExceptionInv, ReturnInv, PendSVInv DEF PortNext
<1>3. PortInv => SectionsAtomic /\ MaskExact
    BY OneExecutes DEF PortInv, SectionsAtomic, WithinExecutes
<1> QED BY <1>1, <1>2, <1>3, PTL DEF PortSpec
=============================================================================
