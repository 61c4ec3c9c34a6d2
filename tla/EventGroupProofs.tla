-------------------------- MODULE EventGroupProofs --------------------------
(***************************************************************************)
(* The invariants of one event group and the exact effect of set_bits, for *)
(* every set of tasks, priorities, bits, conditions and timeouts, with     *)
(* interrupt handlers coming between any two steps.                        *)
(***************************************************************************)
EXTENDS EventGroup, SchedulerProofs

(* The loop of scan_and_wake_locked, turn by turn. *)

\* The state the loop starts with.
Start(bits) == [k |-> kern, bits |-> bits, ret |-> return_bits, yield |-> FALSE]

\* f is the loop over the first n tasks of list.
IsLoop(f, list, bits, n) ==
    f = [i \in 0..n |-> IF i = 0 THEN Start(bits) ELSE scan_step(f[i - 1], list[i])]

\* The loop takes one more turn.
LEMMA LoopLonger ==
    ASSUME NEW list, NEW bits, NEW n \in Nat, NEW f, IsLoop(f, list, bits, n)
    PROVE  \E g : IsLoop(g, list, bits, n + 1)
  <1> DEFINE g == [i \in 0..(n + 1) |-> IF i = n + 1 THEN scan_step(f[n], list[n + 1])
                                                     ELSE f[i]]
             h == [i \in 0..(n + 1) |-> IF i = 0 THEN Start(bits)
                                                 ELSE scan_step(g[i - 1], list[i])]
  <1>1. ASSUME NEW i \in 0..(n + 1) PROVE g[i] = h[i]
    <2>1. CASE i = 0
      <3>1. g[i] = f[0] /\ 0 \in 0..n
        BY <2>1
      <3>2. f[0] = Start(bits)
        BY <3>1 DEF IsLoop
      <3> QED
        BY <2>1, <3>1, <3>2
    <2>2. CASE i = n + 1
      <3>1. g[n] = f[n] /\ i # 0 /\ i - 1 = n
        BY <2>2
      <3> QED
        BY <2>2, <3>1
    <2>3. CASE i # 0 /\ i # n + 1
      <3>1. i \in 0..n /\ i - 1 \in 0..n /\ i # 0 /\ i - 1 # n + 1 /\ i - 1 \in 0..(n + 1)
        BY <2>3
      <3>2. f[i] = scan_step(f[i - 1], list[i])
        BY <3>1 DEF IsLoop
      <3>3. g[i] = f[i] /\ g[i - 1] = f[i - 1]
        BY <2>3, <3>1
      <3>4. h[i] = scan_step(g[i - 1], list[i])
        BY <3>1
      <3> QED
        BY <3>2, <3>3, <3>4
    <2> QED
      BY <2>1, <2>2, <2>3
  <1>2. g = h
    BY <1>1
  <1>3. IsLoop(g, list, bits, n + 1)
    BY <1>2 DEF IsLoop
  <1> QED
    BY <1>3

\* There is such a loop for every length: the shortest list without one has a
\* tail that has one.
LEMMA LoopExists ==
    ASSUME NEW list, NEW bits
    PROVE  \A n \in Nat : \E f : IsLoop(f, list, bits, n)
  <1> DEFINE Bad == {n \in Nat : ~\E f : IsLoop(f, list, bits, n)}
  <1>1. SUFFICES ASSUME Bad # {} PROVE FALSE
    OBVIOUS
  <1>2. PICK n \in Bad : \A m \in Bad : n <= m
    BY <1>1, LeastElement
  <1>3. n # 0
    <2> DEFINE f == [i \in 0..0 |-> Start(bits)]
    <2>1. IsLoop(f, list, bits, 0)
      <3>1. \A i \in 0..0 : i = 0
        OBVIOUS
      <3> QED
        BY <3>1 DEF IsLoop
    <2> QED
      BY <2>1
  <1>4. n - 1 \in Nat /\ n - 1 \notin Bad /\ (n - 1) + 1 = n
    BY <1>2, <1>3
  <1>5. PICK f : IsLoop(f, list, bits, n - 1)
    BY <1>4
  <1>6. \E g : IsLoop(g, list, bits, n)
    BY <1>4, <1>5, LoopLonger
  <1> QED
    BY <1>6

\* What turns defines: it starts with Start, and each turn is a scan_step.
LEMMA Turns ==
    ASSUME NEW list, Len(list) \in Nat, NEW bits
    PROVE  /\ turns(list, bits)[0] = Start(bits)
           /\ \A i \in 1..Len(list) :
                 turns(list, bits)[i] = scan_step(turns(list, bits)[i - 1], list[i])
  <1> DEFINE f == turns(list, bits)
  <1>1. f = CHOOSE g : IsLoop(g, list, bits, Len(list))
    BY DEF turns, IsLoop, Start
  <1> HIDE DEF f
  <1>2. IsLoop(f, list, bits, Len(list))
    BY <1>1, LoopExists
  <1>3. \A i \in 0..Len(list) :
            f[i] = IF i = 0 THEN Start(bits) ELSE scan_step(f[i - 1], list[i])
    BY <1>2 DEF IsLoop
  <1>4. f[0] = Start(bits)
    BY <1>3
  <1>5. \A i \in 1..Len(list) : f[i] = scan_step(f[i - 1], list[i])
    BY <1>3
  <1> QED
    BY <1>4, <1>5 DEF f

----------------------------------------------------------------------------
(* One turn: a waiter is woken out of the middle of the list. *)

\* A waiter that scan_and_wake_locked unlinks leaves the list and its timeout and
\* is ready, and no other wait is touched.
LEMMA EventWake ==
    ASSUME NEW k \in KernelType, Consistent(k, {}), NEW u \in Task,
           k.wait_list[u] = waiters
    PROVE  WokenFirst(k, event_wake(k, u), u) /\ k.state[u] = "Blocked"
  <1> DEFINE s == k.wait_lists[waiters]
             w == remove(s, u)
             a == [k EXCEPT !.wait_lists[waiters] = w]
             b == [k EXCEPT !.wait_lists[waiters] = w, !.wait_list[u] = NoList]
             k1 == WakeUp(k, waiters, u, w)
  <1>1. waiters \in Lists /\ waiters # NoList
    BY EventGroupAssumption, KernelAssumption
  <1>2. u \in Range(s) /\ k.state[u] = "Blocked"
    BY <1>1, WaitersExact
  <1>3. s \in Seq(Task) /\ IsInjective(s)
    BY <1>1, Fields DEF Consistent, WaitListed
  <1>4. w \in Seq(Task) /\ Range(w) = Range(s) \ {u} /\ IsInjective(w)
    BY <1>2, <1>3, RemoveOne
  <1>5. Ordered(s, ByPriority(k)) => Ordered(w, ByPriority(k))
    BY <1>2, <1>3, OrderedRemove
  <1>6. event_wake(k, u) = make_task_ready(delay_remove(a, u), u)
    BY DEF event_wake
  <1> HIDE DEF w
  <1>7. /\ k1 \in KernelType /\ Consistent(k1, {})
        /\ \A t \in Task : k1.state[t] = IF t = u THEN "Ready" ELSE k.state[t]
        /\ k1.priority = k.priority
        /\ k1.base_priority = k.base_priority
        /\ \A t \in Task : k1.wait_list[t] = IF t = u THEN NoList ELSE k.wait_list[t]
        /\ k1.timeout_expired = k.timeout_expired
        /\ Sorted(k) => Sorted(k1)
    BY <1>1, <1>2, <1>4, <1>5, WakeOne
  <1>8. event_wake(k, u) = k1
    <2> DEFINE c == delay_remove(a, u)
               d == delay_remove(b, u)
               c1 == [c EXCEPT !.state[u] = "Ready", !.wait_list[u] = NoList]
               d1 == [d EXCEPT !.state[u] = "Ready", !.wait_list[u] = NoList]
    <2>1. /\ a \in KernelType /\ a.state = k.state /\ b \in KernelType
          /\ b = [a EXCEPT !.wait_list[u] = NoList]
      BY <1>1, <1>4 DEF KernelType
    <2> HIDE DEF a, b
    <2>2. a.delay_list = k.delay_list /\ b.delay_list = k.delay_list
      BY <2>1 DEF KernelType, a, b
    <2>3. c \in KernelType /\ c.state = k.state /\ d = [c EXCEPT !.wait_list[u] = NoList]
      <3>1. CASE u \notin Range(k.delay_list)
        <4>1. c = a /\ d = b
          BY <2>2, <3>1 DEF delay_remove, in_delay_list
        <4> QED
          BY <2>1, <4>1
      <3>2. CASE u \in Range(k.delay_list)
        <4> DEFINE r == remove(k.delay_list, u)
        <4>1. k.delay_list \in Seq(Task) /\ IsInjective(k.delay_list)
          BY Fields DEF Consistent, DelayListed
        <4>2. r \in Seq(Task)
          BY <3>2, <4>1, RemoveOne
        <4>3. /\ c = [a EXCEPT !.delay_list = r, !.delay_left[u] = 0]
              /\ d = [b EXCEPT !.delay_list = r, !.delay_left[u] = 0]
          BY <2>2, <3>2 DEF delay_remove, in_delay_list
        <4> HIDE DEF c, d, r
        <4>4. c \in KernelType /\ c.state = k.state
          BY <2>1, <4>2, <4>3 DEF KernelType
        <4>5. d = [c EXCEPT !.wait_list[u] = NoList]
          BY <2>1, <4>2, <4>3 DEF KernelType
        <4> QED
          BY <4>4, <4>5
      <3> QED
        BY <3>1, <3>2
    <2>4. k1 = ready_add(d1, u)
      BY DEF WakeUp, b
    <2> HIDE DEF c, d
    <2>5. c1 = d1
      BY <2>3 DEF KernelType
    <2>6. u # NoTask /\ c.state[u] # "Deleted"
      BY <1>2, <2>3, KernelAssumption
    <2>7. event_wake(k, u) = make_task_ready(c, u)
      BY <1>6 DEF c
    <2> QED
      BY <2>4, <2>5, <2>6, <2>7 DEF make_task_ready
  <1> HIDE DEF k1
  <1>9. k1.state = [k.state EXCEPT ![u] = "Ready"]
    BY <1>7 DEF KernelType
  <1>10. k1.wait_list = [k.wait_list EXCEPT ![u] = NoList]
    BY <1>7 DEF KernelType
  <1> QED
    BY <1>2, <1>7, <1>8, <1>9, <1>10 DEF WokenFirst

----------------------------------------------------------------------------
(* The loop over the waiters of the group, which set_bits starts with the  *)
(* given bits.                                                             *)

WaitList == kern.wait_lists[waiters]

\* The state after i turns, and whether turn i wakes its waiter.
After(bits, i) == turns(WaitList, bits)[i]
Hit(bits, i) == bits_satisfy(After(bits, i - 1).bits, request[WaitList[i]])

\* The waiters woken in the first i turns, and the bits they have taken away.
Hits(bits, i) == {WaitList[j] : j \in {m \in 1..i : Hit(bits, m)}}
Taken(bits, i) ==
    UNION {request[WaitList[j]].mask : j \in
              {m \in 1..i : Hit(bits, m) /\ request[WaitList[m]].clear}}

\* What i turns have done.
Scanned(bits, i) ==
    LET s == After(bits, i) IN
    /\ s.k \in KernelType /\ Consistent(s.k, {})
    /\ Sorted(kern) => Sorted(s.k)
    /\ s.k.priority = kern.priority
    /\ s.k.timeout_expired = kern.timeout_expired
    /\ \A t \in Task :
          /\ s.k.state[t] = IF t \in Hits(bits, i) THEN "Ready" ELSE kern.state[t]
          /\ s.k.wait_list[t] = IF t \in Hits(bits, i) THEN NoList ELSE kern.wait_list[t]
    /\ s.bits = bits \ Taken(bits, i)
    /\ s.ret \in [Task -> SUBSET Bit]
    /\ \A j \in 1..i : Hit(bits, j) => s.ret[WaitList[j]] = After(bits, j - 1).bits
    /\ s.yield <=> \E t \in Hits(bits, i) : preempts(t)
    /\ s.yield \in BOOLEAN

\* The waiters of the group, each once.
LEMMA WaitListFacts ==
    ASSUME IInv
    PROVE  /\ waiters \in Lists /\ waiters # NoList
           /\ WaitList \in Seq(Task) /\ Len(WaitList) \in Nat
           /\ DOMAIN WaitList = 1..Len(WaitList)
           /\ \A i \in 1..Len(WaitList) : WaitList[i] \in Task
           /\ \A i, j \in 1..Len(WaitList) : WaitList[i] = WaitList[j] => i = j
           /\ Range(WaitList) = {WaitList[i] : i \in 1..Len(WaitList)}
           /\ Range(WaitList) = {t \in Task : kern.wait_list[t] = waiters}
           /\ \A t \in Range(WaitList) : kern.state[t] = "Blocked"
  <1>1. waiters \in Lists /\ waiters # NoList
    BY EventGroupAssumption, KernelAssumption
  <1>2. kern \in KernelType /\ Consistent(kern, {})
    BY Basics
  <1>3. WaitList \in Seq(Task) /\ IsInjective(WaitList)
    BY <1>1, <1>2, Fields DEF WaitList, Consistent, WaitListed
  <1>4. /\ Range(WaitList) = {t \in Task : kern.wait_list[t] = waiters}
        /\ \A t \in Range(WaitList) : kern.state[t] = "Blocked"
    BY <1>1, <1>2, WaitersExact DEF WaitList
  <1> HIDE DEF WaitList
  <1>5. /\ Range(WaitList) = {WaitList[i] : i \in 1..Len(WaitList)}
        /\ \A i, j \in 1..Len(WaitList) : WaitList[i] = WaitList[j] => i = j
    BY <1>3, RangeByIndex
  <1> QED
    BY <1>1, <1>3, <1>4, <1>5

\* The sets of woken waiters and of taken bits, turn by turn.
LEMMA HitsGrow ==
    ASSUME NEW bits, NEW i \in Nat
    PROVE  /\ Hits(bits, 0) = {} /\ Taken(bits, 0) = {}
           /\ Hits(bits, i + 1) = IF Hit(bits, i + 1)
                                  THEN Hits(bits, i) \cup {WaitList[i + 1]}
                                  ELSE Hits(bits, i)
           /\ Taken(bits, i + 1) = IF Hit(bits, i + 1) /\ request[WaitList[i + 1]].clear
                                   THEN Taken(bits, i) \cup request[WaitList[i + 1]].mask
                                   ELSE Taken(bits, i)
  <1>1. \A j : j \in 1..(i + 1) <=> j \in 1..i \/ j = i + 1
    OBVIOUS
  <1>2. 1..0 = {}
    OBVIOUS
  <1>3. Hits(bits, 0) = {} /\ Taken(bits, 0) = {}
    BY <1>2 DEF Hits, Taken
  <1>4. Hits(bits, i + 1) = IF Hit(bits, i + 1)
                            THEN Hits(bits, i) \cup {WaitList[i + 1]}
                            ELSE Hits(bits, i)
    BY <1>1 DEF Hits
  <1>5. Taken(bits, i + 1) = IF Hit(bits, i + 1) /\ request[WaitList[i + 1]].clear
                             THEN Taken(bits, i) \cup request[WaitList[i + 1]].mask
                             ELSE Taken(bits, i)
    BY <1>1 DEF Taken
  <1> QED
    BY <1>3, <1>4, <1>5

\* A turn, when the state before it is known: nothing happens, or the waiter is
\* woken with the bits as they are and takes its own away.
LEMMA OneTurn ==
    ASSUME IInv, NEW bits, NEW i \in Nat, i < Len(WaitList)
    PROVE  LET r == After(bits, i)
               s == After(bits, i + 1)
               t == WaitList[i + 1]
           IN  /\ ~Hit(bits, i + 1) => s = r
               /\ Hit(bits, i + 1) =>
                     /\ s.k = event_wake(r.k, t)
                     /\ s.bits = IF request[t].clear THEN r.bits \ request[t].mask
                                                     ELSE r.bits
                     /\ s.ret = [r.ret EXCEPT ![t] = r.bits]
                     /\ s.yield = (r.yield \/ preempts(t))
  <1> DEFINE r == After(bits, i)
             s == After(bits, i + 1)
             t == WaitList[i + 1]
  <1>1. i + 1 \in 1..Len(WaitList) /\ (i + 1) - 1 = i /\ Len(WaitList) \in Nat
    BY WaitListFacts
  <1>2. s = scan_step(r, t)
    BY <1>1, Turns DEF After
  <1>3. Hit(bits, i + 1) <=> bits_satisfy(r.bits, request[t])
    BY <1>1 DEF Hit
  <1> HIDE DEF r, s, t
  <1>4. CASE ~Hit(bits, i + 1)
    BY <1>2, <1>3, <1>4 DEF scan_step, r, s
  <1>5. CASE Hit(bits, i + 1)
    <2>1. s = [k     |-> event_wake(r.k, t),
               bits  |-> leave_bits(r.bits, request[t]),
               ret   |-> [r.ret EXCEPT ![t] = satisfied_bits(r.bits, request[t])],
               yield |-> should_yield(r.yield, t)]
      BY <1>2, <1>3, <1>5 DEF scan_step
    <2>2. /\ s.k = event_wake(r.k, t)
          /\ s.bits = leave_bits(r.bits, request[t])
          /\ s.ret = [r.ret EXCEPT ![t] = satisfied_bits(r.bits, request[t])]
          /\ s.yield = should_yield(r.yield, t)
      BY <2>1
    <2> QED
      BY <1>5, <2>2 DEF leave_bits, satisfied_bits, should_yield, r, s, t
  <1> QED
    BY <1>4, <1>5

LEMMA ScanStart ==
    ASSUME IInv, NEW bits, return_bits \in [Task -> SUBSET Bit]
    PROVE  Scanned(bits, 0)
  <1> DEFINE s == After(bits, 0)
  <1>1. s = Start(bits)
    BY WaitListFacts, Turns DEF After
  <1>2. /\ s.k = kern /\ s.bits = bits /\ s.ret = return_bits /\ s.yield = FALSE
    BY <1>1 DEF Start
  <1> HIDE DEF s
  <1>3. kern \in KernelType /\ Consistent(kern, {})
    BY Basics
  <1>4. Hits(bits, 0) = {} /\ Taken(bits, 0) = {}
    BY HitsGrow
  <1>5. \A j : j \notin 1..0
    OBVIOUS
  <1> QED
    BY <1>2, <1>3, <1>4, <1>5 DEF Scanned, s

LEMMA ScanTurn ==
    ASSUME IInv, NEW bits \in SUBSET Bit, NEW i \in Nat, i < Len(WaitList),
           Scanned(bits, i)
    PROVE  Scanned(bits, i + 1)
  <1> DEFINE r == After(bits, i)
             s == After(bits, i + 1)
             t == WaitList[i + 1]
  <1>1. /\ ~Hit(bits, i + 1) => s = r
        /\ Hit(bits, i + 1) =>
              /\ s.k = event_wake(r.k, t)
              /\ s.bits = IF request[t].clear THEN r.bits \ request[t].mask ELSE r.bits
              /\ s.ret = [r.ret EXCEPT ![t] = r.bits]
              /\ s.yield = (r.yield \/ preempts(t))
    BY OneTurn
  <1>2. /\ r.k \in KernelType /\ Consistent(r.k, {})
        /\ Sorted(kern) => Sorted(r.k)
        /\ r.k.priority = kern.priority
        /\ r.k.timeout_expired = kern.timeout_expired
    BY DEF Scanned
  <1>3. \A u \in Task :
           /\ r.k.state[u] = IF u \in Hits(bits, i) THEN "Ready" ELSE kern.state[u]
           /\ r.k.wait_list[u] = IF u \in Hits(bits, i) THEN NoList ELSE kern.wait_list[u]
    BY DEF Scanned
  <1>4. /\ r.bits = bits \ Taken(bits, i)
        /\ r.ret \in [Task -> SUBSET Bit]
        /\ \A j \in 1..i : Hit(bits, j) => r.ret[WaitList[j]] = After(bits, j - 1).bits
        /\ r.yield <=> \E u \in Hits(bits, i) : preempts(u)
        /\ r.yield \in BOOLEAN
    BY DEF Scanned
  <1>5. /\ Hits(bits, i + 1) = IF Hit(bits, i + 1) THEN Hits(bits, i) \cup {t}
                                                   ELSE Hits(bits, i)
        /\ Taken(bits, i + 1) = IF Hit(bits, i + 1) /\ request[t].clear
                                THEN Taken(bits, i) \cup request[t].mask
                                ELSE Taken(bits, i)
    BY HitsGrow
  <1>6. \A j : j \in 1..(i + 1) <=> j \in 1..i \/ j = i + 1
    OBVIOUS
  <1>7. CASE ~Hit(bits, i + 1)
    <2>1. \A j \in 1..(i + 1) : Hit(bits, j) => r.ret[WaitList[j]] = After(bits, j - 1).bits
      BY <1>4, <1>6, <1>7
    <2>2. s = r
      BY <1>1, <1>7
    <2>3. Hits(bits, i + 1) = Hits(bits, i) /\ Taken(bits, i + 1) = Taken(bits, i)
      BY <1>5, <1>7
    <2> QED
      BY <1>2, <1>3, <1>4, <2>1, <2>2, <2>3 DEF Scanned
  <1>8. CASE Hit(bits, i + 1)
    <2>1. /\ t \in Task /\ kern.wait_list[t] = waiters
          /\ i + 1 \in 1..Len(WaitList)
          /\ \A j \in 1..i : j \in 1..Len(WaitList) /\ WaitList[j] \in Task /\ WaitList[j] # t
      <3>1. /\ i + 1 \in 1..Len(WaitList) /\ i + 1 \notin 1..i
            /\ \A j \in 1..i : j \in 1..Len(WaitList)
        BY WaitListFacts
      <3>2. t \in Range(WaitList)
        BY <3>1, WaitListFacts
      <3> QED
        BY <3>1, <3>2, WaitListFacts
    <2>2. t \notin Hits(bits, i)
      BY <2>1 DEF Hits
    <2>3. r.k.wait_list[t] = waiters
      BY <1>3, <2>1, <2>2
    <2>4. WokenFirst(r.k, s.k, t)
      BY <1>1, <1>2, <1>8, <2>1, <2>3, EventWake
    <2>5. Hits(bits, i + 1) = Hits(bits, i) \cup {t}
      BY <1>5, <1>8
    <2> HIDE DEF r, s, t
    <2>6. /\ s.k \in KernelType /\ Consistent(s.k, {})
          /\ Sorted(kern) => Sorted(s.k)
          /\ s.k.priority = kern.priority
          /\ s.k.timeout_expired = kern.timeout_expired
      BY <1>2, <2>4 DEF WokenFirst
    <2>7. \A u \in Task :
             /\ s.k.state[u] = IF u \in Hits(bits, i + 1) THEN "Ready" ELSE kern.state[u]
             /\ s.k.wait_list[u] =
                   IF u \in Hits(bits, i + 1) THEN NoList ELSE kern.wait_list[u]
      <3> TAKE u \in Task
      <3>1. /\ s.k.state = [r.k.state EXCEPT ![t] = "Ready"]
            /\ s.k.wait_list = [r.k.wait_list EXCEPT ![t] = NoList]
        BY <2>4 DEF WokenFirst
      <3>2. /\ s.k.state[u] = IF u = t THEN "Ready" ELSE r.k.state[u]
            /\ s.k.wait_list[u] = IF u = t THEN NoList ELSE r.k.wait_list[u]
        BY <1>2, <2>1, <3>1 DEF KernelType
      <3> QED
        BY <1>3, <2>5, <3>2
    <2>8. s.bits = bits \ Taken(bits, i + 1)
      BY <1>1, <1>4, <1>5, <1>8
    <2>9. s.ret \in [Task -> SUBSET Bit] /\ s.ret = [r.ret EXCEPT ![t] = r.bits]
      BY <1>1, <1>4, <1>8, <2>1
    <2>10. ASSUME NEW j \in 1..(i + 1), Hit(bits, j)
           PROVE  s.ret[WaitList[j]] = After(bits, j - 1).bits
      <3>1. CASE j \in 1..i
        <4>1. WaitList[j] \in Task /\ WaitList[j] # t
          BY <2>1, <3>1
        <4>2. s.ret[WaitList[j]] = r.ret[WaitList[j]]
          BY <1>4, <2>9, <4>1
        <4> QED
          BY <1>4, <2>10, <3>1, <4>2
      <3>2. CASE j = i + 1
        <4>1. j - 1 = i /\ WaitList[j] = t
          BY <3>2 DEF t
        <4>2. s.ret[t] = r.bits
          BY <1>4, <2>1, <2>9
        <4> QED
          BY <4>1, <4>2 DEF r
      <3> QED
        BY <1>6, <3>1, <3>2
    <2>11. /\ s.yield <=> \E u \in Hits(bits, i + 1) : preempts(u)
           /\ s.yield \in BOOLEAN
      <3>1. preempts(t) \in BOOLEAN
        BY DEF preempts
      <3>2. s.yield = (r.yield \/ preempts(t))
        BY <1>1, <1>8
      <3> QED
        BY <1>4, <2>5, <3>1, <3>2
    <2> QED
      BY <2>6, <2>7, <2>8, <2>9, <2>10, <2>11 DEF Scanned, s
  <1> QED
    BY <1>7, <1>8

\* Every turn of the loop has done what Scanned says.
LEMMA ScanAll ==
    ASSUME IInv, NEW bits \in SUBSET Bit, return_bits \in [Task -> SUBSET Bit]
    PROVE  \A i \in 0..Len(WaitList) : Scanned(bits, i)
  <1> DEFINE Bad == {i \in 0..Len(WaitList) : ~Scanned(bits, i)}
  <1>1. SUFFICES ASSUME Bad # {} PROVE FALSE
    OBVIOUS
  <1>2. Len(WaitList) \in Nat /\ Bad \in SUBSET Nat
    BY WaitListFacts
  <1>3. PICK n \in Bad : \A m \in Bad : n <= m
    BY <1>1, <1>2, LeastElement
  <1>4. n # 0
    BY <1>3, ScanStart
  <1>5. n - 1 \in Nat /\ n - 1 < Len(WaitList) /\ (n - 1) + 1 = n /\ n - 1 \notin Bad
    BY <1>2, <1>3, <1>4
  <1>6. Scanned(bits, n - 1)
    BY <1>2, <1>5
  <1>7. Scanned(bits, n)
    BY <1>5, <1>6, ScanTurn
  <1> QED
    BY <1>3, <1>7

----------------------------------------------------------------------------
(* The invariant. *)

\* A wait that has failed is over.
WaitsPending ==
    \A t \in Task : kern.wait_list[t] # NoList => ~kern.timeout_expired[t]

\* The inductive invariant of EventSpec.
EventInv ==
    /\ IInv
    /\ ListsSorted
    /\ current_bits \in SUBSET Bit
    /\ request \in [Task -> RequestType]
    /\ return_bits \in [Task -> SUBSET Bit]
    /\ NobodyWaitsForSetBits
    /\ WaitsPending

\* A condition that does not hold does not hold of fewer bits.
LEMMA FewerBits ==
    ASSUME NEW a, NEW b, b \subseteq a, NEW r, ~bits_satisfy(a, r)
    PROVE  ~bits_satisfy(b, r)
  BY DEF bits_satisfy

LEMMA EventInitInv == EventInit => EventInv
  <1> SUFFICES ASSUME EventInit PROVE EventInv
    OBVIOUS
  <1>1. IInv /\ ListsSorted
    BY InitInv, InitSorted DEF EventInit
  <1>2. kern = EmptyKernel
    BY DEF EventInit, SchedInit
  <1>3. kern.wait_lists[waiters] = <<>> /\ \A t \in Task : kern.wait_list[t] = NoList
    BY <1>2, EventGroupAssumption DEF EmptyKernel
  <1>4. NobodyWaitsForSetBits /\ WaitsPending
    <2>1. Range(kern.wait_lists[waiters]) = {}
      <3>1. <<>> \in Seq(Task)
        OBVIOUS
      <3> QED
        BY <1>3, <3>1, RangeByIndex
    <2> QED
      BY <1>3, <2>1 DEF NobodyWaitsForSetBits, WaitsPending
  <1>5. NoRequest \in RequestType
    BY DEF NoRequest, RequestType
  <1> QED
    BY <1>1, <1>4, <1>5 DEF EventInit, EventInv

\* The waiter by waiter form of the invariant, for the state after a step.
LEMMA EventStep ==
    ASSUME IInv', ListsSorted',
           current_bits' \in SUBSET Bit, request' \in [Task -> RequestType],
           return_bits' \in [Task -> SUBSET Bit],
           \A t \in Task : kern'.wait_list[t] # NoList => ~kern'.timeout_expired[t],
           \A t \in Task : kern'.wait_list[t] = waiters =>
                               ~bits_satisfy(current_bits', request'[t])
    PROVE  EventInv'
  <1>1. kern' \in KernelType /\ Consistent(kern', {})
    BY DEF IInv, TypeOK, ListsConsistent
  <1>2. Range(kern'.wait_lists[waiters]) = {t \in Task : kern'.wait_list[t] = waiters}
    BY <1>1, WaitersExact, EventGroupAssumption
  <1>3. NobodyWaitsForSetBits'
    BY <1>2 DEF NobodyWaitsForSetBits
  <1>4. WaitsPending'
    BY DEF WaitsPending
  <1> QED
    BY <1>3, <1>4 DEF EventInv

LEMMA Unsatisfied ==
    ASSUME EventInv
    PROVE  \A t \in Task : kern.wait_list[t] = waiters =>
                               ~bits_satisfy(current_bits, request[t])
  <1>1. Range(WaitList) = {t \in Task : kern.wait_list[t] = waiters}
    BY WaitListFacts DEF EventInv
  <1> QED
    BY <1>1 DEF EventInv, NobodyWaitsForSetBits, WaitList

\* No waiter is woken but by the failure of its wait.
NobodyWoken ==
    \A t \in Task : kern.wait_list[t] # NoList /\ kern'.wait_list[t] = NoList =>
                        kern'.timeout_expired[t] = TRUE

LEMMA NoneWoken ==
    ASSUME IInv, NobodyWoken
    PROVE  WokenWaiters = {}
  <1>1. \A t \in Range(kern.wait_lists[waiters]) : t \in Task /\ kern.wait_list[t] # NoList
    BY WaitListFacts DEF WaitList
  <1> QED
    BY <1>1 DEF NobodyWoken, WokenWaiters

\* The scheduler ends waits only by making them fail.
LEMMA EventSchedStep ==
    ASSUME EventInv, [SchedNext]_svars,
           UNCHANGED <<current_bits, request, return_bits>>
    PROVE  EventInv' /\ NobodyWoken
  <1>1. IInv' /\ Effect
    BY NextInv, NextEffect DEF EventInv
  <1>2. ListsSorted'
    BY <1>1 DEF EventInv, Effect, KernelStep, Sorted, ListsSorted
  <1>3. WaitsKept(kern, kern')
    BY <1>1 DEF Effect, KernelStep
  <1>4. waiters # NoList
    BY EventGroupAssumption, KernelAssumption
  <1>5. \A t \in Task : kern'.wait_list[t] # NoList => ~kern'.timeout_expired[t]
    BY <1>3 DEF EventInv, WaitsPending, WaitsKept
  <1>6. \A t \in Task : kern'.wait_list[t] = waiters =>
                            ~bits_satisfy(current_bits', request'[t])
    BY <1>3, <1>4, Unsatisfied DEF WaitsKept
  <1>7. EventInv'
    BY <1>1, <1>2, <1>5, <1>6, EventStep DEF EventInv
  <1>8. NobodyWoken
    BY <1>3 DEF WaitsKept, NobodyWoken
  <1> QED
    BY <1>7, <1>8

\* Bits are taken away: wait_bits whose condition holds, and clear_bits.
LEMMA ClearStep ==
    ASSUME EventInv, current_bits' \subseteq current_bits,
           UNCHANGED <<svars, request, return_bits>>
    PROVE  EventInv' /\ NobodyWoken
  <1>1. IInv' /\ kern' = kern
    BY SameScheduler DEF EventInv, svars
  <1>2. ListsSorted'
    BY <1>1 DEF EventInv, ListsSorted
  <1>3. \A t \in Task : kern'.wait_list[t] # NoList => ~kern'.timeout_expired[t]
    BY <1>1 DEF EventInv, WaitsPending
  <1>4. \A t \in Task : kern'.wait_list[t] = waiters =>
                            ~bits_satisfy(current_bits', request'[t])
    BY <1>1, Unsatisfied, FewerBits
  <1>5. EventInv'
    BY <1>1, <1>2, <1>3, <1>4, EventStep DEF EventInv
  <1> QED
    BY <1>1, <1>5 DEF NobodyWoken

\* wait_bits parks the caller only when its condition does not hold.
LEMMA WaitBitsStep ==
    ASSUME EventInv, NEW t \in Task, NEW r \in Requests, NEW ms \in Timeouts,
           wait_bits(t, r, ms)
    PROVE  EventInv' /\ NobodyWoken
  <1>1. /\ t \in Task \ {Idle} /\ Thread(t) /\ call[t] = NoCall
        /\ ~bits_satisfy(current_bits, r)
        /\ wait_on(t, "wait_bits", waiters, ms)
        /\ request' = [request EXCEPT ![t] = r]
        /\ return_bits' = [return_bits EXCEPT ![t] = {}]
        /\ current_bits' = current_bits
    BY DEF wait_bits, Calls
  <1>2. waiters \in Lists /\ "wait_bits" \in WaitingApi /\ waiters # NoList
    BY EventGroupAssumption, KernelAssumption DEF WaitingApi
  <1>3. IInv' /\ Parked(kern, kern', t, waiters)
    BY <1>1, <1>2, WaitOn DEF EventInv
  <1>4. ListsSorted'
    BY <1>3 DEF EventInv, Sorted, ListsSorted, Parked
  <1>5. /\ \A u \in Task : kern'.wait_list[u] = IF u = t THEN waiters ELSE kern.wait_list[u]
        /\ \A u \in Task \ {t} : kern'.timeout_expired[u] = kern.timeout_expired[u]
        /\ ~kern'.timeout_expired[t]
    BY <1>3, ParkedWaits, Basics DEF EventInv
  <1>6. \A u \in Task : request'[u] = IF u = t THEN r ELSE request[u]
    BY <1>1 DEF EventInv
  <1>7. r \in RequestType /\ request' \in [Task -> RequestType]
    BY <1>1, EventGroupAssumption DEF EventInv
  <1>8. return_bits' \in [Task -> SUBSET Bit]
    BY <1>1 DEF EventInv
  <1>9. \A u \in Task : kern'.wait_list[u] # NoList => ~kern'.timeout_expired[u]
    BY <1>5 DEF EventInv, WaitsPending
  <1>10. \A u \in Task : kern'.wait_list[u] = waiters =>
                             ~bits_satisfy(current_bits', request'[u])
    BY <1>1, <1>5, <1>6, Unsatisfied
  <1>11. EventInv'
    BY <1>1, <1>3, <1>4, <1>7, <1>8, <1>9, <1>10, EventStep DEF EventInv
  <1>12. NobodyWoken
    BY <1>2, <1>5 DEF NobodyWoken
  <1> QED
    BY <1>11, <1>12

\* wait_bits returns: the caller runs, so it waits for nothing any more.
LEMMA WaitReturnStep ==
    ASSUME EventInv, NEW t \in Task, wait_bits_return(t)
    PROVE  EventInv' /\ NobodyWoken
  <1>1. /\ Thread(t) /\ call[t].op = "wait_bits" /\ call[t].at = "ret" /\ Return(t)
        /\ UNCHANGED <<kern, current_task, started, pendsv, tick_count, panic>>
        /\ current_bits' = current_bits
        /\ request' = [request EXCEPT ![t] = NoRequest]
        /\ return_bits' = [return_bits EXCEPT ![t] = {}]
    BY DEF wait_bits_return, Inside
  <1>2. t \in Task \ {Idle}
    BY <1>1 DEF EventInv, IInv, IdleReady, NoCall
  <1>3. IInv'
    BY <1>1, <1>2, ReturnStep DEF EventInv
  <1>4. kern.wait_list[t] # waiters
    <2>1. kern.state[t] = "Running"
      BY <1>1, RunningThread DEF EventInv
    <2> QED
      BY <2>1, WaitListFacts DEF EventInv
  <1>5. request' \in [Task -> RequestType] /\ return_bits' \in [Task -> SUBSET Bit]
    BY <1>1 DEF EventInv, NoRequest, RequestType
  <1>6. \A u \in Task : kern'.wait_list[u] = waiters =>
                            ~bits_satisfy(current_bits', request'[u])
    BY <1>1, <1>4, Unsatisfied DEF EventInv
  <1>7. ListsSorted' /\ \A u \in Task : kern'.wait_list[u] # NoList => ~kern'.timeout_expired[u]
    BY <1>1 DEF EventInv, ListsSorted, WaitsPending
  <1>8. EventInv'
    BY <1>1, <1>3, <1>5, <1>6, <1>7, EventStep DEF EventInv
  <1>9. NobodyWoken
    BY <1>1 DEF NobodyWoken
  <1> QED
    BY <1>8, <1>9

\* The critical section of set_bits and set_bits_from_isr: M is the set of bits
\* it is given, and H that of the waiters it wakes.
LEMMA SetBitsCases ==
    ASSUME EventInv, NEW M \in SUBSET Bit, SetBits(M)
    PROVE  LET bits == current_bits \cup M
               n == Len(WaitList)
               H == Hits(bits, n)
               yield == scan_and_wake_locked(bits).yield
           IN  /\ bits \in SUBSET Bit
               /\ \A i \in 0..n : Scanned(bits, i)
               /\ H \subseteq Task
               /\ \A t \in H : kern.state[t] = "Blocked" /\ kern.wait_list[t] = waiters
               /\ kern' \in KernelType /\ Consistent(kern', {})
               /\ Sorted(kern) => Sorted(kern')
               /\ kern'.priority = kern.priority
               /\ kern'.timeout_expired = kern.timeout_expired
               /\ \A t \in Task : kern'.state[t] = IF t \in H THEN "Ready" ELSE kern.state[t]
               /\ \A t \in Task : kern'.wait_list[t] = IF t \in H THEN NoList
                                                                 ELSE kern.wait_list[t]
               /\ current_bits' = bits \ Taken(bits, n)
               /\ return_bits' \in [Task -> SUBSET Bit]
               /\ request' = request
               /\ yield \in BOOLEAN
               /\ yield <=> \E t \in H : preempts(t)
  <1> DEFINE bits == current_bits \cup M
             n == Len(WaitList)
             H == Hits(bits, n)
             s == After(bits, n)
  <1>1. IInv /\ return_bits \in [Task -> SUBSET Bit] /\ bits \in SUBSET Bit /\ n \in Nat
    BY WaitListFacts DEF EventInv
  <1>2. scan_and_wake_locked(bits) = s
    BY DEF scan_and_wake_locked, After, WaitList
  <1>3. /\ kern' = s.k /\ current_bits' = s.bits /\ return_bits' = s.ret
        /\ request' = request
    BY <1>2 DEF SetBits
  <1> HIDE DEF bits
  <1>4. \A i \in 0..n : Scanned(bits, i)
    BY <1>1, ScanAll
  <1>5. Scanned(bits, n)
    BY <1>1, <1>4
  <1>6. H \subseteq Range(WaitList)
    BY <1>1, WaitListFacts DEF Hits
  <1>7. /\ H \subseteq Task
        /\ \A t \in H : kern.state[t] = "Blocked" /\ kern.wait_list[t] = waiters
    BY <1>1, <1>6, WaitListFacts
  <1> HIDE DEF n, H
  <1>8. /\ s.k \in KernelType /\ Consistent(s.k, {})
        /\ Sorted(kern) => Sorted(s.k)
        /\ s.k.priority = kern.priority
        /\ s.k.timeout_expired = kern.timeout_expired
    BY <1>5 DEF Scanned
  <1>9. \A t \in Task :
           /\ s.k.state[t] = IF t \in H THEN "Ready" ELSE kern.state[t]
           /\ s.k.wait_list[t] = IF t \in H THEN NoList ELSE kern.wait_list[t]
    BY <1>5 DEF Scanned, H
  <1>10. /\ s.bits = bits \ Taken(bits, n)
         /\ s.ret \in [Task -> SUBSET Bit]
         /\ s.yield <=> \E t \in H : preempts(t)
         /\ s.yield \in BOOLEAN
    BY <1>5 DEF Scanned, H
  <1> HIDE DEF s
  <1> QED
    BY <1>1, <1>2, <1>3, <1>4, <1>7, <1>8, <1>9, <1>10 DEF bits, n, H

\* Who is left in the list had its turn and was not satisfied; the turns after it
\* only take bits away.
LEMMA LeftUnsatisfied ==
    ASSUME IInv, NEW bits, \A i \in 0..Len(WaitList) : Scanned(bits, i),
           NEW t \in Task, kern.wait_list[t] = waiters, t \notin Hits(bits, Len(WaitList))
    PROVE  ~bits_satisfy(bits \ Taken(bits, Len(WaitList)), request[t])
  <1> DEFINE n == Len(WaitList)
  <1>1. n \in Nat /\ t \in Range(WaitList)
    BY WaitListFacts
  <1>2. PICK j \in 1..n : WaitList[j] = t
    BY <1>1, WaitListFacts
  <1>3. ~Hit(bits, j)
    BY <1>2 DEF Hits
  <1>4. j - 1 \in 0..n /\ \A m \in 1..(j - 1) : m \in 1..n
    BY <1>1, <1>2
  <1>5. After(bits, j - 1).bits = bits \ Taken(bits, j - 1)
    <2>1. Scanned(bits, j - 1)
      BY <1>4
    <2> QED
      BY <2>1 DEF Scanned
  <1>6. Taken(bits, j - 1) \subseteq Taken(bits, n)
    BY <1>4 DEF Taken
  <1>7. ~bits_satisfy(bits \ Taken(bits, j - 1), request[t])
    BY <1>2, <1>3, <1>5 DEF Hit
  <1> QED
    BY <1>6, <1>7, FewerBits

\* The exact effect of the critical section.
LEMMA ScanEffect ==
    ASSUME EventInv, NEW M \in SUBSET Bit, SetBits(M)
    PROVE  SetBitsEffect(M)
  <1> DEFINE bits == current_bits \cup M
             n == Len(WaitList)
             H == Hits(bits, n)
             list == kern.wait_lists[waiters]
             woken == WokenWaiters
             cleared(m) == UNION {request[list[i]].mask : i \in
                              {j \in 1..m : list[j] \in woken /\ request[list[j]].clear}}
  <1>1. /\ \A i \in 0..n : Scanned(bits, i)
        /\ kern'.timeout_expired = kern.timeout_expired
        /\ \A t \in Task : kern'.wait_list[t] = IF t \in H THEN NoList ELSE kern.wait_list[t]
        /\ current_bits' = bits \ Taken(bits, n)
    BY SetBitsCases
  <1>2. /\ list = WaitList /\ n \in Nat /\ DOMAIN list = 1..n
        /\ \A i \in 1..n : list[i] \in Task /\ list[i] \in Range(list)
        /\ \A i, j \in 1..n : list[i] = list[j] => i = j
        /\ \A t \in Range(list) : t \in Task /\ kern.wait_list[t] = waiters /\ waiters # NoList
    BY WaitListFacts DEF EventInv, WaitList
  <1>3. \A t \in Range(list) : t \in woken <=> t \in H
    BY <1>1, <1>2 DEF EventInv, WaitsPending, WokenWaiters
  <1>4. \A j \in 1..n : list[j] \in H <=> Hit(bits, j)
    BY <1>2 DEF Hits
  <1>5. \A j \in 1..n : list[j] \in woken <=> Hit(bits, j)
    BY <1>2, <1>3, <1>4
  <1>6. return_bits' = After(bits, n).ret
    BY DEF SetBits, scan_and_wake_locked, After, WaitList
  <1> HIDE DEF H, bits, woken, list
  <1>7. \A m \in 0..n : cleared(m) = Taken(bits, m)
    <2> TAKE m \in 0..n
    <2>1. \A j \in 1..m : j \in 1..n
      BY <1>2
    <2> QED
      BY <1>2, <1>5, <2>1 DEF Taken
  <1>8. current_bits' = bits \ cleared(n)
    BY <1>1, <1>2, <1>7
  <1>9. ASSUME NEW i \in 1..n
        PROVE  /\ bits_satisfy(bits \ cleared(i - 1), request[list[i]]) <=> list[i] \in woken
               /\ list[i] \in woken => return_bits'[list[i]] = bits \ cleared(i - 1)
    <2>1. i - 1 \in 0..n /\ n \in 0..n
      BY <1>2
    <2>2. After(bits, i - 1).bits = bits \ cleared(i - 1)
      <3>1. Scanned(bits, i - 1)
        BY <1>1, <2>1
      <3>2. After(bits, i - 1).bits = bits \ Taken(bits, i - 1)
        BY <3>1 DEF Scanned
      <3> QED
        BY <1>7, <2>1, <3>2
    <2> HIDE DEF cleared
    <2>3. bits_satisfy(bits \ cleared(i - 1), request[list[i]]) <=> Hit(bits, i)
      BY <1>2, <2>2 DEF Hit
    <2>4. Hit(bits, i) => return_bits'[list[i]] = After(bits, i - 1).bits
      <3>1. Scanned(bits, n)
        BY <1>1, <2>1
      <3>2. \A j \in 1..n : Hit(bits, j) =>
                After(bits, n).ret[WaitList[j]] = After(bits, j - 1).bits
        BY <3>1 DEF Scanned
      <3> QED
        BY <1>2, <1>6, <3>2
    <2> QED
      BY <1>5, <2>2, <2>3, <2>4
  <1>10. n = Len(list)
    BY <1>2
  <1> HIDE DEF n, cleared
  <1>11. /\ current_bits' = (current_bits \cup M) \ cleared(Len(list))
         /\ \A i \in DOMAIN list :
              /\ bits_satisfy((current_bits \cup M) \ cleared(i - 1), request[list[i]])
                     <=> list[i] \in woken
              /\ list[i] \in woken =>
                     return_bits'[list[i]] = (current_bits \cup M) \ cleared(i - 1)
    BY <1>2, <1>8, <1>9, <1>10 DEF bits
  <1> QED
    BY <1>11 DEF SetBitsEffect, woken, list, cleared

LEMMA SetBitsInv ==
    ASSUME EventInv, NEW M \in SUBSET Bit, SetBits(M), IInv'
    PROVE  EventInv'
  <1> DEFINE bits == current_bits \cup M
             n == Len(WaitList)
             H == Hits(bits, n)
  <1>1. /\ bits \in SUBSET Bit
        /\ \A i \in 0..n : Scanned(bits, i)
        /\ Sorted(kern) => Sorted(kern')
        /\ kern'.timeout_expired = kern.timeout_expired
        /\ \A t \in Task : kern'.wait_list[t] = IF t \in H THEN NoList ELSE kern.wait_list[t]
        /\ current_bits' = bits \ Taken(bits, n)
        /\ return_bits' \in [Task -> SUBSET Bit]
        /\ request' = request
    BY SetBitsCases
  <1>2. waiters # NoList
    BY EventGroupAssumption, KernelAssumption
  <1>3. ASSUME NEW t \in Task, kern'.wait_list[t] = waiters
        PROVE  ~bits_satisfy(current_bits', request'[t])
    <2>1. kern.wait_list[t] = waiters /\ t \notin H
      BY <1>1, <1>2, <1>3
    <2> HIDE DEF bits
    <2>2. ~bits_satisfy(bits \ Taken(bits, n), request[t])
      BY <1>1, <2>1, LeftUnsatisfied DEF EventInv
    <2> QED
      BY <1>1, <2>2
  <1>4. \A t \in Task : kern'.wait_list[t] # NoList => ~kern'.timeout_expired[t]
    BY <1>1 DEF EventInv, WaitsPending
  <1>5. ListsSorted'
    BY <1>1 DEF EventInv, Sorted, ListsSorted
  <1>6. current_bits' \in SUBSET Bit /\ request' \in [Task -> RequestType]
    BY <1>1 DEF EventInv
  <1> QED
    BY <1>1, <1>3, <1>4, <1>5, <1>6, EventStep

\* A task sets bits: it yields if any waiter it woke is above it.
LEMMA SetBitsStep ==
    ASSUME EventInv, NEW t \in Task, NEW M \in SUBSET Bit, set_bits(t, M)
    PROVE  EventInv'
  <1> DEFINE bits == current_bits \cup M
             H == Hits(bits, Len(WaitList))
             yield == scan_and_wake_locked(bits).yield
  <1>1. /\ t \in Task \ {Idle} /\ Thread(t) /\ call[t] = NoCall
        /\ SetBits(M) /\ Leave(t, "set_bits", NoTask, yield)
        /\ UNCHANGED <<current_task, started, pendsv, tick_count, panic>>
    BY DEF set_bits, Calls
  <1>2. /\ H \subseteq Task
        /\ \A u \in H : kern.state[u] = "Blocked"
        /\ kern' \in KernelType /\ Consistent(kern', {})
        /\ kern'.priority = kern.priority
        /\ \A u \in Task : kern'.state[u] = IF u \in H THEN "Ready" ELSE kern.state[u]
        /\ yield \in BOOLEAN
        /\ yield <=> \E u \in H : preempts(u)
    BY <1>1, SetBitsCases
  <1> HIDE DEF H, yield
  <1>3. /\ kern.state[t] = "Running" /\ started
        /\ \A u \in Task : kern.state[u] = "Ready" => kern.priority[u] <= kern.priority[t]
    BY <1>1, Basics, RunningThread DEF EventInv
  <1>4. current_task = t /\ t # NoTask
    BY <1>1, KernelAssumption DEF Thread
  <1>5. \A u \in Task : ~preempts(u) => kern.priority[u] <= kern.priority[t]
    BY <1>3, <1>4, Basics DEF preempts, EventInv
  <1>6. ~yield => \A u \in Task : kern'.state[u] = "Ready" =>
                                      kern'.priority[u] <= kern'.priority[t]
    BY <1>2, <1>3, <1>5
  <1>7. Woken(kern, kern')
    BY <1>2 DEF Woken
  <1>8. "set_bits" \in WakingApi
    BY DEF WakingApi
  <1>9. IInv'
    BY <1>1, <1>2, <1>6, <1>7, <1>8, LeaveStep DEF EventInv
  <1> QED
    BY <1>1, <1>9, SetBitsInv

\* An interrupt handler sets bits: it pends the switch if any waiter it woke is
\* above the current task.
LEMMA SetBitsFromIsrStep ==
    ASSUME EventInv, NEW M \in SUBSET Bit, set_bits_from_isr(M)
    PROVE  EventInv'
  <1> DEFINE bits == current_bits \cup M
             H == Hits(bits, Len(WaitList))
             yield == scan_and_wake_locked(bits).yield
  <1>1. /\ SetBits(M) /\ pendsv' = (pendsv \/ yield)
        /\ UNCHANGED <<current_task, started, tick_count, call, panic>>
    BY DEF set_bits_from_isr
  <1>2. /\ H \subseteq Task
        /\ \A u \in H : kern.state[u] = "Blocked"
        /\ kern' \in KernelType /\ Consistent(kern', {})
        /\ kern'.priority = kern.priority
        /\ \A u \in Task : kern'.state[u] = IF u \in H THEN "Ready" ELSE kern.state[u]
        /\ yield \in BOOLEAN
        /\ yield <=> \E u \in H : preempts(u)
    BY <1>1, SetBitsCases
  <1> HIDE DEF H, yield
  <1>3. yield => started
    BY <1>2 DEF preempts
  <1>4. Woken(kern, kern')
    BY <1>2 DEF Woken
  <1>5. ~yield /\ started /\ current_task # NoTask =>
            \A u \in Task : kern.state[u] = "Blocked" /\ kern'.state[u] = "Ready" =>
                                kern.priority[u] <= kern.priority[current_task]
    <2>1. current_task # NoTask => current_task \in Task
      BY DEF EventInv, IInv, TypeOK
    <2>2. started /\ current_task # NoTask =>
              \A u \in Task : ~preempts(u) => kern.priority[u] <= kern.priority[current_task]
      BY <2>1, Basics DEF preempts, EventInv
    <2>3. \A u \in Task : kern.state[u] = "Blocked" /\ kern'.state[u] = "Ready" => u \in H
      BY <1>2
    <2> QED
      BY <1>2, <2>2, <2>3
  <1>6. IInv'
    BY <1>1, <1>2, <1>3, <1>4, <1>5, IsrStep DEF EventInv
  <1> QED
    BY <1>1, <1>6, SetBitsInv

\* Only set_bits ends waits with success.
OnlySetBitsWakes == WokenWaiters # {} => \E M \in SUBSET Bit : SettingBits(M)

\* Every step of a system with an event group keeps the invariant.
LEMMA EventNextInv == EventInv /\ [EventNext]_evars => EventInv' /\ OnlySetBitsWakes
  <1> SUFFICES ASSUME EventInv, [EventNext]_evars PROVE EventInv' /\ OnlySetBitsWakes
    OBVIOUS
  <1>1. IInv
    BY DEF EventInv
  <1>2. CASE SchedNext /\ UNCHANGED <<current_bits, request, return_bits, sets>>
    BY <1>1, <1>2, EventSchedStep, NoneWoken DEF OnlySetBitsWakes
  <1>3. ASSUME NEW M \in SUBSET Bit, set_bits_from_isr(M)
        PROVE  EventInv' /\ OnlySetBitsWakes
    BY <1>3, SetBitsFromIsrStep DEF OnlySetBitsWakes, SettingBits
  <1>4. ASSUME NEW t \in Task, wait_bits_return(t)
        PROVE  EventInv' /\ OnlySetBitsWakes
    BY <1>1, <1>4, WaitReturnStep, NoneWoken DEF OnlySetBitsWakes
  <1>5. ASSUME NEW t \in Task, NEW M \in SUBSET Bit, set_bits(t, M)
        PROVE  EventInv' /\ OnlySetBitsWakes
    BY <1>5, SetBitsStep DEF OnlySetBitsWakes, SettingBits
  <1>6. ASSUME NEW t \in Task, NEW M \in SUBSET Bit, clear_bits(t, M)
        PROVE  EventInv' /\ OnlySetBitsWakes
    <2>1. current_bits' \subseteq current_bits /\ UNCHANGED <<svars, request, return_bits>>
      BY <1>6 DEF clear_bits
    <2> QED
      BY <1>1, <2>1, ClearStep, NoneWoken DEF OnlySetBitsWakes
  <1>7. ASSUME NEW t \in Task, NEW r \in Requests, wait_bits_now(t, r)
        PROVE  EventInv' /\ OnlySetBitsWakes
    <2>1. current_bits' \subseteq current_bits /\ UNCHANGED <<svars, request, return_bits>>
      BY <1>7 DEF wait_bits_now, leave_bits
    <2> QED
      BY <1>1, <2>1, ClearStep, NoneWoken DEF OnlySetBitsWakes
  <1>8. ASSUME NEW t \in Task, NEW r \in Requests, NEW ms \in Timeouts, wait_bits(t, r, ms)
        PROVE  EventInv' /\ OnlySetBitsWakes
    BY <1>1, <1>8, WaitBitsStep, NoneWoken DEF OnlySetBitsWakes
  <1>9. CASE UNCHANGED evars
    <2>1. UNCHANGED svars /\ UNCHANGED <<current_bits, request, return_bits>>
      BY <1>9 DEF evars
    <2> QED
      BY <1>1, <2>1, EventSchedStep, NoneWoken DEF OnlySetBitsWakes
  <1> QED
    BY <1>2, <1>3, <1>4, <1>5, <1>6, <1>7, <1>8, <1>9 DEF EventNext

\* The results of waits that are over stay as they are.
LEMMA EventDecided ==
    EventInv /\ WaitingListed /\ [EventNext]_evars => WaitingListed' /\ DecidedKept
  <1> SUFFICES ASSUME EventInv, WaitingListed, [EventNext]_evars
               PROVE  WaitingListed' /\ DecidedKept
    OBVIOUS
  <1>1. IInv /\ NoCall.op \notin WaitingApi /\ call \in [Task -> CallType]
    BY DEF EventInv, IInv, TypeOK, NoCall, WaitingApi
  <1>2. CASE [SchedNext]_svars
    BY <1>1, <1>2, NextEffect, SchedDecided
  <1>3. CASE UNCHANGED svars
    BY <1>3, SameDecided DEF svars
  <1>4. ASSUME NEW M \in SUBSET Bit, SetBits(M),
               \A u \in Task : call'[u].op \in WaitingApi => call'[u].op = call[u].op
        PROVE  WaitingListed' /\ DecidedKept
    <2> DEFINE H == Hits(current_bits \cup M, Len(WaitList))
    <2>1. /\ kern'.timeout_expired = kern.timeout_expired
          /\ \A t \in Task : kern'.state[t] = IF t \in H THEN "Ready" ELSE kern.state[t]
          /\ \A t \in Task : kern'.wait_list[t] = IF t \in H THEN NoList
                                                            ELSE kern.wait_list[t]
      BY <1>4, SetBitsCases
    <2> HIDE DEF H
    <2>2. WaitingListed'
      BY <1>4, <2>1 DEF WaitingListed
    <2>3. DecidedKept
      BY <2>1 DEF DecidedKept
    <2> QED
      BY <2>2, <2>3
  <1>5. ASSUME NEW M \in SUBSET Bit, set_bits_from_isr(M)
        PROVE  WaitingListed' /\ DecidedKept
    BY <1>4, <1>5 DEF set_bits_from_isr
  <1>6. ASSUME NEW t \in Task, NEW M \in SUBSET Bit, set_bits(t, M)
        PROVE  WaitingListed' /\ DecidedKept
    <2> DEFINE y == [op |-> "set_bits", at |-> "yield", arg |-> NoTask]
    <2>1. /\ SetBits(M)
          /\ call' = [call EXCEPT ![t] = y] \/ call' = [call EXCEPT ![t] = NoCall]
      BY <1>6 DEF set_bits, Leave, GoTo, Return
    <2>2. y.op \notin WaitingApi
      BY DEF WaitingApi
    <2> HIDE DEF y
    <2>3. \A u \in Task : call'[u].op \in WaitingApi => call'[u].op = call[u].op
      BY <1>1, <2>1, <2>2
    <2> QED
      BY <1>4, <2>1, <2>3
  <1>7. ASSUME NEW t \in Task, wait_bits_return(t) PROVE WaitingListed' /\ DecidedKept
    <2>1. kern' = kern /\ call' = [call EXCEPT ![t] = NoCall]
      BY <1>7 DEF wait_bits_return, Return
    <2>2. \A u \in Task : call'[u].op \in WaitingApi => call'[u].op = call[u].op
      BY <1>1, <2>1
    <2> QED
      BY <2>1, <2>2, SameDecided
  <1>8. ASSUME NEW t \in Task, NEW r \in Requests, NEW ms \in Timeouts, wait_bits(t, r, ms)
        PROVE  WaitingListed' /\ DecidedKept
    <2>1. /\ t \in Task \ {Idle} /\ Thread(t) /\ call[t] = NoCall
          /\ wait_on(t, "wait_bits", waiters, ms)
          /\ waiters \in Lists /\ "wait_bits" \in WaitingApi /\ waiters # NoList
      BY <1>8, EventGroupAssumption, KernelAssumption DEF wait_bits, Calls, WaitingApi
    <2>2. /\ Parked(kern, kern', t, waiters)
          /\ \A u \in Task \ {t} : call'[u] = call[u]
      BY <1>1, <2>1, WaitOn
    <2> QED
      BY <1>1, <2>1, <2>2, Basics, ParkedDecided
  <1> QED
    BY <1>2, <1>3, <1>5, <1>6, <1>7, <1>8
    DEF EventNext, clear_bits, wait_bits_now, evars

----------------------------------------------------------------------------
\* The invariant holds in every state of a system whose tasks and interrupt
\* handlers use an event group.
THEOREM EventGroupInvariant == EventSpec => []EventInv
  BY EventInitInv, EventNextInv, PTL DEF EventSpec

\* The types of the event group and of the scheduler under it.
THEOREM EventGroupTypes == EventSpec => []EventTypeOK
  <1> DEFINE T == sets \in {0, 1}
  <1>1. EventInit => T
    BY DEF EventInit
  <1>2. T /\ [EventNext]_evars => T'
    <2>1. [EventNext]_evars => sets' = sets \/ \E M \in SUBSET Bit : SetBits(M)
      BY DEF EventNext, evars, set_bits, set_bits_from_isr, wait_bits_now, wait_bits,
         wait_bits_return, clear_bits
    <2>2. \A M \in SUBSET Bit : SetBits(M) => sets' = 1 - sets
      BY DEF SetBits
    <2>3. [EventNext]_evars => sets' = sets \/ sets' = 1 - sets
      BY <2>1, <2>2
    <2> QED
      BY <2>3
  <1>3. EventInv /\ T => EventTypeOK
    BY DEF EventInv, IInv, EventTypeOK
  <1> HIDE DEF T
  <1> QED
    BY <1>1, <1>2, <1>3, EventGroupInvariant, PTL DEF EventSpec

\* No wake-up is lost, however many waiters ahead of it clear bits while
\* scan_and_wake_locked goes through the list.
THEOREM EventGroupNoLostWakeup == EventSpec => []NobodyWaitsForSetBits
  <1>1. EventInv => NobodyWaitsForSetBits
    BY DEF EventInv
  <1> QED
    BY <1>1, EventGroupInvariant, PTL

\* The exact effect of every call of set_bits on a list of any length: every
\* waiter is judged by the old bits and the call's mask without what those woken
\* ahead of it took, gets exactly these bits, and the group keeps what is left;
\* no other step ends a wait with success.
THEOREM EventGroupSetBits == EventSpec => SetBitsExact
  <1> DEFINE A == /\ \A M \in SUBSET Bit : SettingBits(M) => SetBitsEffect(M)
                  /\ OnlySetBitsWakes
  <1>1. EventInv /\ [EventNext]_evars => [A]_evars
    <2> SUFFICES ASSUME EventInv, [EventNext]_evars PROVE A
      OBVIOUS
    <2>1. OnlySetBitsWakes
      BY EventNextInv
    <2>2. ASSUME NEW M \in SUBSET Bit, SettingBits(M) PROVE SetBitsEffect(M)
      <3>1. SetBits(M)
        BY <2>2 DEF SettingBits, set_bits, set_bits_from_isr
      <3> QED
        BY <3>1, ScanEffect
    <2> QED
      BY <2>1, <2>2
  <1>2. SetBitsExact <=> [][A]_evars
    BY DEF SetBitsExact, OnlySetBitsWakes
  <1> HIDE DEF A
  <1> QED
    BY <1>1, <1>2, EventGroupInvariant, PTL DEF EventSpec

\* The result of wait_bits is decided once: from the set_bits, the timeout or the
\* suspension that ends the wait until wait_bits returns no step changes the
\* timeout flag it looks at or leaves a timeout behind.
THEOREM EventGroupDecidedOnce == EventSpec => WaitDecidedOnce
  <1> DEFINE A == \A t \in Task :
                      call[t].op \in WaitingApi /\ call'[t].op = call[t].op => ResultKept(t)
  <1>1. EventInit => WaitingListed
    BY DEF EventInit, SchedInit, WaitingListed, NoCall, WaitingApi
  <1>2. EventInv /\ WaitingListed /\ [EventNext]_evars => WaitingListed'
    BY EventDecided
  <1>3. EventInv /\ WaitingListed /\ [EventNext]_evars => [A]_svars
    <2> SUFFICES ASSUME EventInv, WaitingListed, [EventNext]_evars PROVE A
      OBVIOUS
    <2>1. WaitingListed' /\ DecidedKept
      BY EventDecided
    <2>2. IInv'
      BY EventNextInv DEF EventInv
    <2>3. \A t \in Task : kern.wait_list[t] # NoList => ~kern.timeout_expired[t]
      BY DEF EventInv, WaitsPending
    <2> QED
      BY <2>1, <2>2, <2>3, DecidedOnce
  <1>4. WaitDecidedOnce <=> [][A]_svars
    BY DEF WaitDecidedOnce
  <1> HIDE DEF A
  <1> QED
    BY <1>1, <1>2, <1>3, <1>4, EventGroupInvariant, PTL DEF EventSpec

\* The scheduler's own guarantees survive the calls of the event group: consistent
\* and sorted lists, no lost preemption though one call may wake many tasks, no
\* failed assert on kernel data.
THEOREM EventGroupScheduler ==
    EventSpec => [](ListsConsistent /\ ListsSorted /\ NoLostPreemption /\ KernelAssertsHold)
  <1>1. EventInv => ListsConsistent /\ ListsSorted /\ NoLostPreemption /\ KernelAssertsHold
    BY DEF EventInv, IInv
  <1> QED
    BY <1>1, EventGroupInvariant, PTL
=============================================================================
