---------------------------- MODULE KernelProofs ----------------------------
(***************************************************************************)
(* What the list operators of module TaskLists do to the set of tasks in a *)
(* list, and that they keep every task in it once; then, that the          *)
(* operations of module Kernel keep the lists consistent with the task     *)
(* states.  A task that an operation has taken out of its list is loose;   *)
(* it becomes part of the consistent kernel again when its state is        *)
(* written or it is linked into another list.                              *)
(***************************************************************************)
EXTENDS Kernel, SequenceTheorems, FiniteSetTheorems, TLAPS

\* The tasks of a list, by position.
LEMMA RangeByIndex ==
    ASSUME NEW S, NEW s \in Seq(S)
    PROVE  /\ Range(s) = {s[i] : i \in 1..Len(s)}
           /\ Range(s) \subseteq S
           /\ s = <<>> <=> Range(s) = {}
           /\ IsInjective(s) <=> \A i, j \in 1..Len(s) : s[i] = s[j] => i = j
  <1>1. Len(s) \in Nat /\ DOMAIN s = 1..Len(s) /\ \A i \in 1..Len(s) : s[i] \in S
    OBVIOUS
  <1>2. Range(s) = {s[i] : i \in 1..Len(s)}
    BY <1>1 DEF Range
  <1>3. s = <<>> <=> Range(s) = {}
    <2>1. s = <<>> <=> Len(s) = 0
      OBVIOUS
    <2>2. Len(s) # 0 => s[1] \in Range(s)
      BY <1>1, <1>2
    <2> QED
      BY <1>1, <1>2, <2>1, <2>2
  <1> QED
    BY <1>1, <1>2, <1>3 DEF IsInjective

\* push_back adds one task (TaskList::push_back).
LEMMA PushBack ==
    ASSUME NEW S, NEW s \in Seq(S), NEW t \in S
    PROVE  /\ push_back(s, t) \in Seq(S)
           /\ push_back(s, t) # <<>>
           /\ Range(push_back(s, t)) = Range(s) \cup {t}
           /\ IsInjective(s) /\ t \notin Range(s) => IsInjective(push_back(s, t))
  <1> DEFINE r == Append(s, t)
  <1>1. /\ r \in Seq(S)
        /\ Len(r) = Len(s) + 1
        /\ Len(s) \in Nat
        /\ \A i \in 1..Len(s) : r[i] = s[i]
        /\ r[Len(s) + 1] = t
    OBVIOUS
  <1> HIDE DEF r
  <1>2. \A i \in 1..Len(r) : i \in 1..Len(s) \/ i = Len(s) + 1
    BY <1>1
  <1>3. Range(s) = {s[i] : i \in 1..Len(s)} /\ Range(r) = {r[i] : i \in 1..Len(r)}
    BY <1>1, RangeByIndex
  <1>4. Range(r) = Range(s) \cup {t}
    <2>1. Range(r) \subseteq Range(s) \cup {t}
      BY <1>1, <1>2, <1>3
    <2>2. Range(s) \cup {t} \subseteq Range(r)
      BY <1>1, <1>3
    <2> QED
      BY <2>1, <2>2
  <1>5. ASSUME IsInjective(s), t \notin Range(s) PROVE IsInjective(r)
    <2>1. \A i, j \in 1..Len(s) : s[i] = s[j] => i = j
      BY <1>5, RangeByIndex
    <2>2. \A i \in 1..Len(s) : s[i] # t
      BY <1>3, <1>5
    <2>3. \A i, j \in 1..Len(r) : r[i] = r[j] => i = j
      BY <1>1, <1>2, <2>1, <2>2
    <2> QED
      BY <1>1, <2>3, RangeByIndex
  <1>6. r # <<>>
    BY <1>1
  <1> QED
    BY <1>1, <1>4, <1>5, <1>6 DEF r, push_back

\* pop_front removes the head (TaskList::pop_front).
LEMMA PopFront ==
    ASSUME NEW S, NEW s \in Seq(S), s # <<>>, IsInjective(s)
    PROVE  /\ Head(s) \in S
           /\ Head(s) \in Range(s)
           /\ pop_front(s) \in Seq(S)
           /\ Range(pop_front(s)) = Range(s) \ {Head(s)}
           /\ IsInjective(pop_front(s))
  <1> DEFINE r == Tail(s)
  <1>1. /\ Len(s) \in Nat /\ Len(s) >= 1
        /\ r \in Seq(S)
        /\ Len(r) = Len(s) - 1
        /\ \A i \in 1..Len(r) : r[i] = s[i + 1]
        /\ Head(s) = s[1] /\ s[1] \in S
    OBVIOUS
  <1> HIDE DEF r
  <1>2. \A i, j \in 1..Len(s) : s[i] = s[j] => i = j
    BY RangeByIndex
  <1>3. Range(s) = {s[i] : i \in 1..Len(s)} /\ Range(r) = {r[i] : i \in 1..Len(r)}
    BY <1>1, RangeByIndex
  <1>4. Range(r) = Range(s) \ {s[1]}
    <2>1. Range(r) \subseteq Range(s) \ {s[1]}
      BY <1>1, <1>2, <1>3
    <2>2. ASSUME NEW i \in 1..Len(s), s[i] # s[1] PROVE s[i] \in Range(r)
      <3>1. i - 1 \in 1..Len(r) /\ r[i - 1] = s[i]
        BY <1>1, <2>2
      <3> QED
        BY <1>3, <3>1
    <2> QED
      BY <1>3, <2>1, <2>2
  <1>5. IsInjective(r)
    <2>1. \A i, j \in 1..Len(r) : r[i] = r[j] => i = j
      BY <1>1, <1>2
    <2> QED
      BY <1>1, <2>1, RangeByIndex
  <1>6. s[1] \in Range(s)
    BY <1>1, <1>3
  <1> QED
    BY <1>1, <1>4, <1>5, <1>6 DEF r, pop_front

\* InsertAt, by position.
LEMMA InsertAtByIndex ==
    ASSUME NEW S, NEW s \in Seq(S), NEW i \in 1..(Len(s) + 1), NEW e \in S
    PROVE  /\ InsertAt(s, i, e) \in Seq(S)
           /\ Len(InsertAt(s, i, e)) = Len(s) + 1
           /\ \A j \in 1..(Len(s) + 1) :
                InsertAt(s, i, e)[j] = IF j < i THEN s[j]
                                       ELSE IF j = i THEN e ELSE s[j - 1]
  <1> DEFINE p == SubSeq(s, 1, i - 1)
             q == SubSeq(s, i, Len(s))
             pe == p \o <<e>>
  <1>1. Len(s) \in Nat /\ i \in Nat
    OBVIOUS
  <1>2. p \in Seq(S) /\ Len(p) = i - 1 /\ \A j \in 1..(i - 1) : p[j] = s[j]
    BY <1>1, SubSeqProperties
  <1>3. /\ q \in Seq(S) /\ Len(q) = Len(s) - i + 1
        /\ \A j \in 1..(Len(s) - i + 1) : q[j] = s[i + j - 1]
    BY <1>1, SubSeqProperties
  <1> HIDE DEF p, q
  <1>4. /\ pe \in Seq(S) /\ Len(pe) = i
        /\ \A j \in 1..(i - 1) : pe[j] = s[j]
        /\ pe[i] = e
    BY <1>1, <1>2
  <1> HIDE DEF pe
  <1>5. /\ pe \o q \in Seq(S)
        /\ Len(pe \o q) = Len(pe) + Len(q)
        /\ \A j \in 1..(Len(pe) + Len(q)) :
              (pe \o q)[j] = IF j <= Len(pe) THEN pe[j] ELSE q[j - Len(pe)]
    BY <1>3, <1>4, ConcatProperties
  <1>6. Len(pe) + Len(q) = Len(s) + 1
    BY <1>1, <1>3, <1>4
  <1>7. ASSUME NEW j \in 1..(Len(s) + 1)
        PROVE  (pe \o q)[j] = IF j < i THEN s[j]
                              ELSE IF j = i THEN e ELSE s[j - 1]
    <2>1. (pe \o q)[j] = IF j <= i THEN pe[j] ELSE q[j - i]
      BY <1>4, <1>5, <1>6
    <2>2. CASE j < i
      BY <1>1, <1>4, <2>1, <2>2
    <2>3. CASE j = i
      BY <1>1, <1>4, <2>1, <2>3
    <2>4. CASE j > i
      <3>1. j - i \in 1..(Len(s) - i + 1) /\ i + (j - i) - 1 = j - 1
        BY <1>1, <2>4
      <3> QED
        BY <1>1, <1>3, <2>1, <2>4, <3>1
    <2>5. j < i \/ j = i \/ j > i
      BY <1>1
    <2> QED
      BY <2>2, <2>3, <2>4, <2>5
  <1>8. InsertAt(s, i, e) = pe \o q
    BY DEF InsertAt, pe, p, q
  <1> QED
    BY <1>5, <1>6, <1>7, <1>8

\* RemoveAt, by position.
LEMMA RemoveAtByIndex ==
    ASSUME NEW S, NEW s \in Seq(S), NEW i \in 1..Len(s)
    PROVE  /\ RemoveAt(s, i) \in Seq(S)
           /\ Len(RemoveAt(s, i)) = Len(s) - 1
           /\ \A j \in 1..(Len(s) - 1) :
                RemoveAt(s, i)[j] = IF j < i THEN s[j] ELSE s[j + 1]
  <1> DEFINE p == SubSeq(s, 1, i - 1)
             q == SubSeq(s, i + 1, Len(s))
  <1>1. Len(s) \in Nat /\ i \in Nat
    OBVIOUS
  <1>2. p \in Seq(S) /\ Len(p) = i - 1 /\ \A j \in 1..(i - 1) : p[j] = s[j]
    BY <1>1, SubSeqProperties
  <1>3. /\ q \in Seq(S) /\ Len(q) = Len(s) - i
        /\ \A j \in 1..(Len(s) - i) : q[j] = s[i + j]
    BY <1>1, SubSeqProperties
  <1> HIDE DEF p, q
  <1>4. /\ p \o q \in Seq(S)
        /\ Len(p \o q) = Len(p) + Len(q)
        /\ \A j \in 1..(Len(p) + Len(q)) :
              (p \o q)[j] = IF j <= Len(p) THEN p[j] ELSE q[j - Len(p)]
    BY <1>2, <1>3, ConcatProperties
  <1>5. Len(p) + Len(q) = Len(s) - 1
    BY <1>1, <1>2, <1>3
  <1>6. ASSUME NEW j \in 1..(Len(s) - 1)
        PROVE  (p \o q)[j] = IF j < i THEN s[j] ELSE s[j + 1]
    <2>1. (p \o q)[j] = IF j <= i - 1 THEN p[j] ELSE q[j - (i - 1)]
      BY <1>2, <1>4, <1>5
    <2>2. CASE j < i
      BY <1>1, <1>2, <2>1, <2>2
    <2>3. CASE j >= i
      <3>1. j - (i - 1) \in 1..(Len(s) - i) /\ i + (j - (i - 1)) = j + 1
        BY <1>1, <2>3
      <3> QED
        BY <1>1, <1>3, <2>1, <2>3, <3>1
    <2>4. j < i \/ j >= i
      BY <1>1
    <2> QED
      BY <2>2, <2>3, <2>4
  <1>7. RemoveAt(s, i) = p \o q
    BY DEF RemoveAt, p, q
  <1> QED
    BY <1>4, <1>5, <1>6, <1>7

\* Insertion adds one task, wherever it goes (insert_by_priority and
\* DelayList::insert).
LEMMA Insert ==
    ASSUME NEW S, NEW s \in Seq(S), NEW i \in 1..(Len(s) + 1), NEW e \in S
    PROVE  /\ InsertAt(s, i, e) \in Seq(S)
           /\ Range(InsertAt(s, i, e)) = Range(s) \cup {e}
           /\ IsInjective(s) /\ e \notin Range(s) => IsInjective(InsertAt(s, i, e))
  <1> DEFINE r == InsertAt(s, i, e)
  <1>1. /\ r \in Seq(S)
        /\ Len(r) = Len(s) + 1
        /\ \A j \in 1..(Len(s) + 1) :
              r[j] = IF j < i THEN s[j] ELSE IF j = i THEN e ELSE s[j - 1]
    BY InsertAtByIndex
  <1> HIDE DEF r
  <1>2. Len(s) \in Nat /\ i \in Nat
    OBVIOUS
  <1>3. Range(s) = {s[j] : j \in 1..Len(s)} /\ Range(r) = {r[j] : j \in 1..Len(r)}
    BY <1>1, RangeByIndex
  <1>4. Range(r) = Range(s) \cup {e}
    <2>1. ASSUME NEW j \in 1..Len(r) PROVE r[j] \in Range(s) \cup {e}
      <3>1. CASE j < i
        BY <1>1, <1>2, <1>3, <3>1
      <3>2. CASE j = i
        BY <1>1, <1>2, <3>2
      <3>3. CASE j > i
        <4>1. j - 1 \in 1..Len(s) /\ r[j] = s[j - 1]
          BY <1>1, <1>2, <3>3
        <4> QED
          BY <1>3, <4>1
      <3> QED
        BY <1>1, <1>2, <3>1, <3>2, <3>3
    <2>2. ASSUME NEW j \in 1..Len(s) PROVE s[j] \in Range(r)
      <3>1. CASE j < i
        <4>1. j \in 1..Len(r) /\ r[j] = s[j]
          BY <1>1, <1>2, <3>1
        <4> QED
          BY <1>3, <4>1
      <3>2. CASE j >= i
        <4>1. j + 1 \in 1..Len(r) /\ r[j + 1] = s[j]
          BY <1>1, <1>2, <3>2
        <4> QED
          BY <1>3, <4>1
      <3> QED
        BY <1>2, <3>1, <3>2
    <2>3. e \in Range(r)
      BY <1>1, <1>2, <1>3
    <2> QED
      BY <1>3, <2>1, <2>2, <2>3
  <1>5. ASSUME IsInjective(s), e \notin Range(s) PROVE IsInjective(r)
    <2>1. \A j, k \in 1..Len(s) : s[j] = s[k] => j = k
      BY <1>5, RangeByIndex
    <2>2. \A j \in 1..Len(s) : s[j] # e
      BY <1>3, <1>5
    <2> DEFINE at(j) == IF j < i THEN j ELSE j - 1
    <2>3. \A j \in 1..Len(r) : j # i => at(j) \in 1..Len(s) /\ r[j] = s[at(j)]
      BY <1>1, <1>2
    <2>4. \A j, k \in 1..Len(r) : j # i /\ k # i /\ at(j) = at(k) => j = k
      BY <1>1, <1>2
    <2>5. r[i] = e /\ i \in 1..Len(r)
      BY <1>1, <1>2
    <2> HIDE DEF at
    <2>6. \A j, k \in 1..Len(r) : r[j] = r[k] => j = k
      BY <2>1, <2>2, <2>3, <2>4, <2>5
    <2> QED
      BY <1>1, <2>6, RangeByIndex
  <1> QED
    BY <1>1, <1>4, <1>5 DEF r

\* remove takes out the one occurrence of the task (TaskList::remove).
LEMMA RemoveOne ==
    ASSUME NEW S, NEW s \in Seq(S), IsInjective(s), NEW t \in Range(s)
    PROVE  /\ remove(s, t) \in Seq(S)
           /\ Range(remove(s, t)) = Range(s) \ {t}
           /\ IsInjective(remove(s, t))
  <1> DEFINE i == CHOOSE j \in DOMAIN s : s[j] = t
             r == RemoveAt(s, i)
  <1>1. Len(s) \in Nat /\ DOMAIN s = 1..Len(s)
    OBVIOUS
  <1>2. i \in 1..Len(s) /\ s[i] = t
    <2>1. \E j \in DOMAIN s : s[j] = t
      BY DEF Range
    <2> QED
      BY <1>1, <2>1
  <1> HIDE DEF i
  <1>3. /\ r \in Seq(S)
        /\ Len(r) = Len(s) - 1
        /\ \A j \in 1..(Len(s) - 1) : r[j] = IF j < i THEN s[j] ELSE s[j + 1]
    BY <1>2, RemoveAtByIndex
  <1> HIDE DEF r
  <1>4. \A j, k \in 1..Len(s) : s[j] = s[k] => j = k
    BY RangeByIndex
  <1>5. Range(s) = {s[j] : j \in 1..Len(s)} /\ Range(r) = {r[j] : j \in 1..Len(r)}
    BY <1>3, RangeByIndex
  <1>6. Range(r) = Range(s) \ {t}
    <2>1. Range(r) \subseteq Range(s) \ {t}
      BY <1>1, <1>2, <1>3, <1>4, <1>5
    <2>2. ASSUME NEW j \in 1..Len(s), s[j] # t PROVE s[j] \in Range(r)
      <3>1. CASE j < i
        <4>1. j \in 1..Len(r) /\ r[j] = s[j]
          BY <1>1, <1>2, <1>3, <3>1
        <4> QED
          BY <1>5, <4>1
      <3>2. CASE j > i
        <4>1. j - 1 \in 1..Len(r) /\ r[j - 1] = s[j]
          BY <1>1, <1>2, <1>3, <3>2
        <4> QED
          BY <1>5, <4>1
      <3> QED
        BY <1>1, <1>2, <2>2, <3>1, <3>2
    <2> QED
      BY <1>5, <2>1, <2>2
  <1>7. IsInjective(r)
    <2>1. \A j, k \in 1..Len(r) : r[j] = r[k] => j = k
      BY <1>1, <1>2, <1>3, <1>4
    <2> QED
      BY <1>3, <2>1, RangeByIndex
  <1>8. remove(s, t) = r
    BY DEF remove, r, i
  <1> QED
    BY <1>3, <1>6, <1>7, <1>8

\* A set of naturals has a least element.
LEMMA LeastElement ==
    ASSUME NEW T \in SUBSET Nat, T # {}
    PROVE  \E n \in T : \A m \in T : n <= m
  <1> DEFINE R == OpToRel(<, Nat)
  <1>1. \E n \in T : \A m \in T : ~(<<m, n>> \in R)
    BY NatLessThanWellFounded, WFMin
  <1>2. R = {ss \in Nat \X Nat : ss[1] < ss[2]}
    BY DEF OpToRel
  <1> HIDE DEF R
  <1>3. \A m, n \in Nat : m < n => <<m, n>> \in R
    BY <1>2
  <1>4. PICK n \in T : \A m \in T : ~(<<m, n>> \in R)
    BY <1>1
  <1>5. \A m \in T : ~(m < n)
    BY <1>3, <1>4, Zenon
  <1>6. \A m \in T : n <= m
    BY <1>5
  <1> QED
    BY <1>6

\* A bounded set of naturals has a largest element, and Max is it.
LEMMA MaxOfSet ==
    ASSUME NEW N \in Nat, NEW T \in SUBSET (0..N), T # {}
    PROVE  Max(T) \in T /\ \A m \in T : m <= Max(T)
  <1> DEFINE U == {N - n : n \in T}
  <1>1. U \in SUBSET Nat /\ U # {}
    <2>1. \A n \in T : N - n \in Nat
      OBVIOUS
    <2>2. PICK n \in T : TRUE
      OBVIOUS
    <2>3. N - n \in U
      OBVIOUS
    <2> QED
      BY <2>1, <2>3
  <1>2. PICK u \in U : \A v \in U : u <= v
    BY <1>1, LeastElement
  <1>3. PICK n \in T : u = N - n
    BY <1>2
  <1>4. \A m \in T : n >= m
    <2> TAKE m \in T
    <2>1. N - n <= N - m
      BY <1>2, <1>3
    <2> QED
      BY <2>1
  <1> QED
    BY <1>3, <1>4 DEF Max

\* The search for a place in a list ends in the list or one past its tail.
LEMMA SlotInList ==
    ASSUME NEW S, NEW s \in Seq(S), NEW T
    PROVE  /\ slot(s, T) \in 1..(Len(s) + 1)
           /\ \A j \in 1..(slot(s, T) - 1) : s[j] \notin T
           /\ slot(s, T) <= Len(s) => s[slot(s, T)] \in T
  <1> DEFINE C == {i \in 1..(Len(s) + 1) : i <= Len(s) => s[i] \in T}
  <1>1. Len(s) \in Nat
    OBVIOUS
  <1>2. C \in SUBSET Nat /\ Len(s) + 1 \in C
    BY <1>1
  <1>3. PICK i \in C : \A j \in C : i <= j
    BY <1>2, LeastElement
  <1>4. \A j \in 1..(i - 1) : s[j] \notin T
    BY <1>1, <1>3
  <1>5. \E x \in 1..(Len(s) + 1) : /\ \A j \in 1..(x - 1) : s[j] \notin T
                                   /\ x <= Len(s) => s[x] \in T
    BY <1>3, <1>4
  <1> QED
    BY <1>5 DEF slot

\* Joining two lists that share no task (the ready list and the woken tasks).
LEMMA Join ==
    ASSUME NEW S, NEW s \in Seq(S), NEW r \in Seq(S)
    PROVE  /\ s \o r \in Seq(S)
           /\ Range(s \o r) = Range(s) \cup Range(r)
           /\ IsInjective(s) /\ IsInjective(r) /\ Range(s) \cap Range(r) = {}
                => IsInjective(s \o r)
  <1> DEFINE c == s \o r
  <1>1. /\ c \in Seq(S)
        /\ Len(c) = Len(s) + Len(r)
        /\ \A i \in 1..(Len(s) + Len(r)) :
              c[i] = IF i <= Len(s) THEN s[i] ELSE r[i - Len(s)]
    BY ConcatProperties
  <1> HIDE DEF c
  <1>2. Len(s) \in Nat /\ Len(r) \in Nat
    OBVIOUS
  <1>3. /\ Range(s) = {s[i] : i \in 1..Len(s)}
        /\ Range(r) = {r[i] : i \in 1..Len(r)}
        /\ Range(c) = {c[i] : i \in 1..Len(c)}
    BY <1>1, RangeByIndex
  <1>4. \A i \in 1..Len(c) : \/ i \in 1..Len(s) /\ c[i] = s[i]
                             \/ i - Len(s) \in 1..Len(r) /\ c[i] = r[i - Len(s)]
    BY <1>1, <1>2
  <1>5. \A i \in 1..Len(s) : i \in 1..Len(c) /\ c[i] = s[i]
    BY <1>1, <1>2
  <1>6. \A i \in 1..Len(r) : i + Len(s) \in 1..Len(c) /\ c[i + Len(s)] = r[i]
    BY <1>1, <1>2
  <1>7. Range(c) = Range(s) \cup Range(r)
    <2>1. Range(c) \subseteq Range(s) \cup Range(r)
      BY <1>3, <1>4
    <2>2. Range(s) \subseteq Range(c)
      BY <1>3, <1>5
    <2>3. Range(r) \subseteq Range(c)
      BY <1>3, <1>6
    <2> QED
      BY <2>1, <2>2, <2>3
  <1>8. ASSUME IsInjective(s), IsInjective(r), Range(s) \cap Range(r) = {}
        PROVE  IsInjective(c)
    <2>1. /\ \A i, j \in 1..Len(s) : s[i] = s[j] => i = j
          /\ \A i, j \in 1..Len(r) : r[i] = r[j] => i = j
      BY <1>8, RangeByIndex
    <2>2. \A i \in 1..Len(s), j \in 1..Len(r) : s[i] # r[j]
      BY <1>3, <1>8
    <2>3. ASSUME NEW i \in 1..Len(c), NEW j \in 1..Len(c), c[i] = c[j] PROVE i = j
      <3>1. i \in Int /\ j \in Int
        BY <1>1, <1>2
      <3> QED
        BY <1>2, <1>4, <2>1, <2>2, <2>3, <3>1
    <2> QED
      BY <1>1, <2>3, RangeByIndex
  <1> QED
    BY <1>1, <1>7, <1>8 DEF c
\* The rank of a task of S in the list grows along the list.
LEMMA RankGrows ==
    ASSUME NEW S, NEW s \in Seq(S), NEW T,
           NEW j \in 0..Len(s), NEW i \in 1..Len(s), j < i, s[i] \in T
    PROVE  /\ rank(s, T, j) \in Nat /\ rank(s, T, i) \in Nat
           /\ rank(s, T, j) < rank(s, T, i)
  <1> DEFINE A(n) == {m \in 1..n : s[m] \in T}
  <1>1. Len(s) \in Nat /\ i \in Nat /\ j \in Nat
    OBVIOUS
  <1>2. IsFiniteSet(1..i)
    BY <1>1, FS_Interval
  <1>3. A(i) \in SUBSET (1..i) /\ A(j) \in SUBSET A(i) /\ i \in A(i) /\ i \notin A(j)
    BY <1>1
  <1>4. A(j) # A(i)
    BY <1>3
  <1> HIDE DEF A
  <1>5. IsFiniteSet(A(i))
    BY <1>2, <1>3, FS_Subset
  <1>6. /\ IsFiniteSet(A(j))
        /\ Cardinality(A(j)) <= Cardinality(A(i))
        /\ Cardinality(A(i)) = Cardinality(A(j)) => A(i) = A(j)
    BY <1>3, <1>5, FS_Subset
  <1>7. Cardinality(A(i)) \in Nat /\ Cardinality(A(j)) \in Nat
    BY <1>5, <1>6, FS_CardinalityType
  <1>8. Cardinality(A(j)) < Cardinality(A(i))
    BY <1>4, <1>6, <1>7
  <1> QED
    BY <1>7, <1>8 DEF rank, A

\* The ranks of the tasks of S are 1, 2, ... up to their number.
LEMMA RankOnto ==
    ASSUME NEW S, NEW s \in Seq(S), NEW T
    PROVE  LET N == rank(s, T, Len(s))
               I == {i \in 1..Len(s) : s[i] \in T}
           IN  /\ N \in Nat
               /\ \A i \in I : rank(s, T, i) \in 1..N
               /\ \A n \in 1..N : \E i \in I : rank(s, T, i) = n
  <1> DEFINE N == rank(s, T, Len(s))
             I == {i \in 1..Len(s) : s[i] \in T}
             f == [i \in I |-> rank(s, T, i)]
  <1>1. Len(s) \in Nat
    OBVIOUS
  <1>2. IsFiniteSet(1..Len(s))
    BY <1>1, FS_Interval
  <1>3. I \in SUBSET (1..Len(s))
    OBVIOUS
  <1>4. IsFiniteSet(I) /\ N = Cardinality(I) /\ N \in Nat
    <2>1. IsFiniteSet(I)
      BY <1>2, <1>3, FS_Subset
    <2> QED
      BY <2>1, FS_CardinalityType DEF rank
  <1>5. rank(s, T, 0) = 0
    <2>1. {j \in 1..0 : s[j] \in T} = {}
      OBVIOUS
    <2> QED
      BY <2>1, FS_EmptySet DEF rank
  <1>6. \A i \in I : rank(s, T, i) \in Nat /\ rank(s, T, i) >= 1
    <2> TAKE i \in I
    <2>1. 0 \in 0..Len(s) /\ i \in 1..Len(s) /\ 0 < i /\ s[i] \in T
      BY <1>1
    <2>2. rank(s, T, i) \in Nat /\ rank(s, T, 0) < rank(s, T, i)
      BY <2>1, RankGrows
    <2> QED
      BY <1>5, <2>2
  <1>7. \A i, j \in I : j < i => rank(s, T, j) < rank(s, T, i)
    <2> TAKE i, j \in I
    <2> HAVE j < i
    <2>1. j \in 0..Len(s) /\ i \in 1..Len(s) /\ s[i] \in T
      BY <1>1
    <2> QED
      BY <2>1, RankGrows
  <1>8. \A i \in I : rank(s, T, i) <= N
    <2> TAKE i \in I
    <2> DEFINE A == {j \in 1..i : s[j] \in T}
    <2>1. A \in SUBSET I
      BY <1>1
    <2>2. Cardinality(A) <= Cardinality(I)
      BY <1>4, <2>1, FS_Subset
    <2> QED
      BY <1>4, <2>2 DEF rank
  <1> HIDE DEF N
  <1>9. f \in [I -> 1..N]
    BY <1>4, <1>6, <1>8
  <1>10. \A i, j \in I : f[i] = f[j] => i = j
    <2> TAKE i, j \in I
    <2> HAVE f[i] = f[j]
    <2>1. rank(s, T, i) = rank(s, T, j) /\ rank(s, T, i) \in Nat
      BY <1>6
    <2>2. i \in Nat /\ j \in Nat
      BY <1>1
    <2>3. ~(i < j) /\ ~(j < i)
      BY <1>6, <1>7, <2>1
    <2> QED
      BY <2>2, <2>3
  <1>11. f \in Injection(I, 1..N)
    <2>1. DOMAIN f = I
      OBVIOUS
    <2> HIDE DEF f, I
    <2> QED
      BY <1>9, <1>10, <2>1 DEF Injection, IsInjective
  <1>12. IsFiniteSet(1..N) /\ Cardinality(1..N) = N
    BY <1>4, FS_Interval
  <1>13. f \in Surjection(I, 1..N)
    <2> HIDE DEF f, I
    <2> QED
      BY <1>4, <1>11, <1>12, FS_Injection
  <1>14. \A n \in 1..N : \E i \in I : f[i] = n
    <2> HIDE DEF f, I
    <2> QED
      BY <1>13 DEF Surjection
  <1> QED
    BY <1>4, <1>9, <1>14 DEF N

\* o reads the list s at increasing positions h[1], h[2], ... which are those of
\* the tasks of T.
Reads(o, h, s, T) ==
    /\ h \in [1..Len(o) -> 1..Len(s)]
    /\ \A n \in 1..Len(o) : o[n] = s[h[n]] /\ s[h[n]] \in T
    /\ \A m, n \in 1..Len(o) : m < n => h[m] < h[n]
    /\ \A i \in 1..Len(s) : s[i] \in T => \E n \in 1..Len(o) : h[n] = i

\* Only keeps the tasks of T and their order.
LEMMA OnlyByIndex ==
    ASSUME NEW S, NEW s \in Seq(S), NEW T
    PROVE  Only(s, T) \in Seq(S) /\ \E h : Reads(Only(s, T), h, s, T)
  <1> DEFINE N == rank(s, T, Len(s))
             I == {i \in 1..Len(s) : s[i] \in T}
             at(n) == CHOOSE i \in DOMAIN s : s[i] \in T /\ rank(s, T, i) = n
             h == [n \in 1..N |-> at(n)]
             o == [n \in 1..N |-> s[at(n)]]
  <1>1. Len(s) \in Nat /\ DOMAIN s = 1..Len(s)
    OBVIOUS
  <1>2. /\ N \in Nat
        /\ \A i \in I : rank(s, T, i) \in 1..N
        /\ \A n \in 1..N : \E i \in I : rank(s, T, i) = n
    BY RankOnto
  <1>3. Only(s, T) = o
    BY DEF Only
  <1> HIDE DEF N
  <1>4. \A n \in 1..N : at(n) \in I /\ rank(s, T, at(n)) = n
    <2> TAKE n \in 1..N
    <2>1. \E i \in DOMAIN s : s[i] \in T /\ rank(s, T, i) = n
      BY <1>1, <1>2
    <2>2. at(n) \in DOMAIN s /\ s[at(n)] \in T /\ rank(s, T, at(n)) = n
      BY <2>1
    <2> HIDE DEF at
    <2> QED
      BY <1>1, <2>2
  <1>5. \A m, n \in 1..N : at(m) = at(n) => m = n
    <2> HIDE DEF at
    <2> QED
      BY <1>4
  <1>6. \A i \in I : at(rank(s, T, i)) = i
    <2> TAKE i \in I
    <2> DEFINE j == at(rank(s, T, i))
    <2>1. j \in I /\ rank(s, T, j) = rank(s, T, i)
      BY <1>2, <1>4
    <2> HIDE DEF j
    <2>2. i \in 1..Len(s) /\ j \in 1..Len(s) /\ s[i] \in T /\ s[j] \in T
      BY <2>1
    <2>3. ~(i < j)
      <3> SUFFICES ASSUME i < j PROVE FALSE
        OBVIOUS
      <3>1. i \in 0..Len(s)
        BY <1>1, <2>2
      <3>2. rank(s, T, i) < rank(s, T, j) /\ rank(s, T, i) \in Nat
        BY <2>2, <3>1, RankGrows
      <3> QED
        BY <2>1, <3>2
    <2>4. ~(j < i)
      <3> SUFFICES ASSUME j < i PROVE FALSE
        OBVIOUS
      <3>1. j \in 0..Len(s)
        BY <1>1, <2>2
      <3>2. rank(s, T, j) < rank(s, T, i) /\ rank(s, T, i) \in Nat
        BY <2>2, <3>1, RankGrows
      <3> QED
        BY <2>1, <3>2
    <2>5. i = j
      BY <1>1, <2>2, <2>3, <2>4
    <2> QED
      BY <2>5 DEF j
  <1>7. \A m, n \in 1..N : m < n => at(m) < at(n)
    <2> TAKE m, n \in 1..N
    <2> HAVE m < n
    <2>1. /\ at(m) \in 1..Len(s) /\ at(n) \in 1..Len(s)
          /\ s[at(m)] \in T /\ s[at(n)] \in T
          /\ rank(s, T, at(m)) = m /\ rank(s, T, at(n)) = n
      BY <1>4
    <2> HIDE DEF at
    <2>2. ~(at(n) < at(m))
      <3> SUFFICES ASSUME at(n) < at(m) PROVE FALSE
        OBVIOUS
      <3>1. at(n) \in 0..Len(s)
        BY <1>1, <2>1
      <3>2. rank(s, T, at(n)) < rank(s, T, at(m))
        BY <2>1, <3>1, RankGrows
      <3> QED
        BY <1>2, <2>1, <3>2
    <2>3. at(m) # at(n)
      BY <1>2, <1>5
    <2> QED
      BY <1>1, <2>1, <2>2, <2>3
  <1> HIDE DEF at
  <1>8. \A n \in 1..N : s[at(n)] \in S /\ s[at(n)] \in T /\ at(n) \in 1..Len(s)
    BY <1>1, <1>4
  <1>9. o \in Seq(S) /\ Len(o) = N
    BY <1>2, <1>8
  <1>10. h \in [1..N -> 1..Len(s)] /\ DOMAIN h = 1..N
    BY <1>8
  <1>11. \A n \in 1..N : o[n] = s[h[n]] /\ s[h[n]] \in T
    BY <1>8
  <1>12. \A m, n \in 1..N : m < n => h[m] < h[n]
    BY <1>7
  <1>13. \A i \in 1..Len(s) : s[i] \in T => \E n \in 1..N : h[n] = i
    <2> TAKE i \in 1..Len(s)
    <2> HAVE s[i] \in T
    <2>1. rank(s, T, i) \in 1..N /\ at(rank(s, T, i)) = i
      BY <1>2, <1>6
    <2> QED
      BY <2>1
  <1> HIDE DEF h, o
  <1>14. Reads(o, h, s, T)
    BY <1>9, <1>10, <1>11, <1>12, <1>13 DEF Reads
  <1> QED
    BY <1>3, <1>9, <1>14

\* Only as a set: it keeps the tasks of T, each once.
LEMMA OnlyKeeps ==
    ASSUME NEW S, NEW s \in Seq(S), NEW T
    PROVE  /\ Only(s, T) \in Seq(S)
           /\ Range(Only(s, T)) = Range(s) \cap T
           /\ IsInjective(s) => IsInjective(Only(s, T))
  <1> DEFINE o == Only(s, T)
  <1>1. o \in Seq(S)
    BY OnlyByIndex
  <1>2. PICK h : Reads(o, h, s, T)
    BY OnlyByIndex
  <1> HIDE DEF o
  <1>3. Len(o) \in Nat /\ Len(s) \in Nat
    BY <1>1
  <1>4. Range(s) = {s[i] : i \in 1..Len(s)} /\ Range(o) = {o[i] : i \in 1..Len(o)}
    BY <1>1, RangeByIndex
  <1>5. Range(o) = Range(s) \cap T
    <2>1. ASSUME NEW n \in 1..Len(o) PROVE o[n] \in Range(s) \cap T
      <3>1. h[n] \in 1..Len(s) /\ o[n] = s[h[n]] /\ s[h[n]] \in T
        BY <1>2 DEF Reads
      <3> QED
        BY <1>4, <3>1
    <2>2. ASSUME NEW i \in 1..Len(s), s[i] \in T PROVE s[i] \in Range(o)
      <3>1. PICK n \in 1..Len(o) : h[n] = i
        BY <1>2, <2>2 DEF Reads
      <3>2. n \in 1..Len(o) /\ o[n] = s[i]
        BY <1>2, <3>1 DEF Reads
      <3> QED
        BY <1>4, <3>2
    <2> QED
      BY <1>4, <2>1, <2>2
  <1>6. ASSUME IsInjective(s) PROVE IsInjective(o)
    <2>1. \A i, j \in 1..Len(s) : s[i] = s[j] => i = j
      BY <1>6, RangeByIndex
    <2>2. ASSUME NEW m \in 1..Len(o), NEW n \in 1..Len(o), o[m] = o[n] PROVE m = n
      <3>1. h[m] \in 1..Len(s) /\ h[n] \in 1..Len(s) /\ s[h[m]] = s[h[n]]
        BY <1>2, <2>2 DEF Reads
      <3>2. h[m] = h[n] /\ h[m] \in Int
        BY <2>1, <3>1
      <3>3. ~(m < n) /\ ~(n < m)
        BY <1>2, <3>2 DEF Reads
      <3> QED
        BY <1>3, <3>3
    <2> QED
      BY <1>1, <2>2, RangeByIndex
  <1> QED
    BY <1>1, <1>5, <1>6 DEF o

----------------------------------------------------------------------------
(* Order: a list is ordered by a relation R if every task of it is related *)
(* to all that follow.                                                     *)
Ordered(s, R) == \A i, j \in DOMAIN s : i < j => <<s[i], s[j]>> \in R

\* A relation that holds of more pairs of the list's tasks orders it too.
LEMMA OrderedMore ==
    ASSUME NEW S, NEW s \in Seq(S), NEW R, NEW Q, Ordered(s, R),
           \A u, v \in Range(s) : <<u, v>> \in R => <<u, v>> \in Q
    PROVE  Ordered(s, Q)
  <1>1. \A i \in DOMAIN s : s[i] \in Range(s)
    BY DEF Range
  <1> QED
    BY <1>1 DEF Ordered

\* TaskList::pop_front keeps the order of the rest.
LEMMA OrderedPop ==
    ASSUME NEW S, NEW s \in Seq(S), s # <<>>, NEW R, Ordered(s, R)
    PROVE  /\ Ordered(pop_front(s), R)
           /\ \A u \in Range(pop_front(s)) : <<Head(s), u>> \in R
  <1> DEFINE r == Tail(s)
  <1>1. /\ Len(s) \in Nat /\ Len(s) >= 1 /\ DOMAIN s = 1..Len(s)
        /\ r \in Seq(S) /\ DOMAIN r = 1..Len(r)
        /\ Len(r) = Len(s) - 1
        /\ \A i \in 1..Len(r) : r[i] = s[i + 1]
        /\ Head(s) = s[1]
    OBVIOUS
  <1> HIDE DEF r
  <1>2. Ordered(r, R)
    <2>1. \A i \in DOMAIN r : i \in Int /\ i + 1 \in DOMAIN s /\ r[i] = s[i + 1]
      BY <1>1
    <2>2. \A i, j \in DOMAIN r : i < j => i + 1 < j + 1
      BY <2>1
    <2> QED
      BY <2>1, <2>2 DEF Ordered
  <1>3. \A i \in 1..Len(r) : <<s[1], r[i]>> \in R
    BY <1>1 DEF Ordered
  <1>4. Range(r) = {r[i] : i \in 1..Len(r)}
    BY <1>1, RangeByIndex
  <1> QED
    BY <1>1, <1>2, <1>3, <1>4 DEF r, pop_front

\* TaskList::remove and DelayList::remove keep the order of the rest.
LEMMA OrderedRemove ==
    ASSUME NEW S, NEW s \in Seq(S), NEW t \in Range(s), NEW R, Ordered(s, R)
    PROVE  Ordered(remove(s, t), R)
  <1> DEFINE i == CHOOSE j \in DOMAIN s : s[j] = t
             r == RemoveAt(s, i)
  <1>1. Len(s) \in Nat /\ DOMAIN s = 1..Len(s)
    OBVIOUS
  <1>2. i \in 1..Len(s)
    <2>1. \E j \in DOMAIN s : s[j] = t
      BY DEF Range
    <2> QED
      BY <1>1, <2>1
  <1> HIDE DEF i
  <1>3. /\ r \in Seq(S)
        /\ Len(r) = Len(s) - 1
        /\ \A j \in 1..(Len(s) - 1) : r[j] = IF j < i THEN s[j] ELSE s[j + 1]
    BY <1>2, RemoveAtByIndex
  <1> HIDE DEF r
  <1>4. DOMAIN r = 1..(Len(s) - 1)
    BY <1>3
  <1> DEFINE at(j) == IF j < i THEN j ELSE j + 1
  <1>5. \A j \in DOMAIN r : at(j) \in DOMAIN s /\ r[j] = s[at(j)]
    BY <1>1, <1>2, <1>3, <1>4
  <1>6. \A j, n \in DOMAIN r : j < n => at(j) < at(n)
    BY <1>1, <1>2, <1>4
  <1> HIDE DEF at
  <1>7. Ordered(r, R)
    BY <1>5, <1>6 DEF Ordered
  <1>8. remove(s, t) = r
    BY DEF remove, r, i
  <1> QED
    BY <1>7, <1>8

\* A loop that unlinks tasks one by one keeps the order of the rest.
LEMMA OrderedOnly ==
    ASSUME NEW S, NEW s \in Seq(S), NEW T, NEW R, Ordered(s, R)
    PROVE  Ordered(Only(s, T), R)
  <1> DEFINE o == Only(s, T)
  <1>1. o \in Seq(S)
    BY OnlyByIndex
  <1>2. PICK h : Reads(o, h, s, T)
    BY OnlyByIndex
  <1> HIDE DEF o
  <1>3. DOMAIN o = 1..Len(o) /\ DOMAIN s = 1..Len(s)
    BY <1>1
  <1>4. Ordered(o, R)
    BY <1>2, <1>3 DEF Ordered, Reads
  <1> QED
    BY <1>4 DEF o

\* Insertion before the first task of T keeps the order, if e may follow every
\* task outside T, and precede every task of T and what may follow one.
LEMMA OrderedInsert ==
    ASSUME NEW S, NEW s \in Seq(S), NEW T, NEW e \in S, NEW R, Ordered(s, R),
           \A u \in Range(s) \ T : <<u, e>> \in R,
           \A u \in Range(s) \cap T : <<e, u>> \in R,
           \A u \in Range(s) \cap T : \A v \in Range(s) : <<u, v>> \in R => <<e, v>> \in R
    PROVE  Ordered(InsertAt(s, slot(s, T), e), R)
  <1> DEFINE i == slot(s, T)
             r == InsertAt(s, i, e)
  <1>1. Len(s) \in Nat /\ DOMAIN s = 1..Len(s)
    OBVIOUS
  <1>2. /\ i \in 1..(Len(s) + 1)
        /\ \A j \in 1..(i - 1) : s[j] \notin T
        /\ i <= Len(s) => s[i] \in T
    BY SlotInList
  <1> HIDE DEF i
  <1>3. /\ r \in Seq(S)
        /\ Len(r) = Len(s) + 1
        /\ \A j \in 1..(Len(s) + 1) :
              r[j] = IF j < i THEN s[j] ELSE IF j = i THEN e ELSE s[j - 1]
    BY <1>2, InsertAtByIndex
  <1> HIDE DEF r
  <1>4. DOMAIN r = 1..(Len(s) + 1)
    BY <1>1, <1>3
  <1>5. \A j \in 1..Len(s) : s[j] \in Range(s)
    BY <1>1 DEF Range
  <1>6. \A j \in 1..(i - 1) : <<s[j], e>> \in R
    BY <1>1, <1>2, <1>5
  <1>7. \A j \in i..Len(s) : <<e, s[j]>> \in R
    <2> TAKE j \in i..Len(s)
    <2>1. i \in 1..Len(s) /\ j \in 1..Len(s) /\ s[i] \in T
      BY <1>1, <1>2
    <2>2. CASE j = i
      BY <1>5, <2>1, <2>2
    <2>3. CASE j # i
      <3>1. <<s[i], s[j]>> \in R
        BY <1>1, <2>1, <2>3 DEF Ordered
      <3> QED
        BY <1>5, <2>1, <3>1
    <2> QED
      BY <2>2, <2>3
  <1>8. ASSUME NEW j \in DOMAIN r, NEW n \in DOMAIN r, j < n
        PROVE  <<r[j], r[n]>> \in R
    <2>1. j \in Int /\ n \in Int /\ i \in Int /\ j \in 1..(Len(s) + 1) /\ n \in 1..(Len(s) + 1)
      BY <1>1, <1>2, <1>4
    <2>2. CASE n < i
      <3>1. r[j] = s[j] /\ r[n] = s[n] /\ j \in 1..Len(s) /\ n \in 1..Len(s)
        BY <1>1, <1>2, <1>3, <1>8, <2>1, <2>2
      <3> QED
        BY <1>1, <1>8, <3>1 DEF Ordered
    <2>3. CASE n = i
      <3>1. r[j] = s[j] /\ r[n] = e /\ j \in 1..(i - 1)
        BY <1>1, <1>2, <1>3, <1>8, <2>1, <2>3
      <3> QED
        BY <1>6, <3>1
    <2>4. CASE n > i /\ j = i
      <3>1. r[j] = e /\ r[n] = s[n - 1] /\ n - 1 \in i..Len(s)
        BY <1>1, <1>2, <1>3, <1>8, <2>1, <2>4
      <3> QED
        BY <1>7, <3>1
    <2>5. CASE n > i /\ j < i
      <3>1. r[j] = s[j] /\ r[n] = s[n - 1] /\ j \in 1..Len(s) /\ n - 1 \in 1..Len(s) /\ j < n - 1
        BY <1>1, <1>2, <1>3, <1>8, <2>1, <2>5
      <3> QED
        BY <1>1, <3>1 DEF Ordered
    <2>6. CASE n > i /\ j > i
      <3>1. /\ r[j] = s[j - 1] /\ r[n] = s[n - 1] /\ j - 1 < n - 1
            /\ j - 1 \in 1..Len(s) /\ n - 1 \in 1..Len(s)
        BY <1>1, <1>2, <1>3, <1>8, <2>1, <2>6
      <3> QED
        BY <1>1, <3>1 DEF Ordered
    <2> QED
      BY <2>1, <2>2, <2>3, <2>4, <2>5, <2>6
  <1>9. Ordered(r, R)
    BY <1>8 DEF Ordered
  <1> QED
    BY <1>9 DEF r, i

----------------------------------------------------------------------------
(* The operations of module Kernel. *)

\* t is linked nowhere.
Loose(k, t) ==
    /\ \A p \in Priorities : t \notin Range(k.ready_lists[p])
    /\ \A l \in Lists : t \notin Range(k.wait_lists[l])
    /\ t \notin Range(k.delay_list)

\* The types of the fields.
LEMMA Fields ==
    ASSUME NEW k \in KernelType
    PROVE  /\ \A t \in Task : /\ k.state[t] \in TaskStates
                              /\ k.priority[t] \in Priorities
                              /\ k.base_priority[t] \in Priorities
                              /\ k.delay_left[t] \in Nat
                              /\ k.wait_list[t] \in Lists \cup {NoList}
                              /\ k.timeout_expired[t] \in BOOLEAN
           /\ \A p \in Priorities : /\ k.ready_lists[p] \in Seq(Task)
                                    /\ Range(k.ready_lists[p]) \subseteq Task
           /\ \A l \in Lists : /\ k.wait_lists[l] \in Seq(Task)
                               /\ Range(k.wait_lists[l]) \subseteq Task
           /\ k.delay_list \in Seq(Task)
           /\ Range(k.delay_list) \subseteq Task
           /\ k.ready_bitmask \subseteq Priorities
  <1>1. /\ \A p \in Priorities : k.ready_lists[p] \in Seq(Task)
        /\ \A l \in Lists : k.wait_lists[l] \in Seq(Task)
        /\ k.delay_list \in Seq(Task)
    BY DEF KernelType
  <1>2. /\ \A p \in Priorities : Range(k.ready_lists[p]) \subseteq Task
        /\ \A l \in Lists : Range(k.wait_lists[l]) \subseteq Task
        /\ Range(k.delay_list) \subseteq Task
    BY <1>1, RangeByIndex
  <1> QED
    BY <1>1, <1>2 DEF KernelType

\* A task that is neither ready nor blocked is in no list.
LEMMA NotListed ==
    ASSUME NEW k \in KernelType, Consistent(k, {}), NEW t \in Task,
           k.state[t] \notin {"Ready", "Blocked"}
    PROVE  Loose(k, t)
  BY DEF Loose, Consistent, ReadyListed, WaitListed, DelayListed

\* Writing the state of a loose task leaves the rest of the kernel consistent.
LEMMA SetState ==
    ASSUME NEW k \in KernelType, NEW t \in Task, Consistent(k, {t}), Loose(k, t),
           NEW x \in TaskStates
    PROVE  LET k1 == [k EXCEPT !.state[t] = x]
           IN  /\ k1 \in KernelType
               /\ Consistent(k1, {t})
               /\ Loose(k1, t)
               /\ x \notin {"Ready", "Blocked"} => Consistent(k1, {})
  <1> DEFINE k1 == [k EXCEPT !.state[t] = x]
  <1>1. /\ k1 \in KernelType
        /\ \A u \in Task : k1.state[u] = IF u = t THEN x ELSE k.state[u]
        /\ k1.priority = k.priority
        /\ k1.ready_lists = k.ready_lists
        /\ k1.ready_bitmask = k.ready_bitmask
        /\ k1.delay_list = k.delay_list
        /\ k1.delay_left = k.delay_left
        /\ k1.wait_lists = k.wait_lists
        /\ k1.wait_list = k.wait_list
    BY DEF KernelType
  <1> HIDE DEF k1
  <1>2. Loose(k1, t)
    BY <1>1 DEF Loose
  <1>3. ReadyListed(k1)
    BY <1>1, Fields DEF Loose, Consistent, ReadyListed
  <1>4. ReadyComplete(k1, {t}) /\ (x # "Ready" => ReadyComplete(k1, {}))
    BY <1>1 DEF Consistent, ReadyComplete
  <1>5. BitmaskExact(k1)
    BY <1>1 DEF Consistent, BitmaskExact
  <1>6. WaitListed(k1)
    BY <1>1, Fields DEF Loose, Consistent, WaitListed
  <1>7. WaitComplete(k1)
    BY <1>1 DEF Consistent, WaitComplete
  <1>8. DelayListed(k1)
    BY <1>1, Fields DEF Loose, Consistent, DelayListed, in_delay_list
  <1>9. BlockedListed(k1, {t}) /\ (x # "Blocked" => BlockedListed(k1, {}))
    BY <1>1 DEF Consistent, BlockedListed, in_delay_list
  <1> QED
    BY <1>1, <1>2, <1>3, <1>4, <1>5, <1>6, <1>7, <1>8, <1>9 DEF k1, Consistent

\* ReadyManager::add links a loose ready task.
LEMMA ReadyAdd ==
    ASSUME NEW k \in KernelType, NEW t \in Task, Consistent(k, {t}), Loose(k, t),
           k.state[t] = "Ready"
    PROVE  /\ ready_add(k, t) \in KernelType
           /\ Consistent(ready_add(k, t), {})
           /\ ready_add(k, t).state = k.state
           /\ ready_add(k, t).priority = k.priority
  <1> DEFINE p == k.priority[t]
             k1 == ready_add(k, t)
  <1>1. p \in Priorities /\ k.ready_lists[p] \in Seq(Task)
    BY Fields
  <1>2. /\ push_back(k.ready_lists[p], t) \in Seq(Task)
        /\ push_back(k.ready_lists[p], t) # <<>>
        /\ Range(push_back(k.ready_lists[p], t)) = Range(k.ready_lists[p]) \cup {t}
        /\ IsInjective(push_back(k.ready_lists[p], t))
    <2>1. IsInjective(k.ready_lists[p]) /\ t \notin Range(k.ready_lists[p])
      BY <1>1 DEF Loose, Consistent, ReadyListed
    <2> HIDE DEF p
    <2> QED
      BY <1>1, <2>1, PushBack
  <1>3. /\ k1 \in KernelType
        /\ k1.state = k.state
        /\ k1.priority = k.priority
        /\ k1.ready_lists \in [Priorities -> Seq(Task)]
        /\ \A q \in Priorities :
              k1.ready_lists[q] = IF q = p THEN push_back(k.ready_lists[p], t)
                                           ELSE k.ready_lists[q]
        /\ k1.ready_bitmask = k.ready_bitmask \cup {p}
        /\ k1.delay_list = k.delay_list
        /\ k1.delay_left = k.delay_left
        /\ k1.wait_lists = k.wait_lists
        /\ k1.wait_list = k.wait_list
    BY <1>1, <1>2 DEF KernelType, ready_add
  <1> HIDE DEF k1
  <1>4. ReadyListed(k1)
    BY <1>1, <1>2, <1>3, Fields DEF Consistent, ReadyListed
  <1>5. ReadyComplete(k1, {})
    <2> SUFFICES ASSUME NEW u \in Task, k1.state[u] = "Ready"
                 PROVE  u \in Range(k1.ready_lists[k1.priority[u]])
      BY DEF ReadyComplete
    <2> DEFINE q == k.priority[u]
    <2>1. /\ q \in Priorities /\ k1.priority[u] = q
          /\ u # t => u \in Range(k.ready_lists[q])
          /\ u = t => q = p
      BY <1>3, Fields DEF Consistent, ReadyComplete
    <2> HIDE DEF q, p
    <2> QED
      BY <1>2, <1>3, <2>1
  <1>6. BitmaskExact(k1)
    BY <1>1, <1>2, <1>3 DEF Consistent, BitmaskExact
  <1>7. WaitListed(k1) /\ WaitComplete(k1)
    BY <1>3 DEF Consistent, WaitListed, WaitComplete
  <1>8. DelayListed(k1) /\ BlockedListed(k1, {})
    BY <1>3 DEF Consistent, DelayListed, BlockedListed, in_delay_list
  <1> QED
    BY <1>3, <1>4, <1>5, <1>6, <1>7, <1>8 DEF k1, Consistent

\* ReadyManager::remove takes a ready task out of its list.
LEMMA ReadyRemove ==
    ASSUME NEW k \in KernelType, NEW t \in Task, Consistent(k, {}),
           k.state[t] = "Ready"
    PROVE  /\ ready_remove(k, t) \in KernelType
           /\ Consistent(ready_remove(k, t), {t})
           /\ Loose(ready_remove(k, t), t)
           /\ ready_remove(k, t).state = k.state
           /\ ready_remove(k, t).priority = k.priority
  <1> DEFINE p == k.priority[t]
             left == remove(k.ready_lists[p], t)
             k1 == ready_remove(k, t)
  <1>1. p \in Priorities /\ k.ready_lists[p] \in Seq(Task)
    BY Fields
  <1>2. t \in Range(k.ready_lists[p]) /\ IsInjective(k.ready_lists[p])
    BY <1>1 DEF Consistent, ReadyComplete, ReadyListed
  <1>3. /\ left \in Seq(Task)
        /\ Range(left) = Range(k.ready_lists[p]) \ {t}
        /\ IsInjective(left)
    BY <1>1, <1>2, RemoveOne
  <1>4. /\ k1 \in KernelType
        /\ k1.state = k.state
        /\ k1.priority = k.priority
        /\ k1.ready_lists \in [Priorities -> Seq(Task)]
        /\ \A q \in Priorities :
              k1.ready_lists[q] = IF q = p THEN left ELSE k.ready_lists[q]
        /\ k1.ready_bitmask = IF left = <<>> THEN k.ready_bitmask \ {p}
                                             ELSE k.ready_bitmask
        /\ k1.delay_list = k.delay_list
        /\ k1.delay_left = k.delay_left
        /\ k1.wait_lists = k.wait_lists
        /\ k1.wait_list = k.wait_list
    BY <1>1, <1>3 DEF KernelType, ready_remove
  <1> HIDE DEF k1, left
  <1>5. ReadyListed(k1)
    BY <1>1, <1>3, <1>4 DEF Consistent, ReadyListed
  <1>6. ReadyComplete(k1, {t})
    BY <1>1, <1>3, <1>4, Fields DEF Consistent, ReadyComplete
  <1>7. BitmaskExact(k1)
    <2>1. k.ready_lists[p] # <<>>
      BY <1>1, <1>2, RangeByIndex
    <2> QED
      BY <1>1, <1>4, <2>1 DEF Consistent, BitmaskExact
  <1>8. WaitListed(k1) /\ WaitComplete(k1)
    BY <1>4 DEF Consistent, WaitListed, WaitComplete
  <1>9. DelayListed(k1) /\ BlockedListed(k1, {t})
    BY <1>4 DEF Consistent, DelayListed, BlockedListed, in_delay_list
  <1>10. Loose(k1, t)
    <2>1. \A q \in Priorities : t \notin Range(k1.ready_lists[q])
      BY <1>1, <1>3, <1>4 DEF Consistent, ReadyListed
    <2> QED
      BY <1>4, <2>1 DEF Loose, Consistent, WaitListed, DelayListed
  <1> QED
    BY <1>4, <1>5, <1>6, <1>7, <1>8, <1>9, <1>10 DEF k1, Consistent
\* ReadyManager::get_highest_priority_task returns a ready task of the highest
\* priority and takes it out of its list.
LEMMA PopHighest ==
    ASSUME NEW k \in KernelType, Consistent(k, {}), k.ready_bitmask # {}
    PROVE  LET h  == highest_priority_task(k)
               k1 == pop_highest(k)
           IN  /\ h \in Task
               /\ k.state[h] = "Ready"
               /\ \A u \in Task :
                     k.state[u] = "Ready" => k.priority[u] <= k.priority[h]
               /\ k1 \in KernelType
               /\ Consistent(k1, {h})
               /\ Loose(k1, h)
               /\ k1.state = k.state
               /\ k1.priority = k.priority
  <1> DEFINE p == peek_highest_priority(k)
             h == Head(k.ready_lists[p])
             left == pop_front(k.ready_lists[p])
             k1 == pop_highest(k)
  <1>1. p \in k.ready_bitmask /\ \A q \in k.ready_bitmask : q <= p
    <2>1. kMaxPriorities - 1 \in Nat /\ k.ready_bitmask \in SUBSET (0..(kMaxPriorities - 1))
      BY KernelAssumption, Fields DEF Priorities
    <2> QED
      BY <2>1, MaxOfSet DEF peek_highest_priority
  <1> HIDE DEF p
  <1>2. /\ p \in Priorities /\ k.ready_lists[p] \in Seq(Task)
        /\ k.ready_lists[p] # <<>> /\ IsInjective(k.ready_lists[p])
    BY <1>1, Fields DEF Consistent, BitmaskExact, ReadyListed
  <1>3. /\ h \in Task
        /\ h \in Range(k.ready_lists[p])
        /\ left \in Seq(Task)
        /\ Range(left) = Range(k.ready_lists[p]) \ {h}
        /\ IsInjective(left)
    BY <1>2, PopFront
  <1>4. highest_priority_task(k) = h
    BY <1>2 DEF highest_priority_task, p
  <1>5. /\ k1 \in KernelType
        /\ k1.state = k.state
        /\ k1.priority = k.priority
        /\ k1.ready_lists \in [Priorities -> Seq(Task)]
        /\ \A q \in Priorities :
              k1.ready_lists[q] = IF q = p THEN left ELSE k.ready_lists[q]
        /\ k1.ready_bitmask = IF left = <<>> THEN k.ready_bitmask \ {p}
                                             ELSE k.ready_bitmask
        /\ k1.delay_list = k.delay_list
        /\ k1.delay_left = k.delay_left
        /\ k1.wait_lists = k.wait_lists
        /\ k1.wait_list = k.wait_list
    <2>1. k1 = [k EXCEPT !.ready_lists[p] = left,
                         !.ready_bitmask = IF left = <<>> THEN @ \ {p} ELSE @]
      BY DEF pop_highest, p
    <2> HIDE DEF k1, left
    <2> QED
      BY <1>2, <1>3, <2>1 DEF KernelType
  <1>6. k.state[h] = "Ready" /\ k.priority[h] = p
    BY <1>2, <1>3 DEF Consistent, ReadyListed
  <1>7. \A u \in Task : k.state[u] = "Ready" => k.priority[u] <= p
    <2> TAKE u \in Task
    <2> HAVE k.state[u] = "Ready"
    <2>1. /\ k.priority[u] \in Priorities
          /\ u \in Range(k.ready_lists[k.priority[u]])
          /\ k.ready_lists[k.priority[u]] \in Seq(Task)
      BY Fields DEF Consistent, ReadyComplete
    <2>2. k.ready_lists[k.priority[u]] # <<>>
      BY <2>1, RangeByIndex
    <2> QED
      BY <1>1, <2>1, <2>2 DEF Consistent, BitmaskExact
  <1> HIDE DEF k1, left, h
  <1>8. ReadyListed(k1)
    BY <1>2, <1>3, <1>5 DEF Consistent, ReadyListed
  <1>9. ReadyComplete(k1, {h})
    <2> SUFFICES ASSUME NEW u \in Task \ {h}, k1.state[u] = "Ready"
                 PROVE  u \in Range(k1.ready_lists[k1.priority[u]])
      BY DEF ReadyComplete
    <2> DEFINE q == k.priority[u]
    <2>1. q \in Priorities /\ k1.priority[u] = q /\ u \in Range(k.ready_lists[q])
      BY <1>5, Fields DEF Consistent, ReadyComplete
    <2> HIDE DEF q
    <2> QED
      BY <1>3, <1>5, <2>1
  <1>10. BitmaskExact(k1)
    BY <1>2, <1>5 DEF Consistent, BitmaskExact
  <1>11. WaitListed(k1) /\ WaitComplete(k1)
    BY <1>5 DEF Consistent, WaitListed, WaitComplete
  <1>12. DelayListed(k1) /\ BlockedListed(k1, {h})
    BY <1>5 DEF Consistent, DelayListed, BlockedListed, in_delay_list
  <1>13. Loose(k1, h)
    <2>1. \A q \in Priorities : h \notin Range(k1.ready_lists[q])
      BY <1>2, <1>3, <1>5, <1>6 DEF Consistent, ReadyListed
    <2> QED
      BY <1>5, <1>6, <2>1 DEF Loose, Consistent, WaitListed, DelayListed
  <1> QED
    BY <1>3, <1>4, <1>5, <1>6, <1>7, <1>8, <1>9, <1>10, <1>11, <1>12, <1>13
    DEF k1, Consistent

\* DelayList::insert of a blocked task that is not in the list yet.
LEMMA DelayInsert ==
    ASSUME NEW k \in KernelType, NEW t \in Task, Consistent(k, {t}),
           k.state[t] = "Blocked", ~in_delay_list(k, t), NEW n \in Nat \ {0}
    PROVE  /\ delay_insert(k, t, n) \in KernelType
           /\ Consistent(delay_insert(k, t, n), {})
           /\ delay_insert(k, t, n).state = k.state
           /\ delay_insert(k, t, n).priority = k.priority
  <1> DEFINE Later == {u \in Range(k.delay_list) : k.delay_left[u] > n}
             i == slot(k.delay_list, Later)
             d == InsertAt(k.delay_list, i, t)
             k1 == delay_insert(k, t, n)
  <1>1. k.delay_list \in Seq(Task)
    BY Fields
  <1>2. i \in 1..(Len(k.delay_list) + 1)
    BY <1>1, SlotInList
  <1> HIDE DEF i
  <1>3. d \in Seq(Task) /\ Range(d) = Range(k.delay_list) \cup {t} /\ IsInjective(d)
    BY <1>1, <1>2, Insert DEF Consistent, DelayListed, in_delay_list
  <1>4. k1 = [k EXCEPT !.delay_list = d, !.delay_left[t] = n]
    BY DEF delay_insert, d, i
  <1> HIDE DEF d, k1
  <1>5. /\ k1 \in KernelType
        /\ k1.state = k.state
        /\ k1.priority = k.priority
        /\ k1.ready_lists = k.ready_lists
        /\ k1.ready_bitmask = k.ready_bitmask
        /\ k1.delay_list = d
        /\ \A u \in Task : k1.delay_left[u] = IF u = t THEN n ELSE k.delay_left[u]
        /\ k1.wait_lists = k.wait_lists
        /\ k1.wait_list = k.wait_list
    BY <1>3, <1>4 DEF KernelType
  <1>6. ReadyListed(k1) /\ BitmaskExact(k1)
    BY <1>5 DEF Consistent, ReadyListed, BitmaskExact
  <1>7. ReadyComplete(k1, {})
    BY <1>5 DEF Consistent, ReadyComplete
  <1>8. WaitListed(k1) /\ WaitComplete(k1)
    BY <1>5 DEF Consistent, WaitListed, WaitComplete
  <1>9. DelayListed(k1)
    BY <1>3, <1>5 DEF Consistent, DelayListed, in_delay_list
  <1>10. BlockedListed(k1, {})
    BY <1>3, <1>5 DEF Consistent, BlockedListed, in_delay_list
  <1> QED
    BY <1>5, <1>6, <1>7, <1>8, <1>9, <1>10 DEF k1, Consistent

\* DelayList::remove.
LEMMA DelayRemove ==
    ASSUME NEW k \in KernelType, NEW t \in Task, NEW D, Consistent(k, D), t \in D
    PROVE  /\ delay_remove(k, t) \in KernelType
           /\ Consistent(delay_remove(k, t), D)
           /\ ~in_delay_list(delay_remove(k, t), t)
           /\ delay_remove(k, t).state = k.state
           /\ delay_remove(k, t).priority = k.priority
           /\ delay_remove(k, t).ready_lists = k.ready_lists
           /\ delay_remove(k, t).wait_lists = k.wait_lists
           /\ delay_remove(k, t).wait_list = k.wait_list
  <1> DEFINE k1 == delay_remove(k, t)
             d == remove(k.delay_list, t)
  <1>1. CASE ~in_delay_list(k, t)
    BY <1>1 DEF delay_remove
  <1>2. CASE in_delay_list(k, t)
    <2>1. k.delay_list \in Seq(Task) /\ IsInjective(k.delay_list) /\ t \in Range(k.delay_list)
      BY <1>2, Fields DEF Consistent, DelayListed, in_delay_list
    <2>2. d \in Seq(Task) /\ Range(d) = Range(k.delay_list) \ {t} /\ IsInjective(d)
      BY <2>1, RemoveOne
    <2>3. k1 = [k EXCEPT !.delay_list = d, !.delay_left[t] = 0]
      BY <1>2 DEF delay_remove
    <2> HIDE DEF k1, d
    <2>4. /\ k1 \in KernelType
          /\ k1.state = k.state
          /\ k1.priority = k.priority
          /\ k1.ready_lists = k.ready_lists
          /\ k1.ready_bitmask = k.ready_bitmask
          /\ k1.delay_list = d
          /\ \A u \in Task : k1.delay_left[u] = IF u = t THEN 0 ELSE k.delay_left[u]
          /\ k1.wait_lists = k.wait_lists
          /\ k1.wait_list = k.wait_list
      BY <2>2, <2>3 DEF KernelType
    <2>5. ReadyListed(k1) /\ BitmaskExact(k1) /\ ReadyComplete(k1, D)
      BY <2>4 DEF Consistent, ReadyListed, BitmaskExact, ReadyComplete
    <2>6. WaitListed(k1) /\ WaitComplete(k1)
      BY <2>4 DEF Consistent, WaitListed, WaitComplete
    <2>7. DelayListed(k1)
      BY <2>2, <2>4 DEF Consistent, DelayListed, in_delay_list
    <2>8. BlockedListed(k1, D)
      BY <2>2, <2>4 DEF Consistent, BlockedListed, in_delay_list
    <2>9. ~in_delay_list(k1, t)
      BY <2>2, <2>4 DEF in_delay_list
    <2> QED
      BY <2>4, <2>5, <2>6, <2>7, <2>8, <2>9 DEF k1, Consistent
  <1> QED
    BY <1>1, <1>2

\* Fewer obligations are met when more tasks are in hand.
LEMMA InHand ==
    ASSUME NEW k, NEW D, NEW E, D \subseteq E, Consistent(k, D)
    PROVE  Consistent(k, E)
  BY DEF Consistent, ReadyComplete, BlockedListed

\* What suspend_task and delete_task do to a task before they write its state.
LEMMA Unlink ==
    ASSUME NEW k \in KernelType, NEW t \in Task, Consistent(k, {})
    PROVE  /\ unlink(k, t) \in KernelType
           /\ Consistent(unlink(k, t), {t})
           /\ Loose(unlink(k, t), t)
           /\ unlink(k, t).state = k.state
           /\ unlink(k, t).priority = k.priority
  <1>1. CASE k.state[t] = "Ready"
    BY <1>1, ReadyRemove DEF unlink
  <1>2. CASE k.state[t] \notin {"Ready", "Blocked"}
    <2>1. unlink(k, t) = k
      BY <1>2 DEF unlink
    <2> QED
      BY <1>2, <2>1, NotListed, InHand
  <1>3. CASE k.state[t] = "Blocked" /\ k.wait_list[t] = NoList
    <2>1. unlink(k, t) = delay_remove(k, t)
      BY <1>3 DEF unlink
    <2>2. Consistent(k, {t})
      BY InHand
    <2>3. /\ \A p \in Priorities : t \notin Range(k.ready_lists[p])
          /\ \A l \in Lists : t \notin Range(k.wait_lists[l])
      BY <1>3, KernelAssumption DEF Consistent, ReadyListed, WaitListed
    <2> QED
      BY <2>1, <2>2, <2>3, DelayRemove DEF Loose, in_delay_list
  <1>4. CASE k.state[t] = "Blocked" /\ k.wait_list[t] # NoList
    <2> DEFINE l == k.wait_list[t]
               w == remove(k.wait_lists[l], t)
               k1 == [k EXCEPT !.wait_lists[l] = w,
                               !.wait_list[t] = NoList,
                               !.timeout_expired[t] = TRUE]
    <2>1. unlink(k, t) = delay_remove(k1, t)
      BY <1>4 DEF unlink, end_wait
    <2>2. /\ l \in Lists /\ k.wait_lists[l] \in Seq(Task)
          /\ IsInjective(k.wait_lists[l]) /\ t \in Range(k.wait_lists[l])
      BY <1>4, Fields DEF Consistent, WaitListed, WaitComplete
    <2>3. w \in Seq(Task) /\ Range(w) = Range(k.wait_lists[l]) \ {t} /\ IsInjective(w)
      <3> HIDE DEF l
      <3> QED
        BY <2>2, RemoveOne
    <2> HIDE DEF w
    <2>4. /\ k1 \in KernelType
          /\ k1.state = k.state
          /\ k1.priority = k.priority
          /\ k1.ready_lists = k.ready_lists
          /\ k1.ready_bitmask = k.ready_bitmask
          /\ k1.delay_list = k.delay_list
          /\ k1.delay_left = k.delay_left
          /\ \A m \in Lists : k1.wait_lists[m] = IF m = l THEN w ELSE k.wait_lists[m]
          /\ \A u \in Task : k1.wait_list[u] = IF u = t THEN NoList ELSE k.wait_list[u]
      BY <2>2, <2>3 DEF KernelType
    <2> HIDE DEF k1
    <2>5. ReadyListed(k1) /\ BitmaskExact(k1) /\ ReadyComplete(k1, {t})
      BY <2>4 DEF Consistent, ReadyListed, BitmaskExact, ReadyComplete
    <2>6. WaitListed(k1)
      BY <2>2, <2>3, <2>4, Fields DEF Consistent, WaitListed
    <2>7. WaitComplete(k1)
      <3> SUFFICES ASSUME NEW u \in Task, k1.wait_list[u] # NoList
                   PROVE  u \in Range(k1.wait_lists[k1.wait_list[u]])
        BY DEF WaitComplete
      <3> DEFINE m == k.wait_list[u]
      <3>1. u # t /\ k1.wait_list[u] = m /\ m # NoList
        BY <2>4
      <3>2. m \in Lists /\ u \in Range(k.wait_lists[m])
        BY <3>1, Fields DEF Consistent, WaitComplete
      <3> HIDE DEF m, l
      <3> QED
        BY <2>3, <2>4, <3>1, <3>2
    <2>8. DelayListed(k1) /\ BlockedListed(k1, {t})
      BY <2>4 DEF Consistent, DelayListed, BlockedListed, in_delay_list
    <2>9. Consistent(k1, {t})
      BY <2>5, <2>6, <2>7, <2>8 DEF Consistent
    <2>10. /\ \A p \in Priorities : t \notin Range(k1.ready_lists[p])
           /\ \A m \in Lists : t \notin Range(k1.wait_lists[m])
      <3>1. \A m \in Lists : t \in Range(k.wait_lists[m]) => m = l
        BY DEF Consistent, WaitListed
      <3> QED
        BY <1>4, <2>3, <2>4, <3>1 DEF Consistent, ReadyListed
    <2> HIDE DEF l
    <2> QED
      BY <2>1, <2>4, <2>9, <2>10, DelayRemove DEF Loose, in_delay_list
  <1> QED
    BY <1>1, <1>2, <1>3, <1>4

\* Scheduler::allocate_tcb: a fresh task is in no list.
LEMMA AllocateTcb ==
    ASSUME NEW k \in KernelType, NEW t \in Task, Consistent(k, {}),
           k.state[t] \notin {"Ready", "Blocked"}, NEW p \in Priorities
    PROVE  /\ allocate_tcb(k, t, p) \in KernelType
           /\ Consistent(allocate_tcb(k, t, p), {})
           /\ \A u \in Task : allocate_tcb(k, t, p).state[u] =
                                  IF u = t THEN "Suspended" ELSE k.state[u]
           /\ \A u \in Task : allocate_tcb(k, t, p).priority[u] =
                                  IF u = t THEN p ELSE k.priority[u]
  <1> DEFINE k1 == allocate_tcb(k, t, p)
  <1>1. /\ k1 \in KernelType
        /\ \A u \in Task : k1.state[u] = IF u = t THEN "Suspended" ELSE k.state[u]
        /\ \A u \in Task : k1.priority[u] = IF u = t THEN p ELSE k.priority[u]
        /\ k1.ready_lists = k.ready_lists
        /\ k1.ready_bitmask = k.ready_bitmask
        /\ k1.delay_list = k.delay_list
        /\ k1.delay_left = k.delay_left
        /\ k1.wait_lists = k.wait_lists
        /\ \A u \in Task : k1.wait_list[u] = IF u = t THEN NoList ELSE k.wait_list[u]
    BY DEF KernelType, allocate_tcb, TaskStates
  <1> HIDE DEF k1
  <1>2. Loose(k, t)
    BY NotListed
  <1>3. ReadyListed(k1) /\ BitmaskExact(k1)
    BY <1>1, <1>2, Fields DEF Loose, Consistent, ReadyListed, BitmaskExact
  <1>4. ReadyComplete(k1, {})
    BY <1>1 DEF Consistent, ReadyComplete
  <1>5. WaitListed(k1)
    BY <1>1, <1>2, Fields DEF Loose, Consistent, WaitListed
  <1>6. WaitComplete(k1)
    BY <1>1 DEF Consistent, WaitComplete
  <1>7. DelayListed(k1)
    BY <1>1, <1>2, Fields DEF Loose, Consistent, DelayListed, in_delay_list
  <1>8. BlockedListed(k1, {})
    BY <1>1 DEF Consistent, BlockedListed, in_delay_list
  <1> QED
    BY <1>1, <1>3, <1>4, <1>5, <1>6, <1>7, <1>8 DEF k1, Consistent

\* Scheduler::add_to_ready_queue of a task that is in no list.
LEMMA AddToReadyQueue ==
    ASSUME NEW k \in KernelType, NEW t \in Task, Consistent(k, {}),
           k.state[t] \notin {"Ready", "Blocked"}
    PROVE  /\ add_to_ready_queue(k, t) \in KernelType
           /\ Consistent(add_to_ready_queue(k, t), {})
           /\ add_to_ready_queue(k, t).state = [k.state EXCEPT ![t] = "Ready"]
           /\ add_to_ready_queue(k, t).priority = k.priority
  <1> DEFINE k1 == [k EXCEPT !.state[t] = "Ready"]
  <1>1. Consistent(k, {t}) /\ Loose(k, t) /\ "Ready" \in TaskStates
    BY NotListed, InHand DEF TaskStates
  <1>2. k1 \in KernelType /\ Consistent(k1, {t}) /\ Loose(k1, t)
    BY <1>1, SetState
  <1>3. /\ k1.state = [k.state EXCEPT ![t] = "Ready"]
        /\ k1.state[t] = "Ready"
        /\ k1.priority = k.priority
    BY DEF KernelType
  <1>4. add_to_ready_queue(k, t) = ready_add(k1, t)
    BY DEF add_to_ready_queue
  <1> HIDE DEF k1
  <1> QED
    BY <1>2, <1>3, <1>4, ReadyAdd
\* The kernel before main() creates a task.
LEMMA EmptyConsistent == EmptyKernel \in KernelType /\ Consistent(EmptyKernel, {})
  <1>1. 0 \in Priorities
    BY KernelAssumption DEF Priorities
  <1>2. <<>> \in Seq(Task) /\ Range(<<>>) = {} /\ IsInjective(<<>>)
    <2> DEFINE n == <<>>
    <2>1. n \in Seq(Task) /\ Len(n) = 0 /\ n = <<>>
      OBVIOUS
    <2> HIDE DEF n
    <2>2. Range(n) = {}
      BY <2>1, RangeByIndex
    <2>3. IsInjective(n)
      BY <2>1 DEF IsInjective
    <2> QED
      BY <2>1, <2>2, <2>3
  <1>3. EmptyKernel \in KernelType
    BY <1>1, <1>2 DEF EmptyKernel, KernelType, TaskStates
  <1>4. /\ \A t \in Task : EmptyKernel.state[t] = "Free"
        /\ \A t \in Task : EmptyKernel.delay_left[t] = 0
        /\ \A t \in Task : EmptyKernel.wait_list[t] = NoList
        /\ \A p \in Priorities : EmptyKernel.ready_lists[p] = <<>>
        /\ \A l \in Lists : EmptyKernel.wait_lists[l] = <<>>
        /\ EmptyKernel.delay_list = <<>>
        /\ EmptyKernel.ready_bitmask = {}
    BY DEF EmptyKernel
  <1> QED
    BY <1>2, <1>3, <1>4 DEF Consistent, ReadyListed, ReadyComplete, BitmaskExact,
        WaitListed, WaitComplete, DelayListed, BlockedListed, in_delay_list

\* DelayList::tick moves the sleepers whose time is up to the ready lists, and
\* out of the list they wait in.
LEMMA DelayTick ==
    ASSUME NEW k \in KernelType, Consistent(k, {})
    PROVE  /\ delay_tick(k) \in KernelType
           /\ Consistent(delay_tick(k), {})
           /\ \A t \in Task : \/ delay_tick(k).state[t] = k.state[t]
                              \/ /\ k.state[t] = "Blocked"
                                 /\ delay_tick(k).state[t] = "Ready"
           /\ delay_tick(k).priority = k.priority
  <1> DEFINE Expired == {t \in Range(k.delay_list) : k.delay_left[t] <= 1}
             Waiting == {t \in Expired : k.wait_list[t] # NoList}
             Woken(p) == {t \in Expired : k.priority[t] = p}
             d == Only(k.delay_list, Task \ Expired)
             w(l) == Only(k.wait_lists[l], Task \ Waiting)
             e(p) == Only(k.delay_list, Woken(p))
             r(p) == k.ready_lists[p] \o e(p)
             k1 == delay_tick(k)
  <1>1. /\ k.delay_list \in Seq(Task) /\ Range(k.delay_list) \subseteq Task
        /\ IsInjective(k.delay_list)
        /\ \A t \in Task : k.delay_left[t] \in Nat
        /\ \A t \in Range(k.delay_list) : k.state[t] = "Blocked"
        /\ \A t \in Task : k.delay_left[t] > 0 <=> t \in Range(k.delay_list)
    BY Fields DEF Consistent, DelayListed, in_delay_list
  <1>2. /\ \A t \in Expired : t \in Task /\ t \in Range(k.delay_list) /\ k.state[t] = "Blocked"
        /\ \A t \in Task : t \in Range(k.delay_list) /\ t \notin Expired => k.delay_left[t] > 1
        /\ \A t \in Expired : k.delay_left[t] = 1
    BY <1>1
  <1>3. \A t \in Waiting : t \in Expired /\ k.wait_list[t] \in Lists
    BY <1>2, Fields
  <1>4. d \in Seq(Task) /\ Range(d) = Range(k.delay_list) \ Expired /\ IsInjective(d)
    <2> HIDE DEF Expired
    <2>1. d \in Seq(Task) /\ Range(d) = Range(k.delay_list) \cap (Task \ Expired) /\ IsInjective(d)
      BY <1>1, OnlyKeeps
    <2> QED
      BY <1>1, <2>1
  <1>5. ASSUME NEW l \in Lists
        PROVE  /\ w(l) \in Seq(Task)
               /\ Range(w(l)) = Range(k.wait_lists[l]) \ Waiting
               /\ IsInjective(w(l))
    <2> HIDE DEF Waiting
    <2>1. /\ k.wait_lists[l] \in Seq(Task) /\ IsInjective(k.wait_lists[l])
          /\ Range(k.wait_lists[l]) \subseteq Task
      BY Fields DEF Consistent, WaitListed
    <2>2. /\ w(l) \in Seq(Task) /\ IsInjective(w(l))
          /\ Range(w(l)) = Range(k.wait_lists[l]) \cap (Task \ Waiting)
      BY <2>1, OnlyKeeps
    <2> QED
      BY <2>1, <2>2
  <1>6. ASSUME NEW p \in Priorities
        PROVE  /\ r(p) \in Seq(Task)
               /\ Range(r(p)) = Range(k.ready_lists[p]) \cup Woken(p)
               /\ IsInjective(r(p))
    <2>1. /\ k.ready_lists[p] \in Seq(Task) /\ IsInjective(k.ready_lists[p])
          /\ \A t \in Range(k.ready_lists[p]) : k.state[t] = "Ready"
      BY Fields DEF Consistent, ReadyListed
    <2>2. Woken(p) \subseteq Range(k.delay_list)
      OBVIOUS
    <2>3. Woken(p) \cap Range(k.ready_lists[p]) = {}
      BY <1>1, <2>1, <2>2
    <2> HIDE DEF Woken
    <2>4. /\ e(p) \in Seq(Task) /\ IsInjective(e(p))
          /\ Range(e(p)) = Range(k.delay_list) \cap Woken(p)
      BY <1>1, OnlyKeeps
    <2>5. Range(e(p)) = Woken(p)
      BY <2>2, <2>4
    <2> HIDE DEF e
    <2> QED
      BY <2>1, <2>3, <2>4, <2>5, Join
  <1>7. k1 = [k EXCEPT
          !.state = [t \in Task |-> IF t \in Expired THEN "Ready" ELSE k.state[t]],
          !.delay_list = d,
          !.delay_left = [t \in Task |-> IF t \in Range(k.delay_list)
                                         THEN k.delay_left[t] - 1
                                         ELSE k.delay_left[t]],
          !.wait_lists = [l \in Lists |-> w(l)],
          !.wait_list = [t \in Task |-> IF t \in Waiting THEN NoList
                                                         ELSE k.wait_list[t]],
          !.timeout_expired = [t \in Task |-> t \in Waiting \/ k.timeout_expired[t]],
          !.ready_lists = [p \in Priorities |-> r(p)],
          !.ready_bitmask = k.ready_bitmask \cup {k.priority[t] : t \in Expired}]
    BY DEF delay_tick, in_delay_list
  <1> HIDE DEF k1, d, w, r, e
  <1>8. /\ k1.state = [t \in Task |-> IF t \in Expired THEN "Ready" ELSE k.state[t]]
        /\ k1.priority = k.priority
        /\ k1.base_priority = k.base_priority
        /\ k1.delay_list = d
        /\ k1.delay_left = [t \in Task |-> IF t \in Range(k.delay_list)
                                           THEN k.delay_left[t] - 1
                                           ELSE k.delay_left[t]]
        /\ k1.wait_lists = [l \in Lists |-> w(l)]
        /\ k1.wait_list = [t \in Task |-> IF t \in Waiting THEN NoList
                                                           ELSE k.wait_list[t]]
        /\ k1.timeout_expired = [t \in Task |-> t \in Waiting \/ k.timeout_expired[t]]
        /\ k1.ready_lists = [p \in Priorities |-> r(p)]
        /\ k1.ready_bitmask = k.ready_bitmask \cup {k.priority[t] : t \in Expired}
        /\ k1 = [state |-> k1.state, priority |-> k1.priority,
                 base_priority |-> k1.base_priority,
                 ready_lists |-> k1.ready_lists, ready_bitmask |-> k1.ready_bitmask,
                 delay_list |-> k1.delay_list, delay_left |-> k1.delay_left,
                 wait_lists |-> k1.wait_lists, wait_list |-> k1.wait_list,
                 timeout_expired |-> k1.timeout_expired]
    <2> HIDE DEF Expired, Waiting
    <2> QED
      BY <1>7 DEF KernelType
  <1>9. k1 \in KernelType
    <2>1. k1.state \in [Task -> TaskStates]
      BY <1>8, Fields DEF TaskStates
    <2>2. k1.priority \in [Task -> Priorities] /\ k1.base_priority \in [Task -> Priorities]
      BY <1>8 DEF KernelType
    <2>3. k1.delay_list \in Seq(Task) /\ k1.delay_left \in [Task -> Nat]
      BY <1>1, <1>4, <1>8
    <2>4. k1.wait_lists \in [Lists -> Seq(Task)] /\ k1.ready_lists \in [Priorities -> Seq(Task)]
      BY <1>5, <1>6, <1>8
    <2>5. k1.wait_list \in [Task -> Lists \cup {NoList}]
      BY <1>8, Fields
    <2>6. k1.timeout_expired \in [Task -> BOOLEAN]
      BY <1>8, Fields
    <2>7. k1.ready_bitmask \in SUBSET Priorities
      BY <1>2, <1>8, Fields
    <2> QED
      BY <1>8, <2>1, <2>2, <2>3, <2>4, <2>5, <2>6, <2>7 DEF KernelType
  <1>10. \A t \in Expired : k1.state[t] = "Ready" /\ k.state[t] = "Blocked" /\ t \in Task
    BY <1>2, <1>8
  <1>11. \A t \in Task \ Expired : k1.state[t] = k.state[t]
    BY <1>8
  <1>12. \A l \in Lists : k1.wait_lists[l] = w(l)
    BY <1>8
  <1>13. \A p \in Priorities : k1.ready_lists[p] = r(p)
    BY <1>8
  <1>14. \A t \in Task : k1.wait_list[t] = IF t \in Waiting THEN NoList ELSE k.wait_list[t]
    BY <1>8
  <1>15. \A p \in Priorities : Woken(p) \subseteq Expired /\ \A t \in Woken(p) : k.priority[t] = p
    OBVIOUS
  <1>16. \A t \in Expired : k.priority[t] \in Priorities /\ t \in Woken(k.priority[t])
    BY <1>2, Fields
  <1>17. \A t \in Expired : k.wait_list[t] # NoList <=> t \in Waiting
    OBVIOUS
  <1>18. \A t \in Task : k1.delay_left[t] > 0 <=> t \in Range(k.delay_list) /\ t \notin Expired
    BY <1>1, <1>2, <1>8
  <1> HIDE DEF Expired, Waiting, Woken
  <1>19. ReadyListed(k1)
    <2> SUFFICES ASSUME NEW p \in Priorities
                 PROVE  /\ IsInjective(k1.ready_lists[p])
                        /\ \A t \in Range(k1.ready_lists[p]) :
                              k1.state[t] = "Ready" /\ k1.priority[t] = p
      BY DEF ReadyListed
    <2>1. \A t \in Range(k.ready_lists[p]) :
              t \in Task /\ k.state[t] = "Ready" /\ k.priority[t] = p
      BY Fields DEF Consistent, ReadyListed
    <2> QED
      BY <1>6, <1>8, <1>10, <1>11, <1>13, <1>15, <2>1
  <1>20. ReadyComplete(k1, {})
    <2> SUFFICES ASSUME NEW t \in Task, k1.state[t] = "Ready"
                 PROVE  t \in Range(k1.ready_lists[k1.priority[t]])
      BY DEF ReadyComplete
    <2>1. k.priority[t] \in Priorities
      BY Fields
    <2>2. t \in Expired \/ t \in Range(k.ready_lists[k.priority[t]])
      BY <1>11 DEF Consistent, ReadyComplete
    <2> QED
      BY <1>6, <1>8, <1>13, <1>16, <2>1, <2>2
  <1>21. BitmaskExact(k1)
    <2> SUFFICES ASSUME NEW p \in Priorities
                 PROVE  p \in k1.ready_bitmask <=> k1.ready_lists[p] # <<>>
      BY <1>9, Fields DEF BitmaskExact
    <2>1. k.ready_lists[p] = <<>> <=> Range(k.ready_lists[p]) = {}
      BY Fields, RangeByIndex
    <2>2. r(p) = <<>> <=> Range(r(p)) = {}
      BY <1>6, RangeByIndex
    <2>3. p \in k.ready_bitmask <=> k.ready_lists[p] # <<>>
      BY DEF Consistent, BitmaskExact
    <2>4. (\E t \in Expired : k.priority[t] = p) <=> Woken(p) # {}
      BY <1>15, <1>16
    <2>5. Range(r(p)) = Range(k.ready_lists[p]) \cup Woken(p)
      BY <1>6
    <2>6. k1.ready_lists[p] = r(p)
      BY <1>13
    <2>7. p \in k1.ready_bitmask
              <=> p \in k.ready_bitmask \/ \E t \in Expired : k.priority[t] = p
      BY <1>8
    <2> HIDE DEF r
    <2> QED
      BY <2>1, <2>2, <2>3, <2>4, <2>5, <2>6, <2>7
  <1>22. WaitListed(k1)
    <2> SUFFICES ASSUME NEW l \in Lists
                 PROVE  /\ IsInjective(k1.wait_lists[l])
                        /\ \A t \in Range(k1.wait_lists[l]) :
                              k1.state[t] = "Blocked" /\ k1.wait_list[t] = l
      BY DEF WaitListed
    <2>1. \A t \in Range(k.wait_lists[l]) :
              t \in Task /\ k.state[t] = "Blocked" /\ k.wait_list[t] = l
      BY Fields DEF Consistent, WaitListed
    <2>2. \A t \in Range(k.wait_lists[l]) \ Waiting : t \notin Expired
      BY <1>17, <2>1, KernelAssumption
    <2> QED
      BY <1>5, <1>11, <1>12, <1>14, <2>1, <2>2
  <1>23. WaitComplete(k1)
    <2> SUFFICES ASSUME NEW t \in Task, k1.wait_list[t] # NoList
                 PROVE  t \in Range(k1.wait_lists[k1.wait_list[t]])
      BY DEF WaitComplete
    <2>1. t \notin Waiting /\ k1.wait_list[t] = k.wait_list[t]
      BY <1>14
    <2>2. k.wait_list[t] \in Lists /\ t \in Range(k.wait_lists[k.wait_list[t]])
      BY <2>1, Fields DEF Consistent, WaitComplete
    <2> QED
      BY <1>5, <1>12, <2>1, <2>2
  <1>24. DelayListed(k1)
    BY <1>1, <1>4, <1>8, <1>11, <1>18 DEF DelayListed, in_delay_list
  <1>25. BlockedListed(k1, {})
    BY <1>4, <1>8, <1>10, <1>11, <1>14, <1>17, <1>3
       DEF Consistent, BlockedListed, in_delay_list
  <1> QED
    BY <1>8, <1>9, <1>10, <1>11, <1>19, <1>20, <1>21, <1>22, <1>23, <1>24, <1>25
    DEF k1, Consistent

----------------------------------------------------------------------------
(* What the operations do to waits and priorities, and that they keep the  *)
(* wait lists ordered by priority and the delay list by wake-up time.      *)

Sorted(k) == WaitSorted(k) /\ DelaySorted(k)

ByPriority(k) == {w \in Task \X Task : k.priority[w[1]] >= k.priority[w[2]]}
ByTicks(k) == {w \in Task \X Task : k.delay_left[w[1]] <= k.delay_left[w[2]]}

\* Both orders as relations.
LEMMA SortedAsOrdered ==
    ASSUME NEW k \in KernelType
    PROVE  Sorted(k) <=> /\ \A l \in Lists : Ordered(k.wait_lists[l], ByPriority(k))
                         /\ Ordered(k.delay_list, ByTicks(k))
  <1>1. \A l \in Lists : \A i \in DOMAIN k.wait_lists[l] : k.wait_lists[l][i] \in Task
    BY Fields
  <1>2. \A i \in DOMAIN k.delay_list : k.delay_list[i] \in Task
    BY Fields
  <1>3. WaitSorted(k) <=> \A l \in Lists : Ordered(k.wait_lists[l], ByPriority(k))
    BY <1>1 DEF WaitSorted, Ordered, ByPriority
  <1>4. DelaySorted(k) <=> Ordered(k.delay_list, ByTicks(k))
    BY <1>2 DEF DelaySorted, Ordered, ByTicks
  <1> QED
    BY <1>3, <1>4 DEF Sorted

\* The pairs of the two relations; priorities and ticks are numbers.
LEMMA Relations ==
    ASSUME NEW k \in KernelType, NEW u \in Task, NEW v \in Task
    PROVE  /\ k.priority[u] \in Int /\ k.delay_left[u] \in Int
           /\ <<u, v>> \in ByPriority(k) <=> k.priority[u] >= k.priority[v]
           /\ <<u, v>> \in ByTicks(k) <=> k.delay_left[u] <= k.delay_left[v]
  BY Fields, KernelAssumption DEF ByPriority, ByTicks, Priorities

\* A waiter is exactly a task whose wait_list names the list it is in.
LEMMA WaitersExact ==
    ASSUME NEW k \in KernelType, NEW D, Consistent(k, D), NEW l \in Lists
    PROVE  /\ Range(k.wait_lists[l]) = {t \in Task : k.wait_list[t] = l}
           /\ k.wait_lists[l] = <<>> <=> \A t \in Task : k.wait_list[t] # l
           /\ \A t \in Task : k.wait_list[t] # NoList => k.state[t] = "Blocked"
  <1>1. Range(k.wait_lists[l]) = {t \in Task : k.wait_list[t] = l}
    BY Fields, KernelAssumption DEF Consistent, WaitListed, WaitComplete
  <1>2. k.wait_lists[l] = <<>> <=> Range(k.wait_lists[l]) = {}
    BY Fields, RangeByIndex
  <1>3. \A t \in Task : k.wait_list[t] # NoList => k.state[t] = "Blocked"
    BY Fields DEF Consistent, WaitListed, WaitComplete
  <1> QED
    BY <1>1, <1>2, <1>3

\* Only the ready lists and the states differ.
SameWaits(k, k1) ==
    /\ k1.priority = k.priority
    /\ k1.base_priority = k.base_priority
    /\ k1.delay_list = k.delay_list
    /\ k1.delay_left = k.delay_left
    /\ k1.wait_lists = k.wait_lists
    /\ k1.wait_list = k.wait_list
    /\ k1.timeout_expired = k.timeout_expired

\* ReadyManager touches nothing but its lists and its bitmask.
LEMMA ReadyOps ==
    ASSUME NEW k \in KernelType, NEW t \in Task
    PROVE  /\ SameWaits(k, ready_add(k, t))
           /\ SameWaits(k, ready_remove(k, t))
           /\ SameWaits(k, pop_highest(k))
           /\ SameWaits(k, add_to_ready_queue(k, t))
           /\ \A x : SameWaits(k, [k EXCEPT !.state[t] = x])
  <1>1. SameWaits(k, ready_add(k, t))
    BY DEF KernelType, SameWaits, ready_add
  <1>2. SameWaits(k, ready_remove(k, t))
    BY DEF KernelType, SameWaits, ready_remove
  <1>3. SameWaits(k, pop_highest(k))
    BY DEF KernelType, SameWaits, pop_highest
  <1>4. SameWaits(k, add_to_ready_queue(k, t))
    BY DEF KernelType, SameWaits, add_to_ready_queue, ready_add
  <1>5. \A x : SameWaits(k, [k EXCEPT !.state[t] = x])
    BY DEF KernelType, SameWaits
  <1> QED
    BY <1>1, <1>2, <1>3, <1>4, <1>5

LEMMA SameWaitsSorted ==
    ASSUME NEW k, NEW k1, SameWaits(k, k1)
    PROVE  Sorted(k1) <=> Sorted(k)
  BY DEF SameWaits, Sorted, WaitSorted, DelaySorted

\* Scheduler::allocate_tcb: the fresh task waits for nothing.
LEMMA AllocateWaits ==
    ASSUME NEW k \in KernelType, NEW t \in Task, Consistent(k, {}),
           k.state[t] \notin {"Ready", "Blocked"}, NEW p \in Priorities
    PROVE  LET k1 == allocate_tcb(k, t, p)
           IN  /\ \A u \in Task \ {t} : /\ k1.priority[u] = k.priority[u]
                                        /\ k1.base_priority[u] = k.base_priority[u]
               /\ k1.priority[t] = p /\ k1.base_priority[t] = p
               /\ k1.delay_left = k.delay_left
               /\ \A u \in Task : k1.wait_list[u] = k.wait_list[u]
               /\ k1.timeout_expired = k.timeout_expired
               /\ Sorted(k) => Sorted(k1)
  <1> DEFINE k1 == allocate_tcb(k, t, p)
  <1>1. /\ k1 \in KernelType
        /\ \A u \in Task \ {t} : /\ k1.priority[u] = k.priority[u]
                                 /\ k1.base_priority[u] = k.base_priority[u]
        /\ k1.priority[t] = p /\ k1.base_priority[t] = p
        /\ k1.delay_list = k.delay_list
        /\ k1.delay_left = k.delay_left
        /\ k1.wait_lists = k.wait_lists
        /\ \A u \in Task : k1.wait_list[u] = IF u = t THEN NoList ELSE k.wait_list[u]
        /\ k1.timeout_expired = k.timeout_expired
    BY DEF KernelType, allocate_tcb, TaskStates
  <1> HIDE DEF k1
  <1>2. Loose(k, t)
    BY NotListed
  <1>3. k.wait_list[t] = NoList
    BY <1>2, Fields DEF Loose, Consistent, WaitComplete
  <1>4. ASSUME Sorted(k) PROVE Sorted(k1)
    <2>1. ASSUME NEW l \in Lists PROVE Ordered(k1.wait_lists[l], ByPriority(k1))
      <3>1. Ordered(k.wait_lists[l], ByPriority(k)) /\ k.wait_lists[l] \in Seq(Task)
        BY <1>4, SortedAsOrdered, Fields
      <3>2. \A u, v \in Range(k.wait_lists[l]) :
                <<u, v>> \in ByPriority(k) => <<u, v>> \in ByPriority(k1)
        <4>1. t \notin Range(k.wait_lists[l]) /\ Range(k.wait_lists[l]) \subseteq Task
          BY <1>2, Fields DEF Loose
        <4> QED
          BY <1>1, <4>1, Relations
      <3> QED
        BY <1>1, <3>1, <3>2, OrderedMore
    <2>2. Ordered(k1.delay_list, ByTicks(k1))
      BY <1>1, <1>4, SortedAsOrdered DEF ByTicks
    <2> QED
      BY <1>1, <2>1, <2>2, SortedAsOrdered
  <1> QED
    BY <1>1, <1>3, <1>4 DEF k1

\* DelayList::insert keeps the delay list sorted.
LEMMA DelayInsertWaits ==
    ASSUME NEW k \in KernelType, NEW t \in Task, t \notin Range(k.delay_list),
           NEW n \in Nat
    PROVE  LET k1 == delay_insert(k, t, n)
           IN  /\ k1.priority = k.priority
               /\ k1.base_priority = k.base_priority
               /\ k1.wait_lists = k.wait_lists
               /\ k1.wait_list = k.wait_list
               /\ k1.timeout_expired = k.timeout_expired
               /\ k1.delay_left = [k.delay_left EXCEPT ![t] = n]
               /\ Sorted(k) => Sorted(k1)
  <1> DEFINE Later == {u \in Range(k.delay_list) : k.delay_left[u] > n}
             s == k.delay_list
             i == slot(s, Later)
             d == InsertAt(s, i, t)
             k1 == delay_insert(k, t, n)
  <1>1. s \in Seq(Task) /\ Range(s) \subseteq Task
    BY Fields
  <1>2. i \in 1..(Len(s) + 1)
    BY <1>1, SlotInList
  <1>3. d \in Seq(Task) /\ Range(d) = Range(s) \cup {t}
    <2> HIDE DEF i
    <2> QED
      BY <1>1, <1>2, Insert
  <1>4. k1 = [k EXCEPT !.delay_list = d, !.delay_left[t] = n]
    BY DEF delay_insert
  <1> HIDE DEF d, k1, i
  <1>5. /\ k1 \in KernelType
        /\ k1.priority = k.priority
        /\ k1.base_priority = k.base_priority
        /\ k1.wait_lists = k.wait_lists
        /\ k1.wait_list = k.wait_list
        /\ k1.timeout_expired = k.timeout_expired
        /\ k1.delay_list = d
        /\ k1.delay_left = [k.delay_left EXCEPT ![t] = n]
        /\ \A u \in Task : k1.delay_left[u] = IF u = t THEN n ELSE k.delay_left[u]
    BY <1>3, <1>4 DEF KernelType
  <1>6. ASSUME Sorted(k) PROVE Sorted(k1)
    <2>1. \A l \in Lists : Ordered(k1.wait_lists[l], ByPriority(k1))
      BY <1>5, <1>6, SortedAsOrdered DEF ByPriority
    <2>2. Ordered(s, ByTicks(k1))
      <3>1. Ordered(s, ByTicks(k))
        BY <1>6, SortedAsOrdered
      <3>2. \A u, v \in Range(s) : <<u, v>> \in ByTicks(k) => <<u, v>> \in ByTicks(k1)
        BY <1>1, <1>5, Relations
      <3> QED
        BY <1>1, <3>1, <3>2, OrderedMore
    <2>3. \A u \in Range(s) : u \in Task /\ u # t /\ k1.delay_left[u] = k.delay_left[u] /\ k.delay_left[u] \in Int
      BY <1>1, <1>5, Relations
    <2>4. /\ \A u \in Range(s) : u \in Later <=> k.delay_left[u] > n
          /\ k1.delay_left[t] = n
      BY <1>5
    <2>5. /\ \A u \in Range(s) \ Later : <<u, t>> \in ByTicks(k1)
          /\ \A u \in Range(s) \cap Later : <<t, u>> \in ByTicks(k1)
          /\ \A u \in Range(s) \cap Later : \A v \in Range(s) :
                <<u, v>> \in ByTicks(k1) => <<t, v>> \in ByTicks(k1)
      <3> HIDE DEF Later, s
      <3>1. \A u, v \in Task :
                <<u, v>> \in ByTicks(k1) <=> k1.delay_left[u] <= k1.delay_left[v]
        BY <1>5, Relations
      <3> QED
        BY <2>3, <2>4, <3>1
    <2> HIDE DEF Later, s
    <2>6. Ordered(InsertAt(s, slot(s, Later), t), ByTicks(k1))
      BY <1>1, <2>2, <2>5, OrderedInsert
    <2>7. Ordered(k1.delay_list, ByTicks(k1))
      BY <1>5, <2>6 DEF d, i
    <2> QED
      BY <1>5, <2>1, <2>7, SortedAsOrdered
  <1> QED
    BY <1>5, <1>6 DEF k1

\* DelayList::remove keeps the delay list sorted.
LEMMA DelayRemoveWaits ==
    ASSUME NEW k \in KernelType, NEW t \in Task, IsInjective(k.delay_list)
    PROVE  LET k1 == delay_remove(k, t)
           IN  /\ k1.priority = k.priority
               /\ k1.base_priority = k.base_priority
               /\ k1.wait_lists = k.wait_lists
               /\ k1.wait_list = k.wait_list
               /\ k1.timeout_expired = k.timeout_expired
               /\ \A u \in Task \ {t} : k1.delay_left[u] = k.delay_left[u]
               /\ Sorted(k) => Sorted(k1)
  <1> DEFINE k1 == delay_remove(k, t)
             s == k.delay_list
             d == remove(s, t)
  <1>1. CASE t \notin Range(s)
    BY <1>1 DEF delay_remove, in_delay_list
  <1>2. CASE t \in Range(s)
    <2>1. s \in Seq(Task) /\ Range(s) \subseteq Task
      BY Fields
    <2>2. d \in Seq(Task) /\ Range(d) = Range(s) \ {t}
      BY <1>2, <2>1, RemoveOne
    <2>3. k1 = [k EXCEPT !.delay_list = d, !.delay_left[t] = 0]
      BY <1>2 DEF delay_remove, in_delay_list
    <2> HIDE DEF k1, d
    <2>4. /\ k1 \in KernelType
          /\ k1.priority = k.priority
          /\ k1.base_priority = k.base_priority
          /\ k1.wait_lists = k.wait_lists
          /\ k1.wait_list = k.wait_list
          /\ k1.timeout_expired = k.timeout_expired
          /\ k1.delay_list = d
          /\ \A u \in Task \ {t} : k1.delay_left[u] = k.delay_left[u]
      BY <2>2, <2>3 DEF KernelType
    <2>5. ASSUME Sorted(k) PROVE Sorted(k1)
      <3>1. \A l \in Lists : Ordered(k1.wait_lists[l], ByPriority(k1))
        BY <2>4, <2>5, SortedAsOrdered DEF ByPriority
      <3>2. Ordered(d, ByTicks(k))
        BY <1>2, <2>1, <2>5, SortedAsOrdered, OrderedRemove DEF d
      <3>3. \A u, v \in Range(d) : <<u, v>> \in ByTicks(k) => <<u, v>> \in ByTicks(k1)
        BY <2>1, <2>2, <2>4, Relations
      <3>4. Ordered(d, ByTicks(k1))
        BY <2>2, <3>2, <3>3, OrderedMore
      <3> QED
        BY <2>4, <3>1, <3>4, SortedAsOrdered
    <2> QED
      BY <2>4, <2>5 DEF k1
  <1> QED
    BY <1>1, <1>2

\* Scheduler::suspend_task and delete_task: a waiter's wait fails, nobody else's
\* wait is touched.
LEMMA UnlinkWaits ==
    ASSUME NEW k \in KernelType, NEW t \in Task, Consistent(k, {})
    PROVE  LET k1 == unlink(k, t)
           IN  /\ k1.priority = k.priority
               /\ k1.base_priority = k.base_priority
               /\ \A u \in Task \ {t} : /\ k1.wait_list[u] = k.wait_list[u]
                                        /\ k1.timeout_expired[u] = k.timeout_expired[u]
                                        /\ k1.delay_left[u] = k.delay_left[u]
               /\ k1.wait_list[t] = NoList
               /\ k1.timeout_expired[t] = IF k.wait_list[t] # NoList THEN TRUE
                                          ELSE k.timeout_expired[t]
               /\ Sorted(k) => Sorted(k1)
  <1>1. IsInjective(k.delay_list) /\ \A u \in Task : k.timeout_expired[u] \in BOOLEAN
    BY Fields DEF Consistent, DelayListed
  <1>2. k.state[t] # "Blocked" => k.wait_list[t] = NoList
    BY Fields DEF Consistent, WaitListed, WaitComplete
  <1>3. CASE k.state[t] = "Ready"
    <2>1. SameWaits(k, unlink(k, t))
      BY <1>3, ReadyOps DEF unlink
    <2>2. Sorted(k) => Sorted(unlink(k, t))
      BY <2>1, SameWaitsSorted
    <2> QED
      BY <1>1, <1>2, <1>3, <2>1, <2>2 DEF SameWaits
  <1>4. CASE k.state[t] \notin {"Ready", "Blocked"}
    <2>1. unlink(k, t) = k
      BY <1>4 DEF unlink
    <2> QED
      BY <1>1, <1>2, <1>4, <2>1
  <1>5. CASE k.state[t] = "Blocked" /\ k.wait_list[t] = NoList
    <2>1. unlink(k, t) = delay_remove(k, t)
      BY <1>5 DEF unlink
    <2> QED
      BY <1>1, <1>5, <2>1, DelayRemoveWaits
  <1>6. CASE k.state[t] = "Blocked" /\ k.wait_list[t] # NoList
    <2> DEFINE l == k.wait_list[t]
               w == remove(k.wait_lists[l], t)
               k1 == [k EXCEPT !.wait_lists[l] = w,
                               !.wait_list[t] = NoList,
                               !.timeout_expired[t] = TRUE]
    <2>1. unlink(k, t) = delay_remove(k1, t)
      BY <1>6 DEF unlink, end_wait
    <2>2. /\ l \in Lists /\ k.wait_lists[l] \in Seq(Task)
          /\ IsInjective(k.wait_lists[l]) /\ t \in Range(k.wait_lists[l])
      BY <1>6, Fields DEF Consistent, WaitListed, WaitComplete
    <2>3. w \in Seq(Task)
      <3> HIDE DEF l
      <3> QED
        BY <2>2, RemoveOne
    <2> HIDE DEF w
    <2>4. /\ k1 \in KernelType
          /\ k1.priority = k.priority
          /\ k1.base_priority = k.base_priority
          /\ k1.delay_list = k.delay_list
          /\ k1.delay_left = k.delay_left
          /\ \A m \in Lists : k1.wait_lists[m] = IF m = l THEN w ELSE k.wait_lists[m]
          /\ \A u \in Task : k1.wait_list[u] = IF u = t THEN NoList ELSE k.wait_list[u]
          /\ \A u \in Task : k1.timeout_expired[u] = IF u = t THEN TRUE ELSE k.timeout_expired[u]
      BY <2>2, <2>3 DEF KernelType
    <2> HIDE DEF k1
    <2>5. ASSUME Sorted(k) PROVE Sorted(k1)
      <3>1. \A m \in Lists : Ordered(k.wait_lists[m], ByPriority(k))
        BY <2>5, SortedAsOrdered
      <3>2. Ordered(w, ByPriority(k))
        <4> HIDE DEF l
        <4> QED
          BY <2>2, <3>1, OrderedRemove DEF w
      <3>3. \A m \in Lists : Ordered(k1.wait_lists[m], ByPriority(k1))
        BY <2>4, <3>1, <3>2 DEF ByPriority
      <3>4. Ordered(k1.delay_list, ByTicks(k1))
        BY <2>4, <2>5, SortedAsOrdered DEF ByTicks
      <3> QED
        BY <2>4, <3>3, <3>4, SortedAsOrdered
    <2> HIDE DEF l
    <2>6. IsInjective(k1.delay_list)
      BY <1>1, <2>4
    <2> DEFINE k2 == delay_remove(k1, t)
    <2>7. /\ k2.priority = k1.priority
          /\ k2.base_priority = k1.base_priority
          /\ k2.wait_list = k1.wait_list
          /\ k2.timeout_expired = k1.timeout_expired
          /\ \A u \in Task \ {t} : k2.delay_left[u] = k1.delay_left[u]
          /\ Sorted(k1) => Sorted(k2)
      BY <2>4, <2>6, DelayRemoveWaits
    <2>8. unlink(k, t) = k2
      BY <2>1
    <2> HIDE DEF k2
    <2> QED
      BY <1>6, <2>4, <2>5, <2>7, <2>8
  <1>7. k.state[t] \in TaskStates
    BY Fields
  <1> QED
    BY <1>3, <1>4, <1>5, <1>6

\* DelayList::tick: one tick less for every sleeper; exactly the sleepers with
\* one tick left become ready, and those of them that wait on a list give up.
LEMMA TickWaits ==
    ASSUME NEW k \in KernelType, Consistent(k, {})
    PROVE  LET k1 == delay_tick(k)
           IN  /\ k1.priority = k.priority
               /\ k1.base_priority = k.base_priority
               /\ \A t \in Task :
                    /\ k1.state[t] = IF k.delay_left[t] = 1 THEN "Ready" ELSE k.state[t]
                    /\ k1.delay_left[t] = IF k.delay_left[t] = 0 THEN 0
                                          ELSE k.delay_left[t] - 1
                    /\ k1.wait_list[t] = IF k.delay_left[t] = 1 THEN NoList
                                                                ELSE k.wait_list[t]
                    /\ k1.timeout_expired[t] =
                         IF k.delay_left[t] = 1 /\ k.wait_list[t] # NoList THEN TRUE
                         ELSE k.timeout_expired[t]
               /\ Sorted(k) => Sorted(k1)
  <1> DEFINE Expired == {t \in Range(k.delay_list) : k.delay_left[t] <= 1}
             Waiting == {t \in Expired : k.wait_list[t] # NoList}
             k1 == delay_tick(k)
  <1>1. /\ Range(k.delay_list) \subseteq Task /\ k.delay_list \in Seq(Task)
        /\ \A t \in Task : k.delay_left[t] \in Nat
        /\ \A t \in Task : k.delay_left[t] > 0 <=> t \in Range(k.delay_list)
    BY Fields DEF Consistent, DelayListed, in_delay_list
  <1>2. \A t \in Task : /\ t \in Expired <=> k.delay_left[t] = 1
                        /\ t \in Waiting <=> k.delay_left[t] = 1 /\ k.wait_list[t] # NoList
                        /\ t \in Range(k.delay_list) <=> k.delay_left[t] # 0
    BY <1>1
  <1>3. k1 \in KernelType
    BY DelayTick
  <1>4. /\ k1.state = [t \in Task |-> IF t \in Expired THEN "Ready" ELSE k.state[t]]
        /\ k1.priority = k.priority
        /\ k1.base_priority = k.base_priority
        /\ k1.delay_list = Only(k.delay_list, Task \ Expired)
        /\ k1.delay_left = [t \in Task |-> IF t \in Range(k.delay_list)
                                           THEN k.delay_left[t] - 1
                                           ELSE k.delay_left[t]]
        /\ k1.wait_lists = [l \in Lists |-> Only(k.wait_lists[l], Task \ Waiting)]
        /\ k1.wait_list = [t \in Task |-> IF t \in Waiting THEN NoList
                                                           ELSE k.wait_list[t]]
        /\ k1.timeout_expired = [t \in Task |-> t \in Waiting \/ k.timeout_expired[t]]
    BY DEF KernelType, delay_tick, in_delay_list
  <1> HIDE DEF Expired, Waiting, k1
  <1>5. \A t \in Task :
            /\ k1.state[t] = IF k.delay_left[t] = 1 THEN "Ready" ELSE k.state[t]
            /\ k1.delay_left[t] = IF k.delay_left[t] = 0 THEN 0 ELSE k.delay_left[t] - 1
            /\ k1.wait_list[t] = IF k.delay_left[t] = 1 THEN NoList ELSE k.wait_list[t]
            /\ k1.timeout_expired[t] =
                 IF k.delay_left[t] = 1 /\ k.wait_list[t] # NoList THEN TRUE
                 ELSE k.timeout_expired[t]
    <2>1. \A t \in Task :
            /\ k1.state[t] = IF k.delay_left[t] = 1 THEN "Ready" ELSE k.state[t]
            /\ k1.delay_left[t] = IF k.delay_left[t] = 0 THEN 0 ELSE k.delay_left[t] - 1
            /\ k1.wait_list[t] = IF k.delay_left[t] = 1 THEN NoList ELSE k.wait_list[t]
      BY <1>2, <1>4
    <2>2. \A t \in Task : k.timeout_expired[t] \in BOOLEAN
      BY Fields
    <2>3. \A t \in Task : k1.timeout_expired[t] = IF t \in Waiting THEN TRUE
                                                   ELSE k.timeout_expired[t]
      BY <1>4, <2>2
    <2> QED
      BY <1>2, <2>1, <2>3
  <1>6. ASSUME Sorted(k) PROVE Sorted(k1)
    <2>1. ASSUME NEW l \in Lists PROVE Ordered(k1.wait_lists[l], ByPriority(k1))
      <3>1. k.wait_lists[l] \in Seq(Task) /\ Ordered(k.wait_lists[l], ByPriority(k))
        BY <1>6, SortedAsOrdered, Fields
      <3> QED
        BY <1>4, <3>1, OrderedOnly DEF ByPriority
    <2> DEFINE d == Only(k.delay_list, Task \ Expired)
    <2>2. d \in Seq(Task) /\ Range(d) \subseteq Range(k.delay_list)
      BY <1>1, OnlyKeeps
    <2>3. Ordered(d, ByTicks(k))
      BY <1>1, <1>6, SortedAsOrdered, OrderedOnly
    <2> HIDE DEF d
    <2>4. \A t \in Range(d) : t \in Task /\ k1.delay_left[t] = k.delay_left[t] - 1
      BY <1>1, <1>4, <2>2
    <2>5. \A u, v \in Range(d) : <<u, v>> \in ByTicks(k) => <<u, v>> \in ByTicks(k1)
      BY <1>1, <1>3, <2>4, Relations
    <2>6. Ordered(d, ByTicks(k1))
      BY <2>2, <2>3, <2>5, OrderedMore
    <2>7. Ordered(k1.delay_list, ByTicks(k1))
      BY <1>4, <2>6 DEF d
    <2> QED
      BY <1>3, <2>1, <2>7, SortedAsOrdered
  <1> QED
    BY <1>4, <1>5, <1>6 DEF k1

----------------------------------------------------------------------------
\* TaskList::insert_by_priority adds the task and keeps the list ordered.
LEMMA InsertByPriority ==
    ASSUME NEW k \in KernelType, NEW s \in Seq(Task), NEW t \in Task,
           t \notin Range(s), IsInjective(s)
    PROVE  LET r == insert_by_priority(s, t, k.priority)
           IN  /\ r \in Seq(Task)
               /\ Range(r) = Range(s) \cup {t}
               /\ IsInjective(r)
               /\ Ordered(s, ByPriority(k)) => Ordered(r, ByPriority(k))
  <1> DEFINE Lower == {u \in Range(s) : k.priority[u] < k.priority[t]}
             i == slot(s, Lower)
             r == InsertAt(s, i, t)
  <1>1. i \in 1..(Len(s) + 1)
    BY SlotInList
  <1>2. r \in Seq(Task) /\ Range(r) = Range(s) \cup {t} /\ IsInjective(r)
    <2> HIDE DEF i
    <2> QED
      BY <1>1, Insert
  <1>3. ASSUME Ordered(s, ByPriority(k)) PROVE Ordered(r, ByPriority(k))
    <2>1. \A u \in Range(s) : u \in Task /\ (u \in Lower <=> k.priority[u] < k.priority[t])
      BY RangeByIndex
    <2> HIDE DEF Lower
    <2>2. /\ \A u \in Task : k.priority[u] \in Int
          /\ \A u, v \in Task : <<u, v>> \in ByPriority(k) <=> k.priority[u] >= k.priority[v]
      BY Relations
    <2>3. \A u \in Range(s) \ Lower : <<u, t>> \in ByPriority(k)
      BY <2>1, <2>2
    <2>4. \A u \in Range(s) \cap Lower : <<t, u>> \in ByPriority(k)
      BY <2>1, <2>2
    <2>5. ASSUME NEW u \in Range(s) \cap Lower, NEW v \in Range(s), <<u, v>> \in ByPriority(k)
          PROVE  <<t, v>> \in ByPriority(k)
      <3>1. /\ u \in Task /\ v \in Task
            /\ k.priority[u] < k.priority[t] /\ k.priority[u] >= k.priority[v]
        BY <2>1, <2>2, <2>5
      <3>2. k.priority[t] >= k.priority[v]
        BY <2>2, <3>1
      <3> QED
        BY <2>2, <3>1, <3>2
    <2> QED
      BY <1>3, <2>3, <2>4, <2>5, OrderedInsert
  <1>4. insert_by_priority(s, t, k.priority) = r
    BY DEF insert_by_priority
  <1> HIDE DEF r
  <1> QED
    BY <1>2, <1>3, <1>4

\* WaitQueue::park of the running task.
LEMMA Park ==
    ASSUME NEW k \in KernelType, NEW t \in Task, Consistent(k, {}),
           k.state[t] = "Running", NEW l \in Lists
    PROVE  LET k1 == park(k, t, l)
           IN  /\ k1 \in KernelType
               /\ Consistent(k1, {})
               /\ k1.state = [k.state EXCEPT ![t] = "Blocked"]
               /\ k1.priority = k.priority
               /\ k1.base_priority = k.base_priority
               /\ k1.wait_list = [k.wait_list EXCEPT ![t] = l]
               /\ k1.timeout_expired = [k.timeout_expired EXCEPT ![t] = FALSE]
               /\ t \notin Range(k1.delay_list)
               /\ Sorted(k) => Sorted(k1)
  <1> DEFINE w == insert_by_priority(k.wait_lists[l], t, k.priority)
             k1 == park(k, t, l)
  <1>1. Loose(k, t)
    BY NotListed
  <1>2. k.wait_lists[l] \in Seq(Task) /\ t \notin Range(k.wait_lists[l]) /\ IsInjective(k.wait_lists[l])
    BY <1>1, Fields DEF Loose, Consistent, WaitListed
  <1>3. /\ w \in Seq(Task) /\ Range(w) = Range(k.wait_lists[l]) \cup {t} /\ IsInjective(w)
        /\ Ordered(k.wait_lists[l], ByPriority(k)) => Ordered(w, ByPriority(k))
    BY <1>2, InsertByPriority
  <1>4. k1 = [k EXCEPT !.state[t] = "Blocked", !.wait_list[t] = l,
                       !.wait_lists[l] = w, !.timeout_expired[t] = FALSE]
    BY DEF park
  <1> HIDE DEF w, k1
  <1>5. /\ k1 \in KernelType
        /\ \A u \in Task : k1.state[u] = IF u = t THEN "Blocked" ELSE k.state[u]
        /\ k1.priority = k.priority
        /\ k1.base_priority = k.base_priority
        /\ k1.ready_lists = k.ready_lists
        /\ k1.ready_bitmask = k.ready_bitmask
        /\ k1.delay_list = k.delay_list
        /\ k1.delay_left = k.delay_left
        /\ \A m \in Lists : k1.wait_lists[m] = IF m = l THEN w ELSE k.wait_lists[m]
        /\ \A u \in Task : k1.wait_list[u] = IF u = t THEN l ELSE k.wait_list[u]
        /\ \A u \in Task : k1.timeout_expired[u] =
                               IF u = t THEN FALSE ELSE k.timeout_expired[u]
    BY <1>3, <1>4 DEF KernelType, TaskStates
  <1>6. ReadyListed(k1) /\ ReadyComplete(k1, {}) /\ BitmaskExact(k1)
    <2>1. ReadyListed(k1)
      BY <1>1, <1>5, Fields DEF Loose, Consistent, ReadyListed
    <2>2. ReadyComplete(k1, {})
      BY <1>5 DEF Consistent, ReadyComplete
    <2>3. BitmaskExact(k1)
      BY <1>5 DEF Consistent, BitmaskExact
    <2> QED
      BY <2>1, <2>2, <2>3
  <1>7. WaitListed(k1)
    BY <1>1, <1>3, <1>5, Fields DEF Loose, Consistent, WaitListed
  <1>8. WaitComplete(k1)
    BY <1>3, <1>5, Fields DEF Consistent, WaitComplete
  <1>9. DelayListed(k1)
    BY <1>1, <1>5, Fields DEF Loose, Consistent, DelayListed, in_delay_list
  <1>10. BlockedListed(k1, {})
    BY <1>5, KernelAssumption DEF Consistent, BlockedListed, in_delay_list
  <1>11. ASSUME Sorted(k) PROVE Sorted(k1)
    <2>1. \A m \in Lists : Ordered(k1.wait_lists[m], ByPriority(k1))
      BY <1>3, <1>5, <1>11, SortedAsOrdered DEF ByPriority
    <2>2. Ordered(k1.delay_list, ByTicks(k1))
      BY <1>5, <1>11, SortedAsOrdered DEF ByTicks
    <2> QED
      BY <1>5, <2>1, <2>2, SortedAsOrdered
  <1>12. t \notin Range(k1.delay_list)
    BY <1>1, <1>5 DEF Loose
  <1>13. Consistent(k1, {})
    BY <1>6, <1>7, <1>8, <1>9, <1>10 DEF Consistent
  <1>14. /\ k1.state = [k.state EXCEPT ![t] = "Blocked"]
         /\ k1.wait_list = [k.wait_list EXCEPT ![t] = l]
         /\ k1.timeout_expired = [k.timeout_expired EXCEPT ![t] = FALSE]
    BY <1>4 DEF KernelType
  <1> QED
    BY <1>5, <1>11, <1>12, <1>13, <1>14 DEF k1

\* Waiter u leaves wait list l, of which w is left, and its timeout, and is ready.
WakeUp(k, l, u, w) ==
    ready_add([delay_remove([k EXCEPT !.wait_lists[l] = w, !.wait_list[u] = NoList], u)
                  EXCEPT !.state[u] = "Ready", !.wait_list[u] = NoList], u)

LEMMA WakeOne ==
    ASSUME NEW k \in KernelType, Consistent(k, {}), NEW l \in Lists,
           NEW u \in Task, u \in Range(k.wait_lists[l]),
           NEW w \in Seq(Task), Range(w) = Range(k.wait_lists[l]) \ {u}, IsInjective(w),
           Ordered(k.wait_lists[l], ByPriority(k)) => Ordered(w, ByPriority(k))
    PROVE  LET k1 == WakeUp(k, l, u, w)
           IN  /\ k.state[u] = "Blocked" /\ k.wait_list[u] = l
               /\ k1 \in KernelType
               /\ Consistent(k1, {})
               /\ \A t \in Task : k1.state[t] = IF t = u THEN "Ready" ELSE k.state[t]
               /\ k1.priority = k.priority
               /\ k1.base_priority = k.base_priority
               /\ \A t \in Task : k1.wait_list[t] = IF t = u THEN NoList ELSE k.wait_list[t]
               /\ k1.timeout_expired = k.timeout_expired
               /\ \A t \in Task \ {u} : k1.delay_left[t] = k.delay_left[t]
               /\ Sorted(k) => Sorted(k1)
  <1> DEFINE s == k.wait_lists[l]
             k1 == [k EXCEPT !.wait_lists[l] = w, !.wait_list[u] = NoList]
             k2 == delay_remove(k1, u)
             k3 == [k2 EXCEPT !.state[u] = "Ready", !.wait_list[u] = NoList]
             k4 == ready_add(k3, u)
  <1>1. s \in Seq(Task) /\ IsInjective(s)
    BY Fields DEF Consistent, WaitListed
  <1>2. /\ u \in Task /\ u \in Range(s)
        /\ w \in Seq(Task) /\ Range(w) = Range(s) \ {u} /\ IsInjective(w)
    OBVIOUS
  <1>3. k.state[u] = "Blocked" /\ k.wait_list[u] = l
    BY <1>2 DEF Consistent, WaitListed
  <1>4. Sorted(k) => Ordered(w, ByPriority(k))
    BY SortedAsOrdered
  <1> HIDE DEF s
  <1>5. /\ k1 \in KernelType
        /\ k1.state = k.state
        /\ k1.priority = k.priority
        /\ k1.base_priority = k.base_priority
        /\ k1.ready_lists = k.ready_lists
        /\ k1.ready_bitmask = k.ready_bitmask
        /\ k1.delay_list = k.delay_list
        /\ k1.delay_left = k.delay_left
        /\ \A m \in Lists : k1.wait_lists[m] = IF m = l THEN w ELSE k.wait_lists[m]
        /\ \A t \in Task : k1.wait_list[t] = IF t = u THEN NoList ELSE k.wait_list[t]
        /\ k1.timeout_expired = k.timeout_expired
    BY <1>2 DEF KernelType, s
  <1> HIDE DEF k1
  <1>6. Consistent(k1, {u})
    <2>1. ReadyListed(k1) /\ BitmaskExact(k1) /\ ReadyComplete(k1, {u})
      BY <1>5 DEF Consistent, ReadyListed, BitmaskExact, ReadyComplete
    <2>2. WaitListed(k1)
      BY <1>2, <1>3, <1>5, Fields DEF Consistent, WaitListed
    <2>3. WaitComplete(k1)
      <3> SUFFICES ASSUME NEW t \in Task, k1.wait_list[t] # NoList
                   PROVE  t \in Range(k1.wait_lists[k1.wait_list[t]])
        BY DEF WaitComplete
      <3>1. t # u /\ k1.wait_list[t] = k.wait_list[t] /\ k.wait_list[t] \in Lists
        BY <1>2, <1>5, Fields
      <3>2. t \in Range(k.wait_lists[k.wait_list[t]])
        BY <3>1 DEF Consistent, WaitComplete
      <3> QED
        BY <1>2, <1>5, <3>1, <3>2 DEF s
    <2>4. DelayListed(k1) /\ BlockedListed(k1, {u})
      BY <1>5 DEF Consistent, DelayListed, BlockedListed, in_delay_list
    <2> QED
      BY <2>1, <2>2, <2>3, <2>4 DEF Consistent
  <1>7. Sorted(k) => Sorted(k1)
    <2> SUFFICES ASSUME Sorted(k) PROVE Sorted(k1)
      OBVIOUS
    <2>1. \A m \in Lists : Ordered(k1.wait_lists[m], ByPriority(k1))
      BY <1>4, <1>5, SortedAsOrdered DEF ByPriority
    <2>2. Ordered(k1.delay_list, ByTicks(k1))
      BY <1>5, SortedAsOrdered DEF ByTicks
    <2> QED
      BY <1>5, <2>1, <2>2, SortedAsOrdered
  <1>8. /\ k2 \in KernelType
        /\ Consistent(k2, {u})
        /\ ~in_delay_list(k2, u)
        /\ k2.state = k.state
        /\ k2.ready_lists = k.ready_lists
        /\ k2.wait_lists = k1.wait_lists
    BY <1>2, <1>5, <1>6, DelayRemove
  <1>9. /\ k2.priority = k.priority
        /\ k2.base_priority = k.base_priority
        /\ k2.wait_list = k1.wait_list
        /\ k2.timeout_expired = k.timeout_expired
        /\ \A t \in Task \ {u} : k2.delay_left[t] = k.delay_left[t]
        /\ Sorted(k) => Sorted(k2)
    <2>1. IsInjective(k1.delay_list)
      BY <1>6 DEF Consistent, DelayListed
    <2> QED
      BY <1>2, <1>5, <1>7, <2>1, DelayRemoveWaits
  <1> HIDE DEF k2
  <1>10. k3 = [k2 EXCEPT !.state[u] = "Ready"]
    <2>1. k2.wait_list[u] = NoList /\ k2.wait_list \in [Task -> Lists \cup {NoList}]
      BY <1>2, <1>5, <1>8, <1>9 DEF KernelType
    <2>2. [k2.wait_list EXCEPT ![u] = NoList] = k2.wait_list
      BY <1>2, <2>1
    <2> QED
      BY <1>8, <2>2 DEF KernelType
  <1>11. Loose(k2, u)
    <2>1. \A p \in Priorities : u \notin Range(k2.ready_lists[p])
      BY <1>3, <1>8 DEF Consistent, ReadyListed
    <2>2. \A m \in Lists : u \notin Range(k2.wait_lists[m])
      BY <1>2, <1>3, <1>5, <1>8, Fields DEF Consistent, WaitListed
    <2> QED
      BY <1>8, <2>1, <2>2 DEF Loose, in_delay_list
  <1>12. /\ k3 \in KernelType /\ Consistent(k3, {u}) /\ Loose(k3, u)
         /\ SameWaits(k2, k3)
         /\ \A t \in Task : k3.state[t] = IF t = u THEN "Ready" ELSE k.state[t]
    <2>1. "Ready" \in TaskStates
      BY DEF TaskStates
    <2>2. k3 \in KernelType /\ Consistent(k3, {u}) /\ Loose(k3, u) /\ SameWaits(k2, k3)
      BY <1>2, <1>8, <1>10, <1>11, <2>1, SetState, ReadyOps
    <2> QED
      BY <1>8, <1>10, <2>2 DEF KernelType
  <1> HIDE DEF k3
  <1>13. /\ k4 \in KernelType /\ Consistent(k4, {}) /\ k4.state = k3.state
         /\ SameWaits(k3, k4)
    BY <1>2, <1>12, ReadyAdd, ReadyOps
  <1> HIDE DEF k4
  <1>14. Sorted(k) => Sorted(k4)
    <2>1. Sorted(k2) <=> Sorted(k3)
      BY <1>12, SameWaitsSorted
    <2>2. Sorted(k3) <=> Sorted(k4)
      BY <1>13, SameWaitsSorted
    <2>3. Sorted(k) => Sorted(k2)
      BY <1>9
    <2> QED
      BY <2>1, <2>2, <2>3, Zenon
  <1>15. /\ k4.priority = k.priority
         /\ k4.base_priority = k.base_priority
         /\ \A t \in Task : k4.wait_list[t] = IF t = u THEN NoList ELSE k.wait_list[t]
         /\ k4.timeout_expired = k.timeout_expired
         /\ \A t \in Task \ {u} : k4.delay_left[t] = k.delay_left[t]
    <2>1. k3.wait_list = k2.wait_list /\ k4.wait_list = k3.wait_list
      BY <1>12, <1>13 DEF SameWaits
    <2>2. \A t \in Task : k4.wait_list[t] = IF t = u THEN NoList ELSE k.wait_list[t]
      BY <1>5, <1>9, <2>1
    <2>3. /\ k4.priority = k2.priority
          /\ k4.base_priority = k2.base_priority
          /\ k4.timeout_expired = k2.timeout_expired
          /\ k4.delay_left = k2.delay_left
      BY <1>12, <1>13 DEF SameWaits
    <2> QED
      BY <1>9, <2>2, <2>3
  <1>16. WakeUp(k, l, u, w) = k4
    BY DEF WakeUp, k4, k3, k2, k1
  <1>17. \A t \in Task : k4.state[t] = IF t = u THEN "Ready" ELSE k.state[t]
    BY <1>12, <1>13
  <1> QED
    BY <1>3, <1>13, <1>14, <1>15, <1>16, <1>17

\* WaitQueue::wake_highest and make_task_ready: the first waiter, which has the
\* highest priority, leaves the list and its timeout and is ready.
LEMMA WakeWaiter ==
    ASSUME NEW k \in KernelType, Consistent(k, {}), NEW l \in Lists,
           peek_waiter(k, l) # NoTask
    PROVE  LET u  == peek_waiter(k, l)
               k1 == make_task_ready(wake_highest(k, l), u)
           IN  /\ u \in Task /\ k.state[u] = "Blocked" /\ k.wait_list[u] = l
               /\ k1 \in KernelType
               /\ Consistent(k1, {})
               /\ \A t \in Task : k1.state[t] = IF t = u THEN "Ready" ELSE k.state[t]
               /\ k1.priority = k.priority
               /\ k1.base_priority = k.base_priority
               /\ \A t \in Task : k1.wait_list[t] = IF t = u THEN NoList ELSE k.wait_list[t]
               /\ k1.timeout_expired = k.timeout_expired
               /\ \A t \in Task \ {u} : k1.delay_left[t] = k.delay_left[t]
               /\ Sorted(k) => /\ Sorted(k1)
                               /\ \A t \in Range(k.wait_lists[l]) :
                                     k.priority[t] <= k.priority[u]
  <1> DEFINE s == k.wait_lists[l]
             u == Head(s)
             w == pop_front(s)
             k1 == WakeUp(k, l, u, w)
  <1>1. s \in Seq(Task) /\ s # <<>> /\ IsInjective(s) /\ peek_waiter(k, l) = u
    BY Fields DEF peek_waiter, Consistent, WaitListed
  <1>2. /\ u \in Task /\ u \in Range(s)
        /\ w \in Seq(Task) /\ Range(w) = Range(s) \ {u} /\ IsInjective(w)
    BY <1>1, PopFront
  <1>3. Ordered(s, ByPriority(k)) =>
            /\ Ordered(w, ByPriority(k))
            /\ \A t \in Range(w) : <<u, t>> \in ByPriority(k)
    BY <1>1, OrderedPop
  <1>4. make_task_ready(wake_highest(k, l), peek_waiter(k, l)) = k1
    <2> DEFINE k2 == delay_remove([k EXCEPT !.wait_lists[l] = w, !.wait_list[u] = NoList], u)
    <2>1. wake_highest(k, l) = k2
      BY <1>1 DEF wake_highest
    <2>2. k2.state = k.state
      BY DEF delay_remove, KernelType
    <2>3. k.state[u] = "Blocked"
      BY <1>2 DEF Consistent, WaitListed
    <2>4. u # NoTask /\ k2.state[u] # "Deleted"
      BY <1>2, <2>2, <2>3, KernelAssumption
    <2> HIDE DEF u, w
    <2>5. WakeUp(k, l, u, w) =
              ready_add([k2 EXCEPT !.state[u] = "Ready", !.wait_list[u] = NoList], u)
      BY DEF WakeUp
    <2> HIDE DEF k2
    <2> QED
      BY <1>1, <2>1, <2>4, <2>5 DEF make_task_ready
  <1> HIDE DEF u, w
  <1>5. /\ k.state[u] = "Blocked" /\ k.wait_list[u] = l
        /\ k1 \in KernelType
        /\ Consistent(k1, {})
        /\ \A t \in Task : k1.state[t] = IF t = u THEN "Ready" ELSE k.state[t]
        /\ k1.priority = k.priority
        /\ k1.base_priority = k.base_priority
        /\ \A t \in Task : k1.wait_list[t] = IF t = u THEN NoList ELSE k.wait_list[t]
        /\ k1.timeout_expired = k.timeout_expired
        /\ \A t \in Task \ {u} : k1.delay_left[t] = k.delay_left[t]
        /\ Sorted(k) => Sorted(k1)
    BY <1>2, <1>3, WakeOne
  <1> HIDE DEF k1
  <1>6. ASSUME Sorted(k) PROVE \A t \in Range(s) : k.priority[t] <= k.priority[u]
    <2> TAKE t \in Range(s)
    <2>1. t \in Task
      BY <1>1, RangeByIndex
    <2>2. k.priority[t] \in Int
      BY <2>1, Relations
    <2>3. CASE t = u
      BY <2>2, <2>3
    <2>4. CASE t # u
      <3>1. <<u, t>> \in ByPriority(k)
        BY <1>2, <1>3, <1>6, <2>4, SortedAsOrdered
      <3> QED
        BY <1>2, <2>1, <3>1, Relations
    <2> QED
      BY <2>3, <2>4
  <1> QED
    BY <1>1, <1>2, <1>4, <1>5, <1>6

\* Writing the priority of a task that is in no ready list.
LEMMA WritePriority ==
    ASSUME NEW k \in KernelType, NEW t \in Task, NEW D, Consistent(k, D),
           k.state[t] = "Ready" => t \in D,
           \A q \in Priorities : t \notin Range(k.ready_lists[q]), NEW p \in Priorities
    PROVE  LET k1 == [k EXCEPT !.priority[t] = p]
           IN  /\ k1 \in KernelType
               /\ Consistent(k1, D)
               /\ k1.state = k.state
               /\ \A u \in Task : k1.priority[u] = IF u = t THEN p ELSE k.priority[u]
               /\ k1.base_priority = k.base_priority
               /\ k1.ready_lists = k.ready_lists
               /\ k1.delay_list = k.delay_list
               /\ k1.delay_left = k.delay_left
               /\ k1.wait_lists = k.wait_lists
               /\ k1.wait_list = k.wait_list
               /\ k1.timeout_expired = k.timeout_expired
               /\ Sorted(k) /\ k.wait_list[t] = NoList => Sorted(k1)
  <1> DEFINE k1 == [k EXCEPT !.priority[t] = p]
  <1>1. /\ k1 \in KernelType
        /\ k1.state = k.state
        /\ \A u \in Task : k1.priority[u] = IF u = t THEN p ELSE k.priority[u]
        /\ k1.base_priority = k.base_priority
        /\ k1.ready_lists = k.ready_lists
        /\ k1.ready_bitmask = k.ready_bitmask
        /\ k1.delay_list = k.delay_list
        /\ k1.delay_left = k.delay_left
        /\ k1.wait_lists = k.wait_lists
        /\ k1.wait_list = k.wait_list
        /\ k1.timeout_expired = k.timeout_expired
    BY DEF KernelType
  <1> HIDE DEF k1
  <1>2. ReadyListed(k1)
    BY <1>1, Fields DEF Consistent, ReadyListed
  <1>3. ReadyComplete(k1, D)
    BY <1>1 DEF Consistent, ReadyComplete
  <1>4. BitmaskExact(k1)
    BY <1>1 DEF Consistent, BitmaskExact
  <1>5. WaitListed(k1) /\ WaitComplete(k1)
    BY <1>1 DEF Consistent, WaitListed, WaitComplete
  <1>6. DelayListed(k1) /\ BlockedListed(k1, D)
    BY <1>1 DEF Consistent, DelayListed, BlockedListed, in_delay_list
  <1>7. ASSUME Sorted(k), k.wait_list[t] = NoList PROVE Sorted(k1)
    <2>1. ASSUME NEW l \in Lists PROVE Ordered(k1.wait_lists[l], ByPriority(k1))
      <3>1. Ordered(k.wait_lists[l], ByPriority(k)) /\ k.wait_lists[l] \in Seq(Task)
        BY <1>7, SortedAsOrdered, Fields
      <3>2. t \notin Range(k.wait_lists[l]) /\ Range(k.wait_lists[l]) \subseteq Task
        BY <1>7, Fields, KernelAssumption DEF Consistent, WaitListed
      <3>3. \A u, v \in Range(k.wait_lists[l]) :
                <<u, v>> \in ByPriority(k) => <<u, v>> \in ByPriority(k1)
        BY <1>1, <3>2, Relations
      <3> QED
        BY <1>1, <3>1, <3>3, OrderedMore
    <2>2. Ordered(k1.delay_list, ByTicks(k1))
      BY <1>1, <1>7, SortedAsOrdered DEF ByTicks
    <2> QED
      BY <1>1, <2>1, <2>2, SortedAsOrdered
  <1> QED
    BY <1>1, <1>2, <1>3, <1>4, <1>5, <1>6, <1>7 DEF k1, Consistent

\* Scheduler::set_task_priority moves a ready task to the list of its new
\* priority and a waiter to its new place, and changes nothing else.
LEMMA SetTaskPriority ==
    ASSUME NEW k \in KernelType, NEW t \in Task, Consistent(k, {}), NEW p \in Priorities
    PROVE  LET k1 == set_task_priority(k, t, p)
           IN  /\ k1 \in KernelType
               /\ Consistent(k1, {})
               /\ k1.state = k.state
               /\ \A u \in Task : k1.priority[u] = IF u = t THEN p ELSE k.priority[u]
               /\ k1.base_priority = k.base_priority
               /\ k1.delay_left = k.delay_left
               /\ k1.wait_list = k.wait_list
               /\ k1.timeout_expired = k.timeout_expired
               /\ Sorted(k) => Sorted(k1)
  <1>1. CASE k.priority[t] = p
    BY <1>1 DEF set_task_priority
  <1>2. CASE k.priority[t] # p /\ k.state[t] = "Ready"
    <2> DEFINE k1 == ready_remove(k, t)
               k2 == [k1 EXCEPT !.priority[t] = p]
               k3 == ready_add(k2, t)
    <2>1. /\ k1 \in KernelType /\ Consistent(k1, {t}) /\ Loose(k1, t)
          /\ k1.state = k.state /\ SameWaits(k, k1)
      BY <1>2, ReadyRemove, ReadyOps
    <2>2. k.wait_list[t] = NoList
      BY <1>2, Fields DEF Consistent, WaitListed, WaitComplete
    <2>3. set_task_priority(k, t, p) = k3
      BY <1>2 DEF set_task_priority
    <2> HIDE DEF k1
    <2>4. \A q \in Priorities : t \notin Range(k1.ready_lists[q])
      BY <2>1 DEF Loose
    <2>5. /\ k2 \in KernelType
          /\ Consistent(k2, {t})
          /\ k2.state = k1.state
          /\ \A u \in Task : k2.priority[u] = IF u = t THEN p ELSE k1.priority[u]
          /\ k2.base_priority = k1.base_priority
          /\ k2.ready_lists = k1.ready_lists
          /\ k2.delay_list = k1.delay_list
          /\ k2.delay_left = k1.delay_left
          /\ k2.wait_lists = k1.wait_lists
          /\ k2.wait_list = k1.wait_list
          /\ k2.timeout_expired = k1.timeout_expired
          /\ Sorted(k1) /\ k1.wait_list[t] = NoList => Sorted(k2)
      BY <2>1, <2>4, WritePriority
    <2> HIDE DEF k2
    <2>6. Loose(k2, t)
      BY <2>1, <2>5 DEF Loose
    <2>7. /\ k3 \in KernelType /\ Consistent(k3, {}) /\ k3.state = k2.state
          /\ SameWaits(k2, k3)
      BY <1>2, <2>1, <2>5, <2>6, ReadyAdd, ReadyOps
    <2>8. Sorted(k) => Sorted(k3)
      <3>1. Sorted(k) => Sorted(k1)
        BY <2>1, SameWaitsSorted
      <3>2. k1.wait_list[t] = NoList
        BY <2>1, <2>2 DEF SameWaits
      <3> QED
        BY <2>5, <2>7, <3>1, <3>2, SameWaitsSorted
    <2> HIDE DEF k3
    <2> QED
      BY <2>1, <2>3, <2>5, <2>7, <2>8 DEF SameWaits
  <1>3. CASE k.priority[t] # p /\ k.state[t] # "Ready"
    <2> DEFINE k1 == [k EXCEPT !.priority[t] = p]
               l == k.wait_list[t]
               s == remove(k.wait_lists[l], t)
               r == insert_by_priority(s, t, k1.priority)
               k2 == [k1 EXCEPT !.wait_lists[l] = r]
    <2>1. \A q \in Priorities : t \notin Range(k.ready_lists[q])
      BY <1>3 DEF Consistent, ReadyListed
    <2>2. /\ k1 \in KernelType
          /\ Consistent(k1, {})
          /\ k1.state = k.state
          /\ \A u \in Task : k1.priority[u] = IF u = t THEN p ELSE k.priority[u]
          /\ k1.base_priority = k.base_priority
          /\ k1.ready_lists = k.ready_lists
          /\ k1.delay_list = k.delay_list
          /\ k1.delay_left = k.delay_left
          /\ k1.wait_lists = k.wait_lists
          /\ k1.wait_list = k.wait_list
          /\ k1.timeout_expired = k.timeout_expired
          /\ Sorted(k) /\ k.wait_list[t] = NoList => Sorted(k1)
      BY <1>3, <2>1, WritePriority
    <2>3. CASE k.state[t] # "Blocked" \/ k.wait_list[t] = NoList
      <3>1. set_task_priority(k, t, p) = k1
        BY <1>3, <2>3 DEF set_task_priority
      <3>2. k.wait_list[t] = NoList
        BY <2>3, Fields DEF Consistent, WaitListed, WaitComplete
      <3> HIDE DEF k1
      <3> QED
        BY <2>2, <3>1, <3>2
    <2>4. CASE k.state[t] = "Blocked" /\ k.wait_list[t] # NoList
      <3>1. set_task_priority(k, t, p) = k2
        BY <1>3, <2>4 DEF set_task_priority
      <3> HIDE DEF k1
      <3>2. /\ l \in Lists /\ k.wait_lists[l] \in Seq(Task)
            /\ IsInjective(k.wait_lists[l]) /\ t \in Range(k.wait_lists[l])
            /\ Range(k.wait_lists[l]) \subseteq Task
        BY <2>4, Fields DEF Consistent, WaitListed, WaitComplete
      <3> HIDE DEF l
      <3>3. /\ s \in Seq(Task) /\ Range(s) = Range(k.wait_lists[l]) \ {t} /\ IsInjective(s)
        BY <3>2, RemoveOne
      <3>4. /\ r \in Seq(Task) /\ Range(r) = Range(s) \cup {t} /\ IsInjective(r)
            /\ Ordered(s, ByPriority(k1)) => Ordered(r, ByPriority(k1))
        <4> HIDE DEF s
        <4> QED
          BY <2>2, <3>3, InsertByPriority
      <3>5. Range(r) = Range(k.wait_lists[l])
        BY <3>2, <3>3, <3>4
      <3>6. Sorted(k) => Ordered(r, ByPriority(k1))
        <4> SUFFICES ASSUME Sorted(k) PROVE Ordered(s, ByPriority(k1))
          BY <3>4
        <4>1. Ordered(s, ByPriority(k))
          BY <3>2, SortedAsOrdered, OrderedRemove
        <4>2. \A u, v \in Range(s) : <<u, v>> \in ByPriority(k) => <<u, v>> \in ByPriority(k1)
          <5> HIDE DEF s
          <5> QED
            BY <2>2, <3>2, <3>3, Relations
        <4> HIDE DEF s
        <4> QED
          BY <3>3, <4>1, <4>2, OrderedMore
      <3> HIDE DEF r, s
      <3>7. /\ k2 \in KernelType
            /\ k2.state = k1.state
            /\ k2.priority = k1.priority
            /\ k2.base_priority = k1.base_priority
            /\ k2.ready_lists = k1.ready_lists
            /\ k2.ready_bitmask = k1.ready_bitmask
            /\ k2.delay_list = k1.delay_list
            /\ k2.delay_left = k1.delay_left
            /\ \A m \in Lists : k2.wait_lists[m] = IF m = l THEN r ELSE k1.wait_lists[m]
            /\ k2.wait_list = k1.wait_list
            /\ k2.timeout_expired = k1.timeout_expired
        BY <2>2, <3>2, <3>4 DEF KernelType
      <3> HIDE DEF k2
      <3>8. Consistent(k2, {})
        <4>1. ReadyListed(k2) /\ BitmaskExact(k2) /\ ReadyComplete(k2, {})
          BY <2>2, <3>7 DEF Consistent, ReadyListed, BitmaskExact, ReadyComplete
        <4>2. WaitListed(k2)
          BY <2>2, <3>4, <3>5, <3>7 DEF Consistent, WaitListed
        <4>3. WaitComplete(k2)
          <5> SUFFICES ASSUME NEW u \in Task, k2.wait_list[u] # NoList
                       PROVE  u \in Range(k2.wait_lists[k2.wait_list[u]])
            BY DEF WaitComplete
          <5> DEFINE m == k.wait_list[u]
          <5>1. m \in Lists /\ u \in Range(k.wait_lists[m]) /\ k2.wait_list[u] = m
            BY <2>2, <3>7, Fields DEF Consistent, WaitComplete
          <5> HIDE DEF m
          <5>2. Range(k2.wait_lists[m]) = Range(k.wait_lists[m])
            BY <2>2, <3>5, <3>7, <5>1
          <5> QED
            BY <5>1, <5>2
        <4>4. DelayListed(k2) /\ BlockedListed(k2, {})
          BY <2>2, <3>7 DEF Consistent, DelayListed, BlockedListed, in_delay_list
        <4> QED
          BY <4>1, <4>2, <4>3, <4>4 DEF Consistent
      <3>9. ASSUME Sorted(k) PROVE Sorted(k2)
        <4>1. ASSUME NEW m \in Lists PROVE Ordered(k2.wait_lists[m], ByPriority(k2))
          <5>1. CASE m = l
            BY <3>6, <3>7, <3>9, <5>1 DEF ByPriority
          <5>2. CASE m # l
            <6>1. Ordered(k.wait_lists[m], ByPriority(k)) /\ k.wait_lists[m] \in Seq(Task)
              BY <3>9, SortedAsOrdered, Fields
            <6>2. t \notin Range(k.wait_lists[m]) /\ Range(k.wait_lists[m]) \subseteq Task
              BY <5>2, Fields DEF Consistent, WaitListed, l
            <6>3. \A u, v \in Range(k.wait_lists[m]) :
                      <<u, v>> \in ByPriority(k) => <<u, v>> \in ByPriority(k1)
              BY <2>2, <6>2, Relations
            <6>4. Ordered(k.wait_lists[m], ByPriority(k1))
              BY <6>1, <6>3, OrderedMore
            <6> QED
              BY <2>2, <3>7, <5>2, <6>4 DEF ByPriority
          <5> QED
            BY <5>1, <5>2
        <4>2. Ordered(k2.delay_list, ByTicks(k2))
          <5>1. Ordered(k.delay_list, ByTicks(k))
            BY <3>9, SortedAsOrdered
          <5>2. k2.delay_list = k.delay_list /\ k2.delay_left = k.delay_left
            BY <2>2, <3>7
          <5>3. ByTicks(k2) = ByTicks(k)
            BY <5>2 DEF ByTicks
          <5> QED
            BY <5>1, <5>2, <5>3
        <4> QED
          BY <3>7, <4>1, <4>2, SortedAsOrdered
      <3> QED
        BY <2>2, <3>1, <3>7, <3>8, <3>9
    <2> QED
      BY <2>3, <2>4
  <1> QED
    BY <1>1, <1>2, <1>3
=============================================================================
