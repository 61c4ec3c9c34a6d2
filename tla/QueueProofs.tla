----------------------------- MODULE QueueProofs -----------------------------
(***************************************************************************)
(* The queue loses no wake-up and is a FIFO channel, for every set of      *)
(* tasks and items, every capacity and every timeout.                      *)
(***************************************************************************)
EXTENDS Queue, SchedulerProofs

QueueType ==
    [storage : [0..(capacity - 1) -> Item \cup {NoItem}],
     head    : 0..(capacity - 1),
     tail    : 0..(capacity - 1),
     count   : 0..capacity]

\* The slot of the ring i places after h.
Place(h, i) == IF h + i < capacity THEN h + i ELSE h + i - capacity

\* The tail is where the items in use end.
RingExact(q) == q \in QueueType /\ q.tail = Place(q.head, q.count)

\* The items in a ring, oldest first.
Ring(q) == [i \in 1..q.count |-> q.storage[(q.head + i - 1) % capacity]]

\* A task on one of the wait lists is inside the call that waits there, and the
\* wait has not failed.
WaitersQueued ==
    \A t \in Task : kern.wait_list[t] # NoList =>
        /\ ~kern.timeout_expired[t]
        /\ \/ kern.wait_list[t] = senders /\ call[t].op = "send"
           \/ kern.wait_list[t] = receivers /\ call[t].op = "receive"

\* A task in no call that waits has no buffer the queue writes to.
BuffersReturned ==
    \A t \in Task : call[t].op \notin {"send", "receive"} => xfer[t] = NoItem

LastType ==
    [op   : {"none", "send", "receive"},
     item : Item \cup {NoItem}, ok : BOOLEAN, turn : 0..1]

\* The inductive invariant of QueueSpec.
QueueInv ==
    /\ IInv
    /\ ListsSorted
    /\ RingExact(queue)
    /\ xfer \in [Task -> Item \cup {NoItem}]
    /\ last \in LastType
    /\ WaitersQueued
    /\ BuffersReturned
    /\ NobodyWaitsInVain

----------------------------------------------------------------------------
(* The ring *)

\* Indices run over the end of the storage at most once.
LEMMA PlaceMod ==
    ASSUME NEW h \in 0..(capacity - 1), NEW i \in 0..capacity
    PROVE  /\ Place(h, i) \in 0..(capacity - 1)
           /\ (h + i) % capacity = Place(h, i)
  <1>1. capacity \in Nat /\ capacity > 0
    BY QueueAssumption
  <1>2. Place(h, i) \in 0..(capacity - 1)
    BY <1>1 DEF Place
  <1>3. CASE h + i < capacity
    BY <1>1, <1>3 DEF Place
  <1>4. CASE h + i >= capacity
    <2> DEFINE n == h + i - capacity
    <2>1. n \in 0..(capacity - 1) /\ h + i = 1 * capacity + n
      BY <1>1, <1>4
    <2>2. \A m \in 0..(capacity - 1) : (1 * capacity + m) % capacity = m
      BY <1>1
    <2> HIDE DEF n
    <2>3. (h + i) % capacity = n
      BY <2>1, <2>2
    <2>4. Place(h, i) = n
      BY <1>1, <1>4 DEF Place, n
    <2> QED
      BY <1>2, <2>3, <2>4
  <1>5. h + i < capacity \/ h + i >= capacity
    BY <1>1
  <1> QED
    BY <1>3, <1>4, <1>5, Zenon

\* The fields of a ring.
LEMMA RingFields ==
    ASSUME NEW q \in QueueType
    PROVE  /\ q.head \in 0..(capacity - 1) /\ q.tail \in 0..(capacity - 1)
           /\ q.count \in 0..capacity
           /\ q.storage \in [0..(capacity - 1) -> Item \cup {NoItem}]
           /\ capacity \in Nat /\ capacity > 0
  BY QueueAssumption DEF QueueType

LEMMA RingByPlace ==
    ASSUME NEW q \in QueueType
    PROVE  /\ Ring(q) \in Seq(Item \cup {NoItem})
           /\ Len(Ring(q)) = q.count
           /\ \A i \in 1..q.count : Ring(q)[i] = q.storage[Place(q.head, i - 1)]
  <1>1. \A i \in 1..q.count : /\ i - 1 \in 0..capacity
                              /\ q.head + i - 1 = q.head + (i - 1)
    BY RingFields
  <1>2. \A i \in 1..q.count : /\ Place(q.head, i - 1) \in 0..(capacity - 1)
                              /\ (q.head + i - 1) % capacity = Place(q.head, i - 1)
    BY <1>1, RingFields, PlaceMod
  <1>3. Ring(q) = [i \in 1..q.count |-> q.storage[Place(q.head, i - 1)]]
    BY <1>2 DEF Ring
  <1>4. q.count \in Nat
    BY RingFields
  <1>5. Ring(q) \in [1..q.count -> Item \cup {NoItem}]
    BY <1>2, <1>3, RingFields
  <1>6. Ring(q) \in Seq(Item \cup {NoItem}) /\ Len(Ring(q)) = q.count
    BY <1>4, <1>5
  <1> QED
    BY <1>3, <1>6

\* advance is one place on.
LEMMA Advance ==
    ASSUME NEW h \in 0..(capacity - 1)
    PROVE  /\ advance(h) \in 0..(capacity - 1)
           /\ \A i \in 0..capacity : i < capacity =>
                 /\ Place(advance(h), i) = Place(h, i + 1)
                 /\ advance(Place(h, i)) = Place(h, i + 1)
  <1>1. capacity \in Nat /\ capacity > 0
    BY QueueAssumption
  <1> QED
    BY <1>1 DEF advance, Place

\* Two places of a ring that is not longer than the storage are the same slot
\* only if they are the same place.
LEMMA PlacesApart ==
    ASSUME NEW h \in 0..(capacity - 1), NEW i \in 0..(capacity - 1),
           NEW j \in 0..(capacity - 1), Place(h, i) = Place(h, j)
    PROVE  i = j
  <1>1. capacity \in Nat /\ capacity > 0
    BY QueueAssumption
  <1> QED
    BY <1>1 DEF Place

\* Sequences with the same items are the same.
LEMMA SameItems ==
    ASSUME NEW S, NEW r \in Seq(S), NEW s \in Seq(S), Len(r) = Len(s),
           \A i \in 1..Len(s) : r[i] = s[i]
    PROVE  r = s
  BY SeqEqual

\* push_raw appends: it writes a slot that is not in use.
LEMMA PushRaw ==
    ASSUME NEW q, RingExact(q), q.count < capacity, NEW x \in Item \cup {NoItem}
    PROVE  /\ RingExact(push_raw(q, x))
           /\ push_raw(q, x).count = q.count + 1
           /\ Ring(push_raw(q, x)) = Append(Ring(q), x)
  <1> DEFINE p == push_raw(q, x)
             S == Item \cup {NoItem}
  <1>1. q \in QueueType /\ q.tail = Place(q.head, q.count)
    BY DEF RingExact
  <1>2. /\ q.head \in 0..(capacity - 1) /\ q.tail \in 0..(capacity - 1)
        /\ q.count \in 0..capacity
        /\ q.storage \in [0..(capacity - 1) -> S]
        /\ capacity \in Nat /\ capacity > 0
    BY <1>1, RingFields
  <1>3. advance(q.tail) \in 0..(capacity - 1)
        /\ advance(q.tail) = Place(q.head, q.count + 1)
    BY <1>1, <1>2, Advance
  <1>4. /\ p \in QueueType
        /\ p.storage = [q.storage EXCEPT ![q.tail] = x]
        /\ p.head = q.head /\ p.tail = advance(q.tail) /\ p.count = q.count + 1
    <2>1. q.count + 1 \in 0..capacity
      BY <1>2
    <2>2. [q.storage EXCEPT ![q.tail] = x] \in [0..(capacity - 1) -> S]
      BY <1>2
    <2>3. p = [q EXCEPT !.storage = [q.storage EXCEPT ![q.tail] = x],
                        !.tail = advance(q.tail), !.count = q.count + 1]
      BY <1>1 DEF push_raw, QueueType
    <2> QED
      BY <1>1, <1>3, <2>1, <2>2, <2>3 DEF QueueType
  <1>5. RingExact(p)
    BY <1>3, <1>4 DEF RingExact
  <1> HIDE DEF p
  <1>6. /\ Ring(p) \in Seq(S) /\ Len(Ring(p)) = q.count + 1
        /\ \A i \in 1..(q.count + 1) : Ring(p)[i] = p.storage[Place(q.head, i - 1)]
    BY <1>4, RingByPlace
  <1>7. /\ Ring(q) \in Seq(S) /\ Len(Ring(q)) = q.count
        /\ \A i \in 1..q.count : Ring(q)[i] = q.storage[Place(q.head, i - 1)]
    BY <1>1, RingByPlace
  <1>8. \A i \in 1..q.count : /\ Place(q.head, i - 1) \in 0..(capacity - 1)
                              /\ Place(q.head, i - 1) # q.tail
    <2> SUFFICES ASSUME NEW i \in 1..q.count
                 PROVE  Place(q.head, i - 1) \in 0..(capacity - 1)
                        /\ Place(q.head, i - 1) # q.tail
      OBVIOUS
    <2>1. /\ i - 1 \in 0..(capacity - 1) /\ i - 1 \in 0..capacity
          /\ q.count \in 0..(capacity - 1) /\ i - 1 # q.count
      BY <1>2
    <2>2. Place(q.head, i - 1) \in 0..(capacity - 1)
      BY <1>2, <2>1, PlaceMod
    <2>3. Place(q.head, i - 1) # Place(q.head, q.count)
      BY <1>2, <2>1, PlacesApart
    <2> QED
      BY <1>1, <2>2, <2>3
  <1>9. \A i \in 1..q.count : Ring(p)[i] = Ring(q)[i]
    <2> SUFFICES ASSUME NEW i \in 1..q.count PROVE Ring(p)[i] = Ring(q)[i]
      OBVIOUS
    <2>1. i \in 1..(q.count + 1)
      BY <1>2
    <2>2. Ring(p)[i] = p.storage[Place(q.head, i - 1)]
          /\ Ring(q)[i] = q.storage[Place(q.head, i - 1)]
      BY <1>6, <1>7, <2>1
    <2> QED
      BY <1>2, <1>4, <1>8, <2>2
  <1>10. Ring(p)[q.count + 1] = x
    <2>1. q.count + 1 \in 1..(q.count + 1) /\ (q.count + 1) - 1 = q.count
      BY <1>2
    <2> QED
      BY <1>1, <1>2, <1>4, <1>6, <2>1
  <1>11. /\ Append(Ring(q), x) \in Seq(S)
         /\ Len(Append(Ring(q), x)) = q.count + 1
         /\ \A i \in 1..q.count : Append(Ring(q), x)[i] = Ring(q)[i]
         /\ Append(Ring(q), x)[q.count + 1] = x
    BY <1>2, <1>7
  <1>12. \A i \in 1..(q.count + 1) : i \in 1..q.count \/ i = q.count + 1
    BY <1>2
  <1>13. Ring(p) = Append(Ring(q), x)
    BY <1>6, <1>9, <1>10, <1>11, <1>12, SameItems
  <1> QED
    BY <1>4, <1>5, <1>13 DEF p

\* pop_raw drops the oldest item.
LEMMA PopRaw ==
    ASSUME NEW q, RingExact(q), q.count > 0
    PROVE  /\ RingExact(pop_raw(q))
           /\ pop_raw(q).count = q.count - 1
           /\ Ring(q) # <<>>
           /\ q.storage[q.head] = Head(Ring(q))
           /\ Ring(pop_raw(q)) = Tail(Ring(q))
  <1> DEFINE p == pop_raw(q)
             S == Item \cup {NoItem}
  <1>1. q \in QueueType /\ q.tail = Place(q.head, q.count)
    BY DEF RingExact
  <1>2. /\ q.head \in 0..(capacity - 1) /\ q.tail \in 0..(capacity - 1)
        /\ q.count \in 0..capacity
        /\ q.storage \in [0..(capacity - 1) -> S]
        /\ capacity \in Nat /\ capacity > 0
    BY <1>1, RingFields
  <1>3. /\ advance(q.head) \in 0..(capacity - 1)
        /\ \A i \in 0..capacity : i < capacity =>
              Place(advance(q.head), i) = Place(q.head, i + 1)
    BY <1>2, Advance
  <1>4. /\ p \in QueueType
        /\ p.storage = q.storage
        /\ p.head = advance(q.head) /\ p.tail = q.tail /\ p.count = q.count - 1
    <2>1. q.count - 1 \in 0..capacity
      BY <1>2
    <2>2. p = [q EXCEPT !.head = advance(q.head), !.count = q.count - 1]
      BY <1>1 DEF pop_raw, QueueType
    <2> QED
      BY <1>1, <1>3, <2>1, <2>2 DEF QueueType
  <1>5. RingExact(p)
    <2>1. q.count - 1 \in 0..capacity /\ q.count - 1 < capacity /\ (q.count - 1) + 1 = q.count
      BY <1>2
    <2> QED
      BY <1>1, <1>3, <1>4, <2>1 DEF RingExact
  <1> HIDE DEF p
  <1>6. /\ Ring(p) \in Seq(S) /\ Len(Ring(p)) = q.count - 1
        /\ \A i \in 1..(q.count - 1) : Ring(p)[i] = q.storage[Place(advance(q.head), i - 1)]
    BY <1>4, RingByPlace
  <1>7. /\ Ring(q) \in Seq(S) /\ Len(Ring(q)) = q.count
        /\ \A i \in 1..q.count : Ring(q)[i] = q.storage[Place(q.head, i - 1)]
    BY <1>1, RingByPlace
  <1>8. \A i \in 1..(q.count - 1) : Ring(p)[i] = Ring(q)[i + 1]
    <2> SUFFICES ASSUME NEW i \in 1..(q.count - 1) PROVE Ring(p)[i] = Ring(q)[i + 1]
      OBVIOUS
    <2>1. /\ i - 1 \in 0..capacity /\ i - 1 < capacity /\ (i - 1) + 1 = i
          /\ i + 1 \in 1..q.count /\ (i + 1) - 1 = i
      BY <1>2
    <2>2. Place(advance(q.head), i - 1) = Place(q.head, i)
      BY <1>3, <2>1
    <2>3. Ring(p)[i] = q.storage[Place(advance(q.head), i - 1)]
      BY <1>6
    <2>4. Ring(q)[i + 1] = q.storage[Place(q.head, (i + 1) - 1)]
      BY <1>7, <2>1
    <2> QED
      BY <2>1, <2>2, <2>3, <2>4
  <1>9. /\ Ring(q) # <<>> /\ Tail(Ring(q)) \in Seq(S)
        /\ Len(Tail(Ring(q))) = q.count - 1
        /\ \A i \in 1..(q.count - 1) : Tail(Ring(q))[i] = Ring(q)[i + 1]
        /\ Head(Ring(q)) = Ring(q)[1]
    BY <1>2, <1>7
  <1>10. Ring(p) = Tail(Ring(q))
    BY <1>6, <1>8, <1>9, SameItems
  <1>11. Ring(q)[1] = q.storage[q.head]
    <2>1. 1 \in 1..q.count /\ 1 - 1 = 0 /\ Place(q.head, 0) = q.head
      BY <1>2 DEF Place
    <2> QED
      BY <1>7, <2>1
  <1> QED
    BY <1>4, <1>5, <1>9, <1>10, <1>11 DEF p
----------------------------------------------------------------------------
(* The waits *)

\* Facts every step starts from.
LEMMA QueueBasics ==
    ASSUME QueueInv
    PROVE  /\ kern \in KernelType /\ Consistent(kern, {}) /\ Sorted(kern)
           /\ senders \in Lists /\ receivers \in Lists
           /\ senders # NoList /\ receivers # NoList /\ senders # receivers
           /\ \A t \in Task : kern.wait_list[t] # NoList => kern.state[t] = "Blocked"
           /\ \A t \in Task : kern.wait_list[t] = receivers => queue.count = 0
           /\ \A t \in Task : kern.wait_list[t] = senders => queue.count = capacity
           /\ queue.count \in 0..capacity /\ capacity \in Nat /\ capacity > 0
  <1>1. kern \in KernelType /\ Consistent(kern, {}) /\ Sorted(kern)
    BY Basics DEF QueueInv, Sorted, ListsSorted
  <1>2. /\ senders \in Lists /\ receivers \in Lists
        /\ senders # NoList /\ receivers # NoList /\ senders # receivers
    BY QueueAssumption, KernelAssumption
  <1>3. \A t \in Task : kern.wait_list[t] # NoList => kern.state[t] = "Blocked"
    BY <1>1, <1>2, WaitersExact
  <1>4. /\ \A t \in Task : kern.wait_list[t] = receivers => kern.wait_lists[receivers] # <<>>
        /\ \A t \in Task : kern.wait_list[t] = senders => kern.wait_lists[senders] # <<>>
    BY <1>1, <1>2, WaitersExact
  <1>5. queue.count \in 0..capacity /\ capacity \in Nat /\ capacity > 0
    BY RingFields DEF QueueInv, RingExact
  <1> QED
    BY <1>1, <1>2, <1>3, <1>4, <1>5 DEF QueueInv, NobodyWaitsInVain

\* What a call that did not wait reports is what the channel shows of it.
LEMMA ReportsEnds ==
    ASSUME NEW op, NEW x, NEW ok, Reports(op, x, ok)
    PROVE  AbstractChannel!Ends(op, x, ok)
  BY DEF Reports, AbstractChannel!Ends

LEMMA ReportsType ==
    ASSUME QueueInv, NEW op \in {"send", "receive"}, NEW x \in Item \cup {NoItem},
           NEW ok \in BOOLEAN, Reports(op, x, ok)
    PROVE  last' \in LastType
  BY DEF QueueInv, LastType, Reports

\* The invariant after a step, from what the step does to each waiter.
LEMMA QueueKept ==
    ASSUME IInv', ListsSorted', RingExact(queue'),
           xfer' \in [Task -> Item \cup {NoItem}], last' \in LastType,
           WaitersQueued', BuffersReturned',
           \A t \in Task : kern'.wait_list[t] = receivers => queue'.count = 0,
           \A t \in Task : kern'.wait_list[t] = senders => queue'.count = capacity
    PROVE  QueueInv'
  <1>1. kern' \in KernelType /\ Consistent(kern', {})
    BY DEF IInv, TypeOK, ListsConsistent
  <1>2. senders \in Lists /\ receivers \in Lists
    BY QueueAssumption
  <1>3. \A l \in Lists : kern'.wait_lists[l] # <<>> => \E t \in Task : kern'.wait_list[t] = l
    BY <1>1, WaitersExact
  <1>4. NobodyWaitsInVain'
    BY <1>2, <1>3 DEF NobodyWaitsInVain
  <1> QED
    BY <1>4 DEF QueueInv

\* The calls that are open in the channel are the tasks on the wait lists.
LEMMA OpenExact ==
    ASSUME QueueInv
    PROVE  /\ AbstractChannel!Open("receive") = {t \in Task : kern.wait_list[t] = receivers}
           /\ AbstractChannel!Open("send") = {t \in Task : kern.wait_list[t] = senders}
           /\ peek_waiter(kern, receivers) = NoTask =>
                 AbstractChannel!Open("receive") = {}
           /\ peek_waiter(kern, senders) = NoTask => AbstractChannel!Open("send") = {}
  <1>1. \A t \in Task : /\ Waiting[t].op = "receive" /\ Waiting[t].result = "open"
                              <=> kern.wait_list[t] = receivers
                        /\ Waiting[t].op = "send" /\ Waiting[t].result = "open"
                              <=> kern.wait_list[t] = senders
    <2> SUFFICES ASSUME NEW t \in Task
                 PROVE  /\ Waiting[t].op = "receive" /\ Waiting[t].result = "open"
                              <=> kern.wait_list[t] = receivers
                        /\ Waiting[t].op = "send" /\ Waiting[t].result = "open"
                              <=> kern.wait_list[t] = senders
      OBVIOUS
    <2>1. kern.wait_list[t] # NoList =>
              \/ kern.wait_list[t] = senders /\ call[t].op = "send"
              \/ kern.wait_list[t] = receivers /\ call[t].op = "receive"
      BY DEF QueueInv, WaitersQueued
    <2>2. CASE call[t].op \notin {"send", "receive"}
      BY <2>1, <2>2, QueueBasics DEF Waiting
    <2>3. CASE call[t].op \in {"send", "receive"}
      <3>1. /\ Waiting[t].op = call[t].op
            /\ Waiting[t].result = "open" <=> kern.wait_list[t] # NoList
        BY <2>3 DEF Waiting
      <3> QED
        BY <2>1, <2>3, <3>1, QueueBasics
    <2> QED
      BY <2>2, <2>3
  <1>2. \A l \in Lists : peek_waiter(kern, l) = NoTask =>
                             \A t \in Task : kern.wait_list[t] # l
    BY QueueBasics, PeekWaiter, WaitersExact
  <1>3. /\ AbstractChannel!Open("receive") = {t \in Task : kern.wait_list[t] = receivers}
        /\ AbstractChannel!Open("send") = {t \in Task : kern.wait_list[t] = senders}
    BY <1>1 DEF AbstractChannel!Open
  <1> QED
    BY <1>2, <1>3, QueueBasics

\* A step of the scheduler is invisible in the channel, or waits give up.
LEMMA QueueSchedStep ==
    ASSUME QueueInv, [SchedNext]_svars, UNCHANGED <<queue, xfer, last>>
    PROVE  QueueInv' /\ AbstractChannel!GiveUp
  <1>1. IInv' /\ Effect
    BY NextInv, NextEffect DEF QueueInv
  <1>2. ListsSorted'
    BY <1>1 DEF QueueInv, Effect, KernelStep, Sorted, ListsSorted
  <1>3. /\ WaitsKept(kern, kern') /\ CallsKept
        /\ "send" \in WaitingApi /\ "receive" \in WaitingApi
    BY <1>1 DEF Effect, KernelStep, WaitingApi
  <1>4. \A t \in Task : /\ call[t].op \in {"send", "receive"} => call'[t].op = call[t].op
                        /\ call'[t].op \in {"send", "receive"} => call'[t].op = call[t].op
    BY <1>3 DEF CallsKept
  <1>5. \A t \in Task : kern'.wait_list[t] # NoList =>
            /\ kern'.wait_list[t] = kern.wait_list[t]
            /\ kern'.timeout_expired[t] = kern.timeout_expired[t]
    BY <1>3 DEF WaitsKept
  <1>6. WaitersQueued'
    BY <1>4, <1>5 DEF QueueInv, WaitersQueued
  <1>7. /\ \A t \in Task : kern'.wait_list[t] = receivers => queue.count = 0
        /\ \A t \in Task : kern'.wait_list[t] = senders => queue.count = capacity
    BY <1>5, QueueBasics
  <1>8. QueueInv'
    <2>1. BuffersReturned'
      BY <1>4 DEF QueueInv, BuffersReturned
    <2> QED
      BY <1>1, <1>2, <1>6, <1>7, <2>1, QueueKept DEF QueueInv
  <1> DEFINE S == {t \in Task : kern.wait_list[t] # NoList /\ kern'.wait_list[t] = NoList}
  <1>9. S \in SUBSET (AbstractChannel!Open("send") \cup AbstractChannel!Open("receive"))
    BY OpenExact DEF QueueInv, WaitersQueued
  <1>10. \A t \in Task : Waiting'[t] = IF t \in S THEN [Waiting[t] EXCEPT !.result = "failed"]
                                                  ELSE Waiting[t]
    <2> SUFFICES ASSUME NEW t \in Task
                 PROVE  Waiting'[t] = IF t \in S THEN [Waiting[t] EXCEPT !.result = "failed"]
                                                 ELSE Waiting[t]
      OBVIOUS
    <2>1. CASE call[t].op \notin {"send", "receive"}
      <3>1. call'[t].op \notin {"send", "receive"}
        BY <1>4, <2>1
      <3>2. t \notin S
        BY <2>1 DEF QueueInv, WaitersQueued
      <3> QED
        BY <2>1, <3>1, <3>2 DEF Waiting
    <2>2. CASE call[t].op \in {"send", "receive"} /\ t \in S
      <3>1. call'[t].op = call[t].op /\ kern'.wait_list[t] = NoList
            /\ kern'.timeout_expired[t] = TRUE /\ kern.wait_list[t] # NoList
        BY <1>3, <1>4, <2>2 DEF WaitsKept
      <3>2. Waiting[t] = [op |-> call[t].op, item |-> xfer[t], result |-> "open"]
        BY <2>2, <3>1 DEF Waiting
      <3>3. Waiting'[t] = [op |-> call[t].op, item |-> xfer[t], result |-> "failed"]
        BY <2>2, <3>1 DEF Waiting
      <3> QED
        BY <2>2, <3>2, <3>3
    <2>3. CASE call[t].op \in {"send", "receive"} /\ t \notin S
      <3>1. /\ call'[t].op = call[t].op
            /\ kern'.wait_list[t] = kern.wait_list[t]
            /\ kern'.timeout_expired[t] = kern.timeout_expired[t]
        BY <1>3, <1>4, <2>3 DEF WaitsKept
      <3> QED
        BY <2>3, <3>1 DEF Waiting
    <2> QED
      BY <2>1, <2>2, <2>3
  <1> HIDE DEF S
  <1>11. Waiting' = [t \in Task |-> IF t \in S THEN [Waiting[t] EXCEPT !.result = "failed"]
                                               ELSE Waiting[t]]
    BY <1>10 DEF Waiting
  <1>12. Contents' = Contents
    BY DEF Contents
  <1> QED
    BY <1>8, <1>9, <1>11, <1>12 DEF AbstractChannel!GiveUp
\* Of the tasks in W, which are in no waiting call, only the calls change.
CallsKeptBut(W) ==
    /\ \A v \in Task \ W : call'[v] = call[v]
    /\ \A v \in Task \cap W : /\ call[v].op \notin {"send", "receive"}
                              /\ call'[v].op \notin {"send", "receive"}

\* The wait of every task but those in U stays as it is in the channel.
LEMMA OthersWait ==
    ASSUME NEW W, CallsKeptBut(W), NEW U,
           \A v \in Task \ U : /\ kern'.wait_list[v] = kern.wait_list[v]
                               /\ kern'.timeout_expired[v] = kern.timeout_expired[v]
                               /\ xfer'[v] = xfer[v]
    PROVE  \A v \in Task \ U : Waiting'[v] = Waiting[v]
  <1> SUFFICES ASSUME NEW v \in Task \ U PROVE Waiting'[v] = Waiting[v]
    OBVIOUS
  <1>1. CASE v \in W
    BY <1>1 DEF CallsKeptBut, Waiting
  <1>2. CASE v \notin W
    <2>1. call'[v] = call[v]
      BY <1>2 DEF CallsKeptBut
    <2> QED
      BY <2>1 DEF Waiting
  <1> QED
    BY <1>1, <1>2

\* The invariant after a waiter u of list l was woken: the other waits go on.
LEMMA QueueWoken ==
    ASSUME QueueInv, IInv', NEW u \in Task, WokenFirst(kern, kern', u),
           NEW W, u \notin W, CallsKeptBut(W),
           RingExact(queue'), queue'.count = queue.count,
           xfer' \in [Task -> Item \cup {NoItem}], last' \in LastType,
           kern.wait_list[u] # NoList, \A v \in Task \ {u} : xfer'[v] = xfer[v]
    PROVE  /\ QueueInv'
           /\ \A v \in Task \ {u} : kern'.wait_list[v] = kern.wait_list[v]
           /\ \A v \in Task : kern'.timeout_expired[v] = kern.timeout_expired[v]
           /\ kern'.wait_list[u] = NoList
           /\ call'[u] = call[u]
  <1>1. /\ \A v \in Task \ {u} : kern'.wait_list[v] = kern.wait_list[v]
        /\ \A v \in Task : kern'.timeout_expired[v] = kern.timeout_expired[v]
        /\ kern'.wait_list[u] = NoList
    BY QueueBasics DEF WokenFirst, KernelType
  <1>2. \A v \in Task : kern'.wait_list[v] # NoList =>
            v # u /\ kern'.wait_list[v] = kern.wait_list[v]
    BY <1>1
  <1>3. \A v \in Task : kern'.wait_list[v] # NoList => call'[v] = call[v]
    BY <1>2 DEF QueueInv, WaitersQueued, CallsKeptBut
  <1>4. WaitersQueued'
    BY <1>1, <1>2, <1>3 DEF QueueInv, WaitersQueued
  <1>5. ListsSorted'
    BY QueueBasics DEF WokenFirst, Sorted, ListsSorted
  <1>6. /\ \A t \in Task : kern'.wait_list[t] = receivers => queue'.count = 0
        /\ \A t \in Task : kern'.wait_list[t] = senders => queue'.count = capacity
    BY <1>2, QueueBasics
  <1>7. BuffersReturned'
    <2> SUFFICES ASSUME NEW v \in Task, call'[v].op \notin {"send", "receive"}
                 PROVE  xfer'[v] = NoItem
      BY DEF BuffersReturned
    <2>1. call[u].op \in {"send", "receive"} /\ call'[u] = call[u]
      BY DEF QueueInv, WaitersQueued, CallsKeptBut
    <2>2. v # u /\ call[v].op \notin {"send", "receive"}
      BY <2>1 DEF CallsKeptBut
    <2> QED
      BY <2>2 DEF QueueInv, BuffersReturned
  <1> QED
    BY <1>1, <1>4, <1>5, <1>6, <1>7, QueueKept DEF CallsKeptBut

\* A send finds a receiver that waits: the item goes into its buffer.
LEMMA HandToReceiver ==
    ASSUME QueueInv, IInv', NEW x \in Item, NEW u \in Task,
           kern.wait_list[u] = receivers, WokenFirst(kern, kern', u),
           xfer' = [xfer EXCEPT ![u] = x], UNCHANGED queue, Reports("send", x, TRUE),
           NEW W, u \notin W, CallsKeptBut(W)
    PROVE  QueueInv' /\ AbstractChannel!Put(x)
  <1>1. /\ xfer' \in [Task -> Item \cup {NoItem}]
        /\ xfer'[u] = x
        /\ \A v \in Task \ {u} : xfer'[v] = xfer[v]
    BY DEF QueueInv
  <1>2. /\ QueueInv'
        /\ \A v \in Task \ {u} : kern'.wait_list[v] = kern.wait_list[v]
        /\ \A v \in Task : kern'.timeout_expired[v] = kern.timeout_expired[v]
        /\ kern'.wait_list[u] = NoList
        /\ call'[u] = call[u]
    <2>1. last' \in LastType /\ kern.wait_list[u] # NoList
      BY ReportsType, QueueBasics
    <2> QED
      BY <1>1, <2>1, QueueWoken DEF QueueInv
  <1>3. call[u].op = "receive" /\ ~kern.timeout_expired[u] /\ kern.wait_list[u] # NoList
    BY QueueBasics DEF QueueInv, WaitersQueued
  <1>4. \A v \in Task \ {u} : Waiting'[v] = Waiting[v]
    BY <1>1, <1>2, OthersWait
  <1>5. Waiting[u] = [op |-> "receive", item |-> xfer[u], result |-> "open"]
    BY <1>3 DEF Waiting
  <1>6. Waiting'[u] = [op |-> "receive", item |-> x, result |-> "ok"]
    BY <1>1, <1>2, <1>3 DEF Waiting
  <1>8. Waiting' = [Waiting EXCEPT ![u].item = x, ![u].result = "ok"]
    <2> DEFINE w == [Waiting EXCEPT ![u].item = x]
    <2>1. Waiting' = [v \in Task |-> Waiting'[v]] /\ Waiting = [v \in Task |-> Waiting[v]]
      BY DEF Waiting
    <2>2. /\ w = [v \in Task |-> w[v]]
          /\ w[u] = [op |-> "receive", item |-> x, result |-> "open"]
          /\ \A v \in Task \ {u} : w[v] = Waiting[v]
      BY <1>5, <2>1
    <2>3. [Waiting EXCEPT ![u].item = x, ![u].result = "ok"] = [w EXCEPT ![u].result = "ok"]
      BY <2>1
    <2> HIDE DEF w
    <2>4. Waiting' = [w EXCEPT ![u].result = "ok"]
      BY <1>4, <1>6, <2>1, <2>2
    <2> QED
      BY <2>3, <2>4
  <1>9. Contents = <<>> /\ Contents' = Contents
    <2>1. queue.count = 0 /\ queue \in QueueType
      BY QueueBasics DEF QueueInv, RingExact
    <2>2. Contents = Ring(queue) /\ Contents' = Contents
      BY DEF Contents, Ring
    <2>3. Ring(queue) \in Seq(Item \cup {NoItem}) /\ Len(Ring(queue)) = 0
      BY <2>1, RingByPlace
    <2> QED
      BY <2>2, <2>3
  <1>10. u \in AbstractChannel!Open("receive")
    BY OpenExact
  <1> QED
    BY <1>2, <1>8, <1>9, <1>10, ReportsEnds DEF AbstractChannel!Put

\* A receive finds a sender that waits: its item takes the room.
LEMMA TakeFromSender ==
    ASSUME QueueInv, IInv', NEW u \in Task,
           kern.wait_list[u] = senders, WokenFirst(kern, kern', u),
           Reports("receive", queue.storage[queue.head], TRUE),
           queue' = push_raw(pop_raw(queue), xfer[u]), UNCHANGED xfer,
           NEW W, u \notin W, CallsKeptBut(W)
    PROVE  QueueInv' /\ AbstractChannel!Take
  <1> DEFINE p == pop_raw(queue)
  <1>1. queue.count > 0 /\ queue.count = capacity /\ RingExact(queue)
    BY QueueBasics DEF QueueInv
  <1>2. /\ RingExact(p) /\ p.count = queue.count - 1
        /\ Ring(queue) # <<>>
        /\ queue.storage[queue.head] = Head(Ring(queue))
        /\ Ring(p) = Tail(Ring(queue))
    BY <1>1, PopRaw
  <1>3. p.count < capacity /\ xfer[u] \in Item \cup {NoItem}
    BY <1>1, <1>2, QueueBasics DEF QueueInv
  <1> HIDE DEF p
  <1>4. /\ RingExact(queue') /\ queue'.count = p.count + 1
        /\ Ring(queue') = Append(Ring(p), xfer[u])
    <2>1. queue' = push_raw(p, xfer[u])
      BY DEF p
    <2> QED
      BY <1>2, <1>3, <2>1, PushRaw
  <1>5. queue'.count = queue.count
    BY <1>1, <1>2, <1>4, QueueBasics
  <1>6. last' \in LastType /\ kern.wait_list[u] # NoList
    <2>1. queue.storage[queue.head] \in Item \cup {NoItem}
      BY <1>1, RingFields DEF RingExact
    <2> QED
      BY <2>1, ReportsType, QueueBasics
  <1>7. /\ QueueInv'
        /\ \A v \in Task \ {u} : kern'.wait_list[v] = kern.wait_list[v]
        /\ \A v \in Task : kern'.timeout_expired[v] = kern.timeout_expired[v]
        /\ kern'.wait_list[u] = NoList
        /\ call'[u] = call[u]
    BY <1>4, <1>5, <1>6, QueueWoken DEF QueueInv
  <1>8. call[u].op = "send" /\ ~kern.timeout_expired[u] /\ kern.wait_list[u] # NoList
    BY QueueBasics DEF QueueInv, WaitersQueued
  <1>9. \A v \in Task \ {u} : Waiting'[v] = Waiting[v]
    BY <1>7, OthersWait
  <1>10. Waiting[u] = [op |-> "send", item |-> xfer[u], result |-> "open"]
    BY <1>8 DEF Waiting
  <1>11. Waiting'[u] = [op |-> "send", item |-> xfer[u], result |-> "ok"]
    BY <1>7, <1>8 DEF Waiting
  <1>12. Waiting' = [Waiting EXCEPT ![u].result = "ok"]
    <2>1. Waiting' = [v \in Task |-> Waiting'[v]] /\ Waiting = [v \in Task |-> Waiting[v]]
      BY DEF Waiting
    <2> QED
      BY <1>9, <1>10, <1>11, <2>1
  <1>13. /\ Contents # <<>> /\ AbstractChannel!Ends("receive", Head(Contents), TRUE)
         /\ Contents' = Append(Tail(Contents), Waiting[u].item)
    <2>1. Contents = Ring(queue) /\ Contents' = Ring(queue')
      BY DEF Contents, Ring
    <2>2. AbstractChannel!Ends("receive", queue.storage[queue.head], TRUE)
      BY ReportsEnds
    <2>3. Contents # <<>> /\ queue.storage[queue.head] = Head(Contents)
      BY <1>2, <2>1
    <2>4. Contents' = Append(Tail(Contents), Waiting[u].item)
      BY <1>2, <1>4, <1>10, <2>1
    <2> QED
      BY <2>2, <2>3, <2>4
  <1>14. u \in AbstractChannel!Open("send")
    BY OpenExact
  <1> QED
    BY <1>7, <1>12, <1>13, <1>14 DEF AbstractChannel!Take

\* Nobody waits on the other side: the ring alone changes.
LEMMA QueueNoWaiter ==
    ASSUME QueueInv, IInv', kern' = kern, UNCHANGED xfer, NEW W, CallsKeptBut(W),
           RingExact(queue'), last' \in LastType,
           \A t \in Task : kern.wait_list[t] = receivers => queue'.count = 0,
           \A t \in Task : kern.wait_list[t] = senders => queue'.count = capacity
    PROVE  QueueInv' /\ Waiting' = Waiting
  <1>1. \A v \in Task : kern.wait_list[v] # NoList => call'[v] = call[v]
    BY DEF QueueInv, WaitersQueued, CallsKeptBut
  <1>2. WaitersQueued' /\ ListsSorted' /\ BuffersReturned'
    BY <1>1 DEF QueueInv, WaitersQueued, ListsSorted, BuffersReturned, CallsKeptBut
  <1>3. QueueInv'
    BY <1>2, QueueKept DEF QueueInv
  <1>4. \A v \in Task \ {} : Waiting'[v] = Waiting[v]
    BY OthersWait
  <1>5. Waiting' = [v \in Task |-> Waiting'[v]] /\ Waiting = [v \in Task |-> Waiting[v]]
    BY DEF Waiting
  <1> QED
    BY <1>3, <1>4, <1>5

\* A send puts its item into the ring.
LEMMA SendToRing ==
    ASSUME QueueInv, IInv', NEW x \in Item, peek_waiter(kern, receivers) = NoTask,
           queue.count < capacity, queue' = push_raw(queue, x),
           kern' = kern, UNCHANGED xfer, Reports("send", x, TRUE), NEW W, CallsKeptBut(W)
    PROVE  QueueInv' /\ AbstractChannel!Put(x)
  <1>1. /\ RingExact(queue') /\ queue'.count = queue.count + 1
        /\ Ring(queue') = Append(Ring(queue), x)
    BY PushRaw DEF QueueInv
  <1>2. AbstractChannel!Open("receive") = {}
        /\ \A t \in Task : kern.wait_list[t] # receivers
    BY OpenExact
  <1>3. \A t \in Task : kern.wait_list[t] # senders
    BY QueueBasics
  <1>4. QueueInv' /\ Waiting' = Waiting
    BY <1>1, <1>2, <1>3, ReportsType, QueueNoWaiter DEF QueueInv
  <1>5. Contents' = Append(Contents, x) /\ Len(Contents) < capacity
    <2>1. Contents = Ring(queue) /\ Contents' = Ring(queue')
      BY DEF Contents, Ring
    <2>2. Len(Ring(queue)) = queue.count
      BY RingByPlace DEF QueueInv, RingExact
    <2> QED
      BY <1>1, <2>1, <2>2
  <1> QED
    BY <1>2, <1>4, <1>5, ReportsEnds DEF AbstractChannel!Put

\* A receive takes the oldest item of the ring, and nobody waits for the room.
LEMMA ReceiveFromRing ==
    ASSUME QueueInv, IInv', peek_waiter(kern, senders) = NoTask,
           queue.count > 0, queue' = pop_raw(queue),
           Reports("receive", queue.storage[queue.head], TRUE), kern' = kern, UNCHANGED xfer, NEW W, CallsKeptBut(W)
    PROVE  QueueInv' /\ AbstractChannel!Take
  <1>1. /\ RingExact(queue') /\ queue'.count = queue.count - 1
        /\ Ring(queue) # <<>>
        /\ queue.storage[queue.head] = Head(Ring(queue))
        /\ Ring(queue') = Tail(Ring(queue))
    BY PopRaw DEF QueueInv
  <1>2. AbstractChannel!Open("send") = {}
        /\ \A t \in Task : kern.wait_list[t] # senders
    BY OpenExact
  <1>3. \A t \in Task : kern.wait_list[t] # receivers
    BY QueueBasics
  <1>4. last' \in LastType
    <2>1. queue.storage[queue.head] \in Item \cup {NoItem}
      BY RingFields DEF QueueInv, RingExact
    <2> QED
      BY <2>1, ReportsType
  <1>5. QueueInv' /\ Waiting' = Waiting
    BY <1>1, <1>2, <1>3, <1>4, QueueNoWaiter DEF QueueInv
  <1>6. Contents = Ring(queue) /\ Contents' = Ring(queue')
    BY DEF Contents, Ring
  <1> QED
    BY <1>1, <1>2, <1>5, <1>6, ReportsEnds DEF AbstractChannel!Take
----------------------------------------------------------------------------
(* The calls *)

\* What the critical section of a send or receive does to the kernel, seen from
\* wait list l: the first waiter, if there is one, becomes ready.
WakesFirst(l) ==
    kern' = IF peek_waiter(kern, l) = NoTask THEN kern
            ELSE make_task_ready(wake_highest(kern, l), peek_waiter(kern, l))

\* The waiter that is woken is not among the tasks in W, whose call goes on.
WokenOutside(l, W) ==
    LET u == peek_waiter(kern, l) IN
    u # NoTask => /\ u \in Task /\ u \notin W
                  /\ kern.wait_list[u] = l
                  /\ WokenFirst(kern, kern', u)

\* A task wakes the first waiter of l and yields to it if it should.
LEMMA ThreadWakes ==
    ASSUME QueueInv, NEW t \in Task \ {Idle}, Thread(t), call[t] = NoCall,
           NEW l \in Lists, WakesFirst(l), NEW op \in {"sent", "received"},
           Leave(t, op, NoTask, should_yield(l)),
           UNCHANGED <<current_task, started, pendsv, tick_count, panic>>
    PROVE  IInv' /\ CallsKeptBut({t}) /\ WokenOutside(l, {t})
  <1> DEFINE u == peek_waiter(kern, l)
  <1>1. /\ op \in WakingApi /\ "send" \in WaitingApi /\ "receive" \in WaitingApi
        /\ call[t].op = "none"
    BY DEF WakingApi, WaitingApi, NoCall
  <1>2. /\ kern.state[t] = "Running"
        /\ \A v \in Task : kern.state[v] = "Ready" => kern.priority[v] <= kern.priority[t]
    BY Basics, RunningThread DEF QueueInv
  <1>3. WokenOutside(l, {t}) /\ (u # NoTask => kern.state[u] = "Blocked")
    <2>1. CASE u # NoTask
      <3>1. /\ u \in Task /\ kern.state[u] = "Blocked" /\ kern.wait_list[u] = l
            /\ WokenFirst(kern, make_task_ready(wake_highest(kern, l), u), u)
        BY <2>1, QueueBasics, WakeFirst
      <3>2. kern' = make_task_ready(wake_highest(kern, l), u) /\ u # t
        BY <1>2, <2>1, <3>1 DEF WakesFirst
      <3> QED
        BY <3>1, <3>2 DEF WokenOutside
    <2>2. CASE u = NoTask
      BY <2>2 DEF WokenOutside
    <2> QED
      BY <2>1, <2>2
  <1>4. /\ IInv'
        /\ \A v \in Task \ {t} : call'[v] = call[v]
        /\ call'[t].op \notin WaitingApi
    <2>1. CASE u # NoTask
      <3>1. Leave(t, op, NoTask, preempts(u))
        BY <2>1 DEF Leave, should_yield
      <3>2. u \in Task /\ kern.state[u] = "Blocked" /\ WokenFirst(kern, kern', u)
        BY <1>3, <2>1 DEF WokenOutside
      <3> HIDE DEF u
      <3> QED
        BY <1>1, <3>1, <3>2, WakeStep DEF QueueInv
    <2>2. CASE u = NoTask
      <3>1. Leave(t, op, NoTask, FALSE) /\ kern' = kern
        BY <2>2 DEF Leave, should_yield, WakesFirst
      <3>2. Woken(kern, kern') /\ kern' \in KernelType /\ Consistent(kern', {})
        BY <3>1, QueueBasics DEF Woken
      <3>3. \A v \in Task : kern'.state[v] = "Ready" => kern'.priority[v] <= kern'.priority[t]
        BY <1>2, <3>1
      <3> HIDE DEF u
      <3> QED
        BY <1>1, <3>1, <3>2, <3>3, LeaveStep DEF QueueInv
    <2> QED
      BY <2>1, <2>2
  <1>5. CallsKeptBut({t})
    BY <1>1, <1>4 DEF CallsKeptBut
  <1> QED
    BY <1>3, <1>4, <1>5

\* An interrupt handler does, and pends the switch.
LEMMA HandlerWakes ==
    ASSUME QueueInv, NEW l \in Lists, WakesFirst(l),
           pendsv' = (pendsv \/ should_yield(l)),
           UNCHANGED <<current_task, started, tick_count, call, panic>>
    PROVE  IInv' /\ CallsKeptBut({}) /\ WokenOutside(l, {})
  <1> DEFINE u == peek_waiter(kern, l)
  <1>1. CallsKeptBut({})
    BY DEF CallsKeptBut
  <1>2. CASE u # NoTask
    <2>1. /\ u \in Task /\ kern.state[u] = "Blocked" /\ kern.wait_list[u] = l
          /\ WokenFirst(kern, make_task_ready(wake_highest(kern, l), u), u)
      BY <1>2, QueueBasics, WakeFirst
    <2>2. /\ kern' = make_task_ready(wake_highest(kern, l), u)
          /\ pendsv' = (pendsv \/ preempts(u))
      BY <1>2 DEF WakesFirst, should_yield
    <2>3. WokenOutside(l, {}) /\ WokenFirst(kern, kern', u)
      BY <2>1, <2>2 DEF WokenOutside
    <2> HIDE DEF u
    <2>4. IInv'
      BY <2>1, <2>2, <2>3, IsrWakeStep DEF QueueInv
    <2> QED
      BY <1>1, <2>3, <2>4
  <1>3. CASE u = NoTask
    <2>1. kern' = kern /\ pendsv' = pendsv
      BY <1>3 DEF WakesFirst, should_yield, QueueInv, IInv, TypeOK
    <2>2. IInv'
      BY <2>1, SameScheduler DEF QueueInv, svars
    <2> QED
      BY <1>1, <1>3, <2>2 DEF WokenOutside
  <1> QED
    BY <1>2, <1>3

\* The critical section of every send puts an item into the channel.
LEMMA SendLocked ==
    ASSUME QueueInv, IInv', NEW x \in Item, try_send_locked(x),
           NEW W, CallsKeptBut(W), WokenOutside(receivers, W)
    PROVE  QueueInv' /\ AbstractChannel!Put(x)
  <1> DEFINE u == peek_waiter(kern, receivers)
  <1>1. CASE u # NoTask
    <2>1. /\ u \in Task /\ u \notin W /\ kern.wait_list[u] = receivers
          /\ WokenFirst(kern, kern', u)
      BY <1>1 DEF WokenOutside
    <2>2. /\ xfer' = [xfer EXCEPT ![u] = x] /\ UNCHANGED queue
          /\ Reports("send", x, TRUE)
      BY <1>1 DEF try_send_locked
    <2> HIDE DEF u
    <2> QED
      BY <2>1, <2>2, HandToReceiver
  <1>2. CASE u = NoTask
    <2>1. /\ queue.count < capacity /\ queue' = push_raw(queue, x)
          /\ kern' = kern /\ UNCHANGED xfer /\ Reports("send", x, TRUE)
      BY <1>2 DEF try_send_locked
    <2> QED
      BY <1>2, <2>1, SendToRing
  <1> QED
    BY <1>1, <1>2

\* The critical section of every receive takes one out.
LEMMA ReceiveLocked ==
    ASSUME QueueInv, IInv', try_receive_locked,
           NEW W, CallsKeptBut(W), WokenOutside(senders, W)
    PROVE  QueueInv' /\ AbstractChannel!Take
  <1> DEFINE u == peek_waiter(kern, senders)
  <1>1. /\ queue.count > 0 /\ UNCHANGED xfer
        /\ Reports("receive", queue.storage[queue.head], TRUE)
    BY DEF try_receive_locked
  <1>2. CASE u # NoTask
    <2>1. /\ u \in Task /\ u \notin W /\ kern.wait_list[u] = senders
          /\ WokenFirst(kern, kern', u)
      BY <1>2 DEF WokenOutside
    <2>2. queue' = push_raw(pop_raw(queue), xfer[u])
      BY <1>2 DEF try_receive_locked
    <2> HIDE DEF u
    <2> QED
      BY <1>1, <2>1, <2>2, TakeFromSender
  <1>3. CASE u = NoTask
    <2>1. queue' = pop_raw(queue) /\ kern' = kern
      BY <1>3 DEF try_receive_locked
    <2> QED
      BY <1>1, <1>3, <2>1, ReceiveFromRing
  <1> QED
    BY <1>2, <1>3

\* The assert of try_send_locked never fails.
LEMMA NoHandOverFails ==
    ASSUME QueueInv
    PROVE  ~HandOverFails
  <1>1. peek_waiter(kern, receivers) # NoTask => kern.wait_lists[receivers] # <<>>
    BY QueueBasics, PeekWaiter
  <1> QED
    BY <1>1 DEF QueueInv, NobodyWaitsInVain, HandOverFails

LEMMA SendStep ==
    ASSUME QueueInv, NEW t \in Task, NEW x \in Item, send(t, x)
    PROVE  QueueInv' /\ AbstractChannel!Put(x)
  <1>1. /\ t \in Task \ {Idle} /\ Thread(t) /\ call[t] = NoCall
        /\ try_send_locked(x)
        /\ Leave(t, "sent", NoTask, should_yield(receivers))
        /\ UNCHANGED <<current_task, started, pendsv, tick_count, panic>>
    BY NoHandOverFails DEF send, Calls
  <1>2. WakesFirst(receivers) /\ receivers \in Lists
    BY <1>1, QueueBasics DEF try_send_locked, WakesFirst
  <1>3. IInv' /\ CallsKeptBut({t}) /\ WokenOutside(receivers, {t})
    BY <1>1, <1>2, ThreadWakes
  <1> QED
    BY <1>1, <1>3, SendLocked

LEMMA SendFromIsrStep ==
    ASSUME QueueInv, NEW x \in Item, send_from_isr(x)
    PROVE  QueueInv' /\ AbstractChannel!Put(x)
  <1>1. /\ try_send_locked(x)
        /\ pendsv' = (pendsv \/ should_yield(receivers))
        /\ UNCHANGED <<current_task, started, tick_count, call, panic>>
    BY NoHandOverFails DEF send_from_isr
  <1>2. WakesFirst(receivers) /\ receivers \in Lists
    BY <1>1, QueueBasics DEF try_send_locked, WakesFirst
  <1>3. IInv' /\ CallsKeptBut({}) /\ WokenOutside(receivers, {})
    BY <1>1, <1>2, HandlerWakes
  <1> QED
    BY <1>1, <1>3, SendLocked

LEMMA ReceiveStep ==
    ASSUME QueueInv, NEW t \in Task, receive(t)
    PROVE  QueueInv' /\ AbstractChannel!Take
  <1>1. /\ t \in Task \ {Idle} /\ Thread(t) /\ call[t] = NoCall
        /\ try_receive_locked
        /\ Leave(t, "received", NoTask, should_yield(senders))
        /\ UNCHANGED <<current_task, started, pendsv, tick_count, panic>>
    BY DEF receive, Calls
  <1>2. WakesFirst(senders) /\ senders \in Lists
    BY <1>1, QueueBasics DEF try_receive_locked, WakesFirst
  <1>3. IInv' /\ CallsKeptBut({t}) /\ WokenOutside(senders, {t})
    BY <1>1, <1>2, ThreadWakes
  <1> QED
    BY <1>1, <1>3, ReceiveLocked

LEMMA ReceiveFromIsrStep ==
    ASSUME QueueInv, receive_from_isr
    PROVE  QueueInv' /\ AbstractChannel!Take
  <1>1. /\ try_receive_locked
        /\ pendsv' = (pendsv \/ should_yield(senders))
        /\ UNCHANGED <<current_task, started, tick_count, call, panic>>
    BY DEF receive_from_isr
  <1>2. WakesFirst(senders) /\ senders \in Lists
    BY <1>1, QueueBasics DEF try_receive_locked, WakesFirst
  <1>3. IInv' /\ CallsKeptBut({}) /\ WokenOutside(senders, {})
    BY <1>1, <1>2, HandlerWakes
  <1> QED
    BY <1>1, <1>3, ReceiveLocked

\* A call begins to wait on list l with item x in its buffer.
LEMMA BeginStep ==
    ASSUME QueueInv, NEW t \in Task, t # Idle, Thread(t), call[t] = NoCall,
           NEW ms \in Timeouts, NEW x \in Item \cup {NoItem}, NEW op, NEW l,
           \/ op = "send" /\ l = senders /\ queue.count = capacity /\ x \in Item
           \/ op = "receive" /\ l = receivers /\ queue.count = 0 /\ x = NoItem,
           wait_on(t, op, l, ms), xfer' = [xfer EXCEPT ![t] = x],
           UNCHANGED <<queue, last>>
    PROVE  QueueInv' /\ AbstractChannel!Begin(t, op, x)
  <1>1. /\ op \in WaitingApi /\ l \in Lists /\ l # NoList /\ call[t].op = "none"
        /\ op \in {"send", "receive"}
    BY QueueBasics DEF WaitingApi, NoCall
  <1>2. /\ IInv'
        /\ \A v \in Task \ {t} : call'[v] = call[v]
        /\ call'[t].op = op
        /\ Parked(kern, kern', t, l)
    BY <1>1, WaitOn DEF QueueInv
  <1>3. /\ \A v \in Task : kern'.wait_list[v] = IF v = t THEN l ELSE kern.wait_list[v]
        /\ \A v \in Task \ {t} : kern'.timeout_expired[v] = kern.timeout_expired[v]
        /\ ~kern'.timeout_expired[t]
    BY <1>2, ParkedWaits, QueueBasics
  <1>4. /\ xfer' \in [Task -> Item \cup {NoItem}]
        /\ xfer'[t] = x
        /\ \A v \in Task \ {t} : xfer'[v] = xfer[v]
    BY DEF QueueInv
  <1>5. WaitersQueued'
    <2> SUFFICES ASSUME NEW v \in Task, kern'.wait_list[v] # NoList
                 PROVE  /\ ~kern'.timeout_expired[v]
                        /\ \/ kern'.wait_list[v] = senders /\ call'[v].op = "send"
                           \/ kern'.wait_list[v] = receivers /\ call'[v].op = "receive"
      BY DEF WaitersQueued
    <2>1. CASE v = t
      BY <1>2, <1>3, <2>1
    <2>2. CASE v # t
      BY <1>2, <1>3, <2>2 DEF QueueInv, WaitersQueued
    <2> QED
      BY <2>1, <2>2
  <1>6. ListsSorted'
    BY <1>2, QueueBasics DEF Parked, Sorted, ListsSorted
  <1>7. /\ \A v \in Task : kern'.wait_list[v] = receivers => queue.count = 0
        /\ \A v \in Task : kern'.wait_list[v] = senders => queue.count = capacity
    BY <1>3, QueueBasics
  <1>8. QueueInv'
    <2>1. BuffersReturned'
      BY <1>1, <1>2, <1>4 DEF QueueInv, BuffersReturned
    <2> QED
      BY <1>2, <1>4, <1>5, <1>6, <1>7, <2>1, QueueKept DEF QueueInv
  <1>9. Waiting[t] = [op |-> "none", item |-> NoItem, result |-> "open"]
    BY <1>1 DEF Waiting, QueueInv, BuffersReturned
  <1>10. Waiting'[t] = [op |-> op, item |-> x, result |-> "open"]
    BY <1>1, <1>2, <1>3, <1>4 DEF Waiting
  <1>11. \A v \in Task \ {t} : Waiting'[v] = Waiting[v]
    BY <1>2, <1>3, <1>4 DEF Waiting
  <1>12. Waiting' = [Waiting EXCEPT ![t] = [op |-> op, item |-> x, result |-> "open"]]
    <2>1. Waiting' = [v \in Task |-> Waiting'[v]] /\ Waiting = [v \in Task |-> Waiting[v]]
      BY DEF Waiting
    <2> QED
      BY <1>10, <1>11, <2>1
  <1>13. /\ Contents' = Contents /\ Len(Contents) = queue.count
         /\ queue.count = 0 => Contents = <<>>
    <2>1. Contents = Ring(queue) /\ Contents' = Contents
      BY DEF Contents, Ring
    <2>2. Ring(queue) \in Seq(Item \cup {NoItem}) /\ Len(Ring(queue)) = queue.count
      BY RingByPlace DEF QueueInv, RingExact
    <2> QED
      BY <2>1, <2>2
  <1> QED
    BY <1>8, <1>9, <1>12, <1>13 DEF AbstractChannel!Begin, AbstractChannel!NoWait

\* A call returns: its wait is over, with a result.
LEMMA FinishStep ==
    ASSUME QueueInv, NEW t \in Task, finish_call(t)
    PROVE  QueueInv' /\ AbstractChannel!Finish(t)
  <1>1. /\ Thread(t) /\ call[t].op \in {"send", "receive"} /\ call[t].at = "ret" /\ Return(t)
        /\ UNCHANGED <<kern, current_task, started, pendsv, tick_count, panic>>
        /\ UNCHANGED <<queue, last>>
        /\ xfer' = [xfer EXCEPT ![t] = NoItem]
    BY DEF finish_call, Inside
  <1>2. t \in Task \ {Idle}
    BY <1>1 DEF QueueInv, IInv, IdleReady, NoCall
  <1>3. IInv'
    BY <1>1, <1>2, ReturnStep DEF QueueInv
  <1>4. kern.state[t] = "Running" /\ kern.wait_list[t] = NoList
    BY <1>1, RunningThread, QueueBasics DEF QueueInv
  <1>5. (\A v \in Task : call'[v] = IF v = t THEN NoCall ELSE call[v]) /\ NoCall.op = "none"
    BY <1>1, Basics DEF QueueInv, Return, NoCall
  <1>6. /\ xfer' \in [Task -> Item \cup {NoItem}] /\ xfer'[t] = NoItem
        /\ \A v \in Task \ {t} : xfer'[v] = xfer[v]
    BY <1>1 DEF QueueInv
  <1>7. WaitersQueued' /\ ListsSorted'
    BY <1>1, <1>4, <1>5 DEF QueueInv, WaitersQueued, ListsSorted
  <1>8. QueueInv'
    <2>1. BuffersReturned'
      BY <1>5, <1>6 DEF QueueInv, BuffersReturned
    <2> QED
      BY <1>1, <1>3, <1>6, <1>7, <2>1, QueueBasics, QueueKept DEF QueueInv
  <1>9. Waiting[t].result # "open"
    BY <1>1, <1>4 DEF Waiting
  <1>10. Waiting'[t] = [op |-> "none", item |-> NoItem, result |-> "open"]
    BY <1>5, <1>6 DEF Waiting
  <1>11. \A v \in Task \ {t} : Waiting'[v] = Waiting[v]
    BY <1>1, <1>5, <1>6 DEF Waiting
  <1>12. Waiting' = [Waiting EXCEPT ![t] = [op |-> "none", item |-> NoItem, result |-> "open"]]
    <2>1. Waiting' = [v \in Task |-> Waiting'[v]] /\ Waiting = [v \in Task |-> Waiting[v]]
      BY DEF Waiting
    <2> QED
      BY <1>10, <1>11, <2>1
  <1>13. Contents' = Contents
    BY <1>1 DEF Contents
  <1> QED
    BY <1>1, <1>8, <1>9, <1>12, <1>13 DEF AbstractChannel!Finish, AbstractChannel!NoWait

\* A call that is refused changes nothing but what its caller knows.
LEMMA RefuseStep ==
    ASSUME QueueInv, UNCHANGED <<svars, queue, xfer>>,
           \/ Full /\ \E x \in Item : Reports("send", x, FALSE)
           \/ Empty /\ Reports("receive", NoItem, FALSE)
    PROVE  QueueInv' /\ AbstractChannel!Refuse
  <1>1. IInv'
    BY SameScheduler DEF QueueInv
  <1>2. last' \in LastType
    BY ReportsType
  <1>3. kern' = kern /\ call' = call /\ RingExact(queue')
    BY DEF svars, QueueInv
  <1>4. CallsKeptBut({})
    BY <1>3 DEF CallsKeptBut
  <1>5. QueueInv' /\ Waiting' = Waiting
    BY <1>1, <1>2, <1>3, <1>4, QueueBasics, QueueNoWaiter
  <1>6. /\ Contents' = Contents /\ Len(Contents) = queue.count
        /\ queue.count = 0 => Contents = <<>>
    <2>1. Contents = Ring(queue) /\ Contents' = Contents
      BY DEF Contents, Ring
    <2>2. Ring(queue) \in Seq(Item \cup {NoItem}) /\ Len(Ring(queue)) = queue.count
      BY RingByPlace DEF QueueInv, RingExact
    <2> QED
      BY <2>1, <2>2
  <1>7. \/ Len(Contents) = capacity /\ \E x \in Item : AbstractChannel!Ends("send", x, FALSE)
        \/ Contents = <<>> /\ AbstractChannel!Ends("receive", NoItem, FALSE)
    BY <1>6, ReportsEnds DEF Full, Empty
  <1> QED
    BY <1>5, <1>6, <1>7 DEF AbstractChannel!Refuse

LEMMA QueueInitInv == QueueInit => QueueInv /\ AbstractChannel!ChannelInit
  <1> SUFFICES ASSUME QueueInit PROVE QueueInv /\ AbstractChannel!ChannelInit
    OBVIOUS
  <1>1. IInv /\ ListsSorted
    BY InitInv, InitSorted DEF QueueInit
  <1>2. /\ \A t \in Task : call[t].op = "none" /\ kern.wait_list[t] = NoList
        /\ \A l \in Lists : kern.wait_lists[l] = <<>>
    BY DEF QueueInit, SchedInit, NoCall, EmptyKernel
  <1>3. capacity \in Nat /\ capacity > 0
    BY QueueAssumption
  <1>4. queue \in QueueType /\ queue.head = 0 /\ queue.tail = 0 /\ queue.count = 0
    BY <1>3 DEF QueueInit, QueueType
  <1>5. RingExact(queue)
    BY <1>3, <1>4 DEF RingExact, Place
  <1>6. WaitersQueued /\ NobodyWaitsInVain /\ BuffersReturned
    BY <1>2, QueueAssumption DEF WaitersQueued, NobodyWaitsInVain, BuffersReturned, QueueInit
  <1>7. QueueInv
    BY <1>1, <1>5, <1>6 DEF QueueInv, QueueInit, LastType
  <1>8. Contents = <<>>
    <2>1. Contents = Ring(queue)
      BY DEF Contents, Ring
    <2>2. Ring(queue) \in Seq(Item \cup {NoItem}) /\ Len(Ring(queue)) = 0
      BY <1>4, RingByPlace
    <2> QED
      BY <2>1, <2>2
  <1>9. Waiting = [t \in Task |-> [op |-> "none", item |-> NoItem, result |-> "open"]]
    BY <1>2 DEF Waiting, QueueInit
  <1> QED
    BY <1>7, <1>8, <1>9 DEF QueueInit, AbstractChannel!ChannelInit, AbstractChannel!NoWait

\* Every step keeps the invariant and is a step of the channel.
LEMMA QueueNextInv ==
    QueueInv /\ [QueueNext]_qvars =>
        QueueInv' /\ [AbstractChannel!ChannelNext]_<<Contents, Waiting, last>>
  <1> SUFFICES ASSUME QueueInv, [QueueNext]_qvars
               PROVE  QueueInv' /\ AbstractChannel!ChannelNext
    OBVIOUS
  <1> USE DEF AbstractChannel!ChannelNext
  <1>1. CASE SchedNext /\ UNCHANGED <<queue, xfer, last>>
    BY <1>1, QueueSchedStep
  <1>2. CASE receive_from_isr
    BY <1>2, ReceiveFromIsrStep
  <1>3. ASSUME NEW x \in Item, send_from_isr(x)
        PROVE  QueueInv' /\ AbstractChannel!ChannelNext
    BY <1>3, SendFromIsrStep
  <1>4. ASSUME NEW t \in Task, receive(t)
        PROVE  QueueInv' /\ AbstractChannel!ChannelNext
    BY <1>4, ReceiveStep
  <1>5. ASSUME NEW t \in Task, finish_call(t)
        PROVE  QueueInv' /\ AbstractChannel!ChannelNext
    BY <1>5, FinishStep
  <1>6. ASSUME NEW t \in Task, NEW x \in Item, send(t, x)
        PROVE  QueueInv' /\ AbstractChannel!ChannelNext
    BY <1>6, SendStep
  <1>7. ASSUME NEW t \in Task, NEW ms \in Timeouts, receive_block(t, ms)
        PROVE  QueueInv' /\ AbstractChannel!ChannelNext
    <2>1. NoItem \in Item \cup {NoItem}
      OBVIOUS
    <2>2. QueueInv' /\ AbstractChannel!Begin(t, "receive", NoItem)
      BY <1>7, <2>1, BeginStep DEF receive_block, Calls, Empty
    <2> QED
      BY <2>1, <2>2
  <1>8. ASSUME NEW t \in Task, NEW ms \in Timeouts, NEW x \in Item, send_block(t, x, ms)
        PROVE  QueueInv' /\ AbstractChannel!ChannelNext
    <2>1. x \in Item \cup {NoItem}
      OBVIOUS
    <2>2. QueueInv' /\ AbstractChannel!Begin(t, "send", x)
      BY <1>8, <2>1, BeginStep DEF send_block, Calls, Full
    <2> QED
      BY <2>1, <2>2
  <1>9. CASE UNCHANGED qvars
    BY <1>9, QueueSchedStep DEF qvars
  <1>10. ASSUME NEW x \in Item,
                send_from_isr_refused(x) \/ \E t \in Task : send_refused(t, x)
         PROVE  QueueInv' /\ AbstractChannel!ChannelNext
    <2>1. /\ UNCHANGED <<svars, queue, xfer>>
          /\ Full /\ Reports("send", x, FALSE)
      BY <1>10 DEF send_from_isr_refused, send_refused
    <2> QED
      BY <2>1, RefuseStep
  <1>11. CASE receive_from_isr_refused \/ \E t \in Task : receive_refused(t)
    <2>1. /\ UNCHANGED <<svars, queue, xfer>>
          /\ Empty /\ Reports("receive", NoItem, FALSE)
      BY <1>11 DEF receive_from_isr_refused, receive_refused
    <2> QED
      BY <2>1, RefuseStep
  <1> QED
    BY <1>1, <1>2, <1>3, <1>4, <1>5, <1>6, <1>7, <1>8, <1>9, <1>10, <1>11 DEF QueueNext

----------------------------------------------------------------------------
(* The theorems *)

\* The inductive invariant holds in every reachable state: the tail of the ring
\* is where its items end, a task on a wait list is in the call that waits there,
\* and it waits for a reason.
THEOREM QueueInvariant == QueueSpec => []QueueInv
  BY QueueInitInv, QueueNextInv, PTL DEF QueueSpec

\* head_, tail_ and count_ stay inside the storage, for every capacity.
THEOREM QueueTypes == QueueSpec => []QueueTypeOK
  <1>1. QueueInv => QueueTypeOK
    BY DEF QueueInv, IInv, QueueTypeOK, RingExact, QueueType, LastType
  <1> QED
    BY <1>1, QueueInvariant, PTL

\* No wake-up is lost: a receiver waits only while the queue is empty, a sender
\* only while it is full.
THEOREM QueueNoLostWakeup == QueueSpec => []NobodyWaitsInVain
  <1>1. QueueInv => NobodyWaitsInVain
    BY DEF QueueInv
  <1> QED
    BY <1>1, QueueInvariant, PTL

\* The scheduler keeps its guarantees under a queue, and its assert that no
\* receiver waits beside items never fails.
THEOREM QueueScheduler ==
    QueueSpec => [](ListsConsistent /\ ListsSorted /\ NoLostPreemption /\ KernelAssertsHold)
  <1>1. QueueInv => ListsConsistent /\ ListsSorted /\ NoLostPreemption /\ KernelAssertsHold
    BY DEF QueueInv, IInv
  <1> QED
    BY <1>1, QueueInvariant, PTL

\* The queue implements the FIFO channel of module Channel: with Contents for its
\* items, Waiting for its waiting calls and last for the call that did not wait,
\* every step is a step of the channel or a stutter.  The item and the result of
\* every call show, so a send that reports success put in its own item.
THEOREM QueueRefinesChannel == QueueSpec => ImplementsChannel
  <1>1. QueueInit => AbstractChannel!ChannelInit
    BY QueueInitInv
  <1>2. QueueInv /\ [QueueNext]_qvars => [AbstractChannel!ChannelNext]_<<Contents, Waiting, last>>
    BY QueueNextInv
  <1> QED
    BY <1>1, <1>2, QueueInvariant, PTL
    DEF QueueSpec, ImplementsChannel, AbstractChannel!ChannelSpec
=============================================================================
