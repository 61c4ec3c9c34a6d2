------------------------------- MODULE Queue -------------------------------
(***************************************************************************)
(* One QueueCore (src/src/queue.cpp) used by tasks and interrupt handlers, *)
(* on top of Scheduler: a ring buffer, and two wait lists whose tasks are  *)
(* handed their item, or have it taken from them, by the side that wakes   *)
(* them.                                                                   *)
(***************************************************************************)
EXTENDS Scheduler

CONSTANTS
    senders, receivers,  \* the two wait lists
    Item, NoItem,        \* what is sent; the content of an unwritten buffer
    capacity             \* capacity_

ASSUME QueueAssumption ==
    /\ {senders, receivers} \subseteq Lists /\ senders # receivers
    /\ NoItem \notin Item
    /\ capacity \in Nat \ {0}

VARIABLES
    queue,   \* storage_, head_, tail_, count_
    xfer,    \* per task, the buffer xfer_ptr points at while its call waits
    last     \* the last call that did not wait: op, item, result, its parity

qvars == <<svars, queue, xfer, last>>

QueueTypeOK ==
    /\ TypeOK
    /\ queue \in [storage : [0..(capacity - 1) -> Item \cup {NoItem}],
                  head    : 0..(capacity - 1),
                  tail    : 0..(capacity - 1),
                  count   : 0..capacity]
    /\ xfer \in [Task -> Item \cup {NoItem}]
    /\ last \in [op   : {"none", "send", "receive"},
                 item : Item \cup {NoItem}, ok : BOOLEAN, turn : 0..1]

QueueInit ==
    /\ SchedInit
    /\ queue = [storage |-> [i \in 0..(capacity - 1) |-> NoItem],
                head |-> 0, tail |-> 0, count |-> 0]
    /\ xfer = [t \in Task |-> NoItem]
    /\ last = [op |-> "none", item |-> NoItem, ok |-> TRUE, turn |-> 0]

----------------------------------------------------------------------------
(* The critical sections *)

\* Mutant of advance: the index does not wrap.
advance_no_wrap(i) == i + 1

\* The index after i in the ring.
advance(i) == IF i + 1 = capacity THEN 0 ELSE i + 1

\* Mutant of push_raw: the item is not counted, and is lost.
push_raw_uncounted(q, x) ==
    [q EXCEPT !.storage[q.tail] = x, !.tail = advance(@)]

push_raw(q, x) ==
    [q EXCEPT !.storage[q.tail] = x, !.tail = advance(@), !.count = @ + 1]

pop_raw(q) == [q EXCEPT !.head = advance(@), !.count = @ - 1]

\* The call in progress will report ok for item x: what its caller knows.
Reports(op, x, ok) ==
    last' = [op |-> op, item |-> x, ok |-> ok, turn |-> 1 - last.turn]

\* Mutant of try_send_locked: room in the ring is looked at first.
try_send_ring_first(x) ==
    /\ queue.count < capacity
    /\ queue' = push_raw(queue, x)
    /\ Reports("send", x, TRUE)
    /\ UNCHANGED <<kern, xfer>>

\* The first receiver that waits gets the item, else it goes into the ring:
\* the function returns true.
try_send_locked(x) ==
    LET u == peek_waiter(kern, receivers) IN
    /\ Reports("send", x, TRUE)
    /\ IF u # NoTask
       THEN /\ xfer' = [xfer EXCEPT ![u] = x]
            /\ kern' = make_task_ready(wake_highest(kern, receivers), u)
            /\ UNCHANGED queue
       ELSE /\ queue.count < capacity
            /\ queue' = push_raw(queue, x)
            /\ UNCHANGED <<kern, xfer>>

\* When try_send_locked returns false.
Full == peek_waiter(kern, receivers) = NoTask /\ queue.count = capacity

\* The assert of try_send_locked: a receiver waits although there are items.
HandOverFails == peek_waiter(kern, receivers) # NoTask /\ queue.count # 0

\* Mutant of try_receive_locked: no sender is woken.
try_receive_no_wake ==
    /\ queue.count > 0
    /\ Reports("receive", queue.storage[queue.head], TRUE)
    /\ queue' = pop_raw(queue)
    /\ UNCHANGED <<kern, xfer>>

\* The oldest item leaves the ring; the item of the first sender that waits
\* takes its place: the function returns true.
try_receive_locked ==
    LET u == peek_waiter(kern, senders) IN
    /\ queue.count > 0
    /\ Reports("receive", queue.storage[queue.head], TRUE)
    /\ IF u = NoTask
       THEN queue' = pop_raw(queue) /\ UNCHANGED kern
       ELSE /\ queue' = push_raw(pop_raw(queue), xfer[u])
            /\ kern' = make_task_ready(wake_highest(kern, senders), u)
    /\ UNCHANGED xfer

\* When try_receive_locked returns false.
Empty == queue.count = 0

\* should_yield: the first task of wait list l was woken and should run now.
should_yield(l) == LET u == peek_waiter(kern, l) IN u # NoTask /\ preempts(u)

----------------------------------------------------------------------------
(* Calls *)

\* QueueCore::send when it need not wait; any timeout.
send(t, x) ==
    /\ Calls(t, "send")
    /\ IF HandOverFails
       THEN AssertFails("receiver beside items") /\ UNCHANGED <<queue, xfer, last>>
       ELSE /\ try_send_locked(x)
            /\ Leave(t, "sent", NoTask, should_yield(receivers))
            /\ UNCHANGED <<current_task, started, pendsv, tick_count, panic>>

\* QueueCore::send into a full queue: block_current_locked.
send_block(t, x, ms) ==
    /\ Calls(t, "send")
    /\ Full
    /\ wait_on(t, "send", senders, ms)
    /\ xfer' = [xfer EXCEPT ![t] = x]
    /\ UNCHANGED <<queue, last>>

\* QueueCore::send with timeout 0 into a full queue.
send_refused(t, x) ==
    /\ Calls(t, "send") /\ Full
    /\ Reports("send", x, FALSE)
    /\ UNCHANGED <<svars, queue, xfer>>

receive(t) ==
    /\ Calls(t, "receive")
    /\ try_receive_locked
    /\ Leave(t, "received", NoTask, should_yield(senders))
    /\ UNCHANGED <<current_task, started, pendsv, tick_count, panic>>

receive_block(t, ms) ==
    /\ Calls(t, "receive")
    /\ Empty
    /\ wait_on(t, "receive", receivers, ms)
    /\ xfer' = [xfer EXCEPT ![t] = NoItem]
    /\ UNCHANGED <<queue, last>>

receive_refused(t) ==
    /\ Calls(t, "receive") /\ Empty
    /\ Reports("receive", NoItem, FALSE)
    /\ UNCHANGED <<svars, queue, xfer>>

\* The end of finish_call: the result is ~timeout_expired, and the buffer of
\* the call is the caller's again.
finish_call(t) ==
    /\ Inside(t, "send", "ret") \/ Inside(t, "receive", "ret")
    /\ Return(t)
    /\ xfer' = [xfer EXCEPT ![t] = NoItem]
    /\ UNCHANGED <<kern, current_task, started, pendsv, tick_count, panic,
                   queue, last>>

\* The functions for interrupt handlers; the handler calls task_yield().
send_from_isr(x) ==
    /\ panic = "none" /\ "send_from_isr" \in Api
    /\ IF HandOverFails
       THEN AssertFails("receiver beside items") /\ UNCHANGED <<queue, xfer, last>>
       ELSE /\ try_send_locked(x)
            /\ pendsv' = (pendsv \/ should_yield(receivers))
            /\ UNCHANGED <<current_task, started, tick_count, call, panic>>

receive_from_isr ==
    /\ panic = "none" /\ "receive_from_isr" \in Api
    /\ try_receive_locked
    /\ pendsv' = (pendsv \/ should_yield(senders))
    /\ UNCHANGED <<current_task, started, tick_count, call, panic>>

\* send_from_isr into a full queue returns false, and so does
\* receive_from_isr from an empty one.
send_from_isr_refused(x) ==
    /\ panic = "none" /\ "send_from_isr" \in Api /\ Full
    /\ Reports("send", x, FALSE)
    /\ UNCHANGED <<svars, queue, xfer>>

receive_from_isr_refused ==
    /\ panic = "none" /\ "receive_from_isr" \in Api /\ Empty
    /\ Reports("receive", NoItem, FALSE)
    /\ UNCHANGED <<svars, queue, xfer>>

QueueNext ==
    \/ SchedNext /\ UNCHANGED <<queue, xfer, last>>
    \/ receive_from_isr
    \/ receive_from_isr_refused
    \/ \E x \in Item : send_from_isr(x) \/ send_from_isr_refused(x)
    \/ \E t \in Task :
        \/ receive(t)
        \/ receive_refused(t)
        \/ finish_call(t)
        \/ \E x \in Item : send(t, x) \/ send_refused(t, x)
        \/ \E ms \in Timeouts : \/ receive_block(t, ms)
                                \/ \E x \in Item : send_block(t, x, ms)

QueueSpec == QueueInit /\ [][QueueNext]_qvars

----------------------------------------------------------------------------
(* Properties *)

\* No wake-up is lost: a receiver waits only while the queue is empty and a
\* sender only while it is full (queue.hpp on QueueCore), whichever of
\* timeouts, suspensions and interrupts come between.
NobodyWaitsInVain ==
    /\ kern.wait_lists[receivers] # <<>> => queue.count = 0
    /\ kern.wait_lists[senders] # <<>> => queue.count = capacity

\* The items in the ring, oldest first.
Contents ==
    [i \in 1..queue.count |-> queue.storage[(queue.head + i - 1) % capacity]]

\* The waiting call of a task, as its own code will see it when it returns.  A
\* buffer nobody waits with is the caller's own: a write to it shows.
Waiting ==
    [t \in Task |->
        IF call[t].op \notin {"send", "receive"}
        THEN [op |-> "none", item |-> xfer[t], result |-> "open"]
        ELSE [op     |-> call[t].op,
              item   |-> xfer[t],
              result |-> IF kern.wait_list[t] # NoList THEN "open"
                         ELSE IF kern.timeout_expired[t] THEN "failed" ELSE "ok"]]

AbstractChannel ==
    INSTANCE Channel WITH chan <- Contents, wait <- Waiting

\* The queue is a FIFO channel: through hand-overs, timeouts and suspensions a
\* send that reports success, at once or after a wait, from a task or from an
\* interrupt handler, put its own item in exactly once; a receive that reports
\* success got the oldest item; a call that fails moved nothing; and no buffer is
\* written once its call returned (QueueCore::send, receive and their
\* _from_isr forms).
ImplementsChannel == AbstractChannel!ChannelSpec
=============================================================================
