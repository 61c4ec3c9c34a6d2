------------------------------ MODULE Channel ------------------------------
(***************************************************************************)
(* What Queue<T, N> promises (src/include/acrtos/queue.hpp): a bounded     *)
(* FIFO channel.  A call has one result, which is decided once, at once or *)
(* after a wait: the item of a send that succeeds joins the tail exactly   *)
(* then, a receive that succeeds gets the oldest item exactly then, and a  *)
(* call that fails has moved nothing.                                      *)
(***************************************************************************)
EXTENDS Naturals, Sequences

CONSTANTS Task, Item, NoItem, capacity

VARIABLES
    chan,   \* the items in the channel, oldest first
    wait,   \* per task, the waiting call it is in
    last    \* the last call that did not wait, its item and its result

NoWait == [op |-> "none", item |-> NoItem, result |-> "open"]

\* The calls that wait to do op.
Open(op) == {t \in Task : wait[t].op = op /\ wait[t].result = "open"}

ChannelInit ==
    /\ chan = <<>>
    /\ wait = [t \in Task |-> NoWait]
    /\ last = [op |-> "none", item |-> NoItem, ok |-> TRUE, turn |-> 0]

\* A call ends without having waited.  Every one of them shows: turn tells a
\* call from an equal one before it.
Ends(op, x, ok) ==
    last' = [op |-> op, item |-> x, ok |-> ok, turn |-> 1 - last.turn]

\* x is sent: a waiting receiver gets it, else it joins the channel.
Put(x) ==
    /\ Ends("send", x, TRUE)
    /\ \/ \E u \in Open("receive") :
            /\ chan = <<>>
            /\ wait' = [wait EXCEPT ![u].item = x, ![u].result = "ok"]
            /\ UNCHANGED chan
       \/ /\ Open("receive") = {} /\ Len(chan) < capacity
          /\ chan' = Append(chan, x)
          /\ UNCHANGED wait

\* The oldest item is received; the item of a waiting send takes the room.
Take ==
    /\ chan # <<>>
    /\ Ends("receive", Head(chan), TRUE)
    /\ \/ \E u \in Open("send") :
            /\ chan' = Append(Tail(chan), wait[u].item)
            /\ wait' = [wait EXCEPT ![u].result = "ok"]
       \/ /\ Open("send") = {}
          /\ chan' = Tail(chan)
          /\ UNCHANGED wait

\* A call that does not want to wait fails.
Refuse ==
    /\ \/ Len(chan) = capacity /\ \E x \in Item : Ends("send", x, FALSE)
       \/ chan = <<>> /\ Ends("receive", NoItem, FALSE)
    /\ UNCHANGED <<chan, wait>>

Begin(t, op, x) ==
    /\ wait[t] = NoWait
    /\ op = "send" => Len(chan) = capacity /\ x \in Item
    /\ op = "receive" => chan = <<>> /\ x = NoItem
    /\ wait' = [wait EXCEPT ![t] = [op |-> op, item |-> x, result |-> "open"]]
    /\ UNCHANGED <<chan, last>>

\* Timeouts and suspensions end waits, several at one tick.
GiveUp ==
    /\ \E S \in SUBSET (Open("send") \cup Open("receive")) :
        wait' = [t \in Task |-> IF t \in S THEN [wait[t] EXCEPT !.result = "failed"]
                                           ELSE wait[t]]
    /\ UNCHANGED <<chan, last>>

Finish(t) ==
    /\ wait[t].result # "open"
    /\ wait' = [wait EXCEPT ![t] = NoWait]
    /\ UNCHANGED <<chan, last>>

ChannelNext ==
    \/ \E x \in Item : Put(x)
    \/ Take
    \/ Refuse
    \/ \E t \in Task, x \in Item \cup {NoItem} :
        Begin(t, "send", x) \/ Begin(t, "receive", x)
    \/ GiveUp
    \/ \E t \in Task : Finish(t)

ChannelSpec == ChannelInit /\ [][ChannelNext]_<<chan, wait, last>>
=============================================================================
