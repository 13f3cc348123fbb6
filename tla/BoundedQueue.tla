---------------------------- MODULE BoundedQueue -----------------------------
(***************************************************************************)
(* What a FreeRTOS queue promises the tasks of the keybox: a FIFO of at    *)
(* most Length items.  A send never waits: it adds the item at the back or,*)
(* when the queue is full, drops it.                                       *)
(***************************************************************************)
EXTENDS Integers, Sequences

CONSTANTS
    Values,     \* items
    Length,     \* uxLength
    NoItem      \* no item

VARIABLES
    queue,      \* the items, oldest first
    got         \* the item received last, until it is consumed

Init == queue = <<>> /\ got = NoItem

(* A send with room; a send without room is a stuttering step.             *)
Send(v) ==
    /\ Len(queue) < Length
    /\ queue' = Append(queue, v)
    /\ UNCHANGED got

Receive ==
    /\ queue # <<>>
    /\ got' = Head(queue)
    /\ queue' = Tail(queue)

(* The receiver is done with the item.                                     *)
Consume == got' = NoItem /\ UNCHANGED queue

Next == Receive \/ Consume \/ \E v \in Values : Send(v)

Spec == Init /\ [][Next]_<<queue, got>>
=============================================================================
