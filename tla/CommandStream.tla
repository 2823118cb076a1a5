--------------------------- MODULE CommandStream ---------------------------
(***************************************************************************)
(* What the SVGA command FIFO promises the device: a bounded queue of      *)
(* words.  The driver appends words at its tail, the device takes words    *)
(* from its head, and a word in the queue does not change, until the driver*)
(* breaks the queue for good.                                              *)
(***************************************************************************)
EXTENDS Integers, Sequences

CONSTANT Capacity

VARIABLES
    queue,      \* the words published and not read yet
    broken      \* the driver has lost track of them

Init == queue = << >> /\ broken = FALSE

Append1Plus ==
    /\ ~broken
    /\ Len(queue') > Len(queue)
    /\ Len(queue') <= Capacity
    /\ SubSeq(queue', 1, Len(queue)) = queue
    /\ UNCHANGED broken

Take ==
    /\ ~broken
    /\ queue # << >>
    /\ queue' = Tail(queue)
    /\ UNCHANGED broken

Break ==
    /\ ~broken
    /\ broken' = TRUE
    /\ UNCHANGED queue

Next == Append1Plus \/ Take \/ Break

Spec == Init /\ [][Next]_<<queue, broken>>
=============================================================================
