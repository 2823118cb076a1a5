----------------------------- MODULE Allocator -----------------------------
(***************************************************************************)
(* What a heap promises to the code that calls new and delete: a block     *)
(* lies inside the heap, it shares no address with a block handed out      *)
(* before and not given back yet, and a block the caller keeps is never    *)
(* moved, resized or taken away.  When a request may fail is left open.    *)
(***************************************************************************)
EXTENDS Integers

CONSTANTS
    HeapSize,   \* number of addresses, 0 .. HeapSize-1
    Requests    \* sizes the callers ask for

VARIABLE blocks     \* address of a block in use |-> its size

Init == blocks = << >>

(* The addresses p .. p+n-1 are in the heap and in no block in use.        *)
Vacant(p, n) ==
    /\ p + n <= HeapSize
    /\ \A q \in DOMAIN blocks : p + n <= q \/ q + blocks[q] <= p

Allocate(p, n) ==
    /\ p \notin DOMAIN blocks
    /\ Vacant(p, n)
    /\ blocks' = [q \in DOMAIN blocks \cup {p} |-> IF q = p THEN n ELSE blocks[q]]

Release(p) ==
    /\ p \in DOMAIN blocks
    /\ blocks' = [q \in DOMAIN blocks \ {p} |-> blocks[q]]

Next ==
    \/ \E p \in 0 .. HeapSize - 1, n \in Requests \ {0} : Allocate(p, n)
    \/ \E p \in DOMAIN blocks : Release(p)

Spec == Init /\ [][Next]_blocks
=============================================================================
