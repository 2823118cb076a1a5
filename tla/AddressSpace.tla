----------------------------- MODULE AddressSpace -----------------------------
(***************************************************************************)
(* What Paging::Map promises to the code that calls it: a request maps its *)
(* pages to its frames one after the other, at any moment another page     *)
(* translates as it did, and the answer says whether all were mapped.      *)
(* There are no tables here: taking them from the paging space, linking    *)
(* and walking them changes no translation.  When a request may fail is    *)
(* left open.                                                              *)
(***************************************************************************)
EXTENDS Integers

CONSTANTS
    Pages,      \* the virtual pages, from 0 on
    Wrap,       \* pages after which a request comes back to its first page
    EMPTY       \* the translation of a page that is not mapped

VARIABLES
    space,      \* page |-> the frame it translates to
    busy,       \* a request is being served
    request,    \* its first frame, first page and number of pages
    done,       \* its pages mapped so far
    answer      \* to the last request, "none" while there is none

vars == <<space, busy, request, done, answer>>

Init ==
    /\ space \in [Pages -> Nat \cup {EMPTY}]
    /\ busy = FALSE
    /\ request = [physical |-> 0, address |-> 0, numPages |-> 0]
    /\ done = 0
    /\ answer = "none"

(* A request for no page, or one that comes too early.                     *)
Refuse ==
    /\ ~busy
    /\ answer' = "false"
    /\ request' = [request EXCEPT !.numPages = 0]
    /\ done' = 0
    /\ UNCHANGED <<space, busy>>

Accept ==
    /\ ~busy
    /\ busy' = TRUE
    /\ request' \in [physical : Nat, address : Pages, numPages : Nat \ {0}]
    /\ request'.address + request'.numPages - 1 \in Pages
    /\ done' = 0
    /\ answer' = "none"
    /\ UNCHANGED space

MapNext ==
    /\ busy
    /\ space' = [space EXCEPT ![request.address + (done % Wrap)]
                                  = request.physical + (done % Wrap)]
    /\ done' = done + 1
    /\ IF done' < request.numPages
       THEN UNCHANGED <<busy, answer>>
       ELSE busy' = FALSE /\ answer' = "true"
    /\ UNCHANGED request

GiveUp ==
    /\ busy
    /\ busy' = FALSE
    /\ answer' = "false"
    /\ UNCHANGED <<space, request, done>>

Next == Refuse \/ Accept \/ MapNext \/ GiveUp

Spec == Init /\ [][Next]_vars
=============================================================================
