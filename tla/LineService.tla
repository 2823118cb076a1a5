----------------------------- MODULE LineService -----------------------------
(***************************************************************************)
(* What the interrupt subsystem promises to a driver: a line has one owner *)
(* per manager, interrupts are served one after the other, each is handed  *)
(* to a manager at most once, which calls the owner and nobody else, and   *)
(* one that was handed over is acknowledged, alone, before the next.       *)
(* There is no stub, vector or global byte here.  Whether an interrupt     *)
(* finds a manager is left open, and so is when it is acknowledged.        *)
(***************************************************************************)
CONSTANTS Managers, NoManager, Handlers, NoHandler, Lines

VARIABLES
    granted,    \* the grants <<manager, line, handler>>
    serving,    \* the interrupt being served, if any
    open        \* the lines whose interrupt was not acknowledged

vars == <<granted, serving, open>>

Owners(m, l) == {h \in Handlers : <<m, l, h>> \in granted}

Init == granted = {} /\ serving = {} /\ open = {}

Grant(m, l, h) ==
    /\ serving = {} /\ Owners(m, l) = {}
    /\ granted' = granted \cup {<<m, l, h>>}
    /\ UNCHANGED <<serving, open>>

(* The controllers are started afresh.                                     *)
Restart ==
    /\ serving = {}
    /\ open' = {}
    /\ UNCHANGED <<granted, serving>>

Begin(l) ==
    /\ serving = {} /\ l \notin open
    /\ serving' = {[line |-> l, manager |-> NoManager, called |-> NoHandler]}
    /\ open' = open \cup {l}
    /\ UNCHANGED granted

HandOver(f, m) ==
    /\ f.manager = NoManager
    /\ \E h \in Handlers \cup {NoHandler} :
          /\ IF Owners(m, f.line) = {} THEN h = NoHandler ELSE h \in Owners(m, f.line)
          /\ serving' = {[line |-> f.line, manager |-> m, called |-> h]}
    /\ UNCHANGED <<granted, open>>

Acknowledge(f) ==
    /\ f.manager # NoManager
    /\ open' = open \ {f.line}
    /\ UNCHANGED <<granted, serving>>

End(f) ==
    /\ f.manager # NoManager => f.line \notin open
    /\ serving' = {}
    /\ UNCHANGED <<granted, open>>

Next ==
    \/ \E m \in Managers, l \in Lines, h \in Handlers : Grant(m, l, h)
    \/ Restart
    \/ \E l \in Lines : Begin(l)
    \/ \E f \in serving : Acknowledge(f) \/ End(f) \/ \E m \in Managers : HandOver(f, m)

Spec == Init /\ [][Next]_vars
=============================================================================
