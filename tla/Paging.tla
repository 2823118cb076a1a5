------------------------------- MODULE Paging -------------------------------
(***************************************************************************)
(* Paging::Map (modules/paging.cpp): mapping a range of virtual pages in   *)
(* the three-level tree of page tables set up by boot.S, with new tables   *)
(* taken in order from the paging space.                                   *)
(*                                                                         *)
(* Pages and tables are numbered; a step is one iteration of Map's inner   *)
(* loop, so the tree is seen as the MMU may see it in the middle of a walk.*)
(***************************************************************************)
EXTENDS Integers

CONSTANTS
    Entries,        \* PT_NUM_ENTRIES
    NumBoot,        \* number of tables boot.S sets up
    BootTables,     \* their entries; table 0 is the PML4
    PagingSpace,    \* size given to Paging::Init, in tables
    Wrap,           \* pages after which the 32-bit p * PAGE_SIZE wraps
    Frames,         \* physical pages callers map from
    Counts,         \* numbers of pages they map
    MaxCalls,       \* bound on the number of calls of Map
    EMPTY           \* an entry of 0

PAGING_LEVELS == 3
Index == 0 .. Entries - 1
Pages == 0 .. Entries * Entries * Entries - 1
Boot == 0 .. NumBoot - 1
Space == NumBoot .. NumBoot + PagingSpace - 1

ASSUME PagingAssumption ==
    /\ Entries \in Nat \ {0}
    /\ PagingSpace \in Nat
    /\ Wrap \in Nat \ {0}
    /\ Frames \subseteq Nat
    /\ Counts \subseteq Nat
    /\ MaxCalls \in Nat
    /\ EMPTY \notin Nat
    /\ NumBoot \in Nat \ {0}
    /\ BootTables \in [Boot -> [Index -> Nat \cup {EMPTY}]]

pml4 == 0

(* The tables the entries of the tables in S point to.                     *)
Children(tab, S) == {tab[t][e] : t \in S, e \in Index} \ {EMPTY}

(* A tree of three levels of the tables in use: no table is shared between *)
(* two entries or two levels.                                              *)
FormTree(tab, inUse) ==
    LET Level1 == Children(tab, {pml4})
        Level0 == Children(tab, Level1)
        Links == {pml4} \cup Level1
    IN  /\ Level1 \cup Level0 \subseteq inUse \ {pml4}
        /\ Level1 \cap Level0 = {}
        /\ \A t, u \in Links, e, f \in Index :
              tab[t][e] # EMPTY /\ tab[t][e] = tab[u][f] => t = u /\ e = f

(* boot.S gives the low and the high branch tables of their own.           *)
ASSUME BootIsTree == FormTree(BootTables, Boot)

VARIABLES
    tables,         \* table |-> its entries: a table, or a frame at level 0
    ready,          \* Paging::Init has run: pml4 # nullptr
    created,        \* tables taken from the paging space
    pc, req,        \* Map: control, and its arguments
    p, i, current,  \* Map's locals: page, level, table of that level
    result,         \* what the last call of Map returned
    calls,          \* number of calls made
    before          \* ghost: the translation when Map was called

locals == <<p, i, current>>
vars == <<tables, ready, created, pc, req, locals, result, calls, before>>

(* ADDR_TO_TABLE_INDEX                                                     *)
TableIndex(v, level) ==
    CASE level = 0 -> v % Entries
      [] level = 1 -> (v \div Entries) % Entries
      [] level = 2 -> (v \div (Entries * Entries)) % Entries

(* The MMU's walk.                                                         *)
Entry(t, v, level) == IF t = EMPTY THEN EMPTY ELSE tables[t][TableIndex(v, level)]
Translate(v) == Entry(Entry(Entry(pml4, v, 2), v, 1), v, 0)

Init ==
    /\ tables = [t \in Boot \cup Space |->
                    IF t \in Boot THEN BootTables[t] ELSE [e \in Index |-> EMPTY]]
    /\ ready = FALSE
    /\ created = 0
    /\ pc = "idle"
    /\ req = [physical |-> 0, address |-> 0, numPages |-> 0]
    /\ p = 0 /\ i = 0 /\ current = pml4
    /\ result = "none"
    /\ calls = 0
    /\ before = [v \in Pages |-> Translate(v)]

-----------------------------------------------------------------------------
PagingInit ==
    /\ ~ready
    /\ ready' = TRUE
    /\ UNCHANGED <<tables, created, pc, req, locals, result, calls, before>>

(* Before Init, and for no page at all, Map returns false at once.         *)
MapRefused(n) ==
    /\ pc = "idle" /\ calls < MaxCalls
    /\ ~ready \/ n = 0
    /\ result' = "false"
    /\ calls' = calls + 1
    /\ req' = [req EXCEPT !.numPages = 0]
    /\ p' = 0
    /\ before' = [v \in Pages |-> Translate(v)]
    /\ UNCHANGED <<tables, ready, created, pc, i, current>>

MapCall(f, a, n) ==
    /\ pc = "idle" /\ calls < MaxCalls
    /\ ready /\ n # 0
    /\ a + n - 1 \in Pages
    /\ req' = [physical |-> f, address |-> a, numPages |-> n]
    /\ pc' = "walk"
    /\ p' = 0 /\ i' = PAGING_LEVELS - 1 /\ current' = pml4
    /\ result' = "none"
    /\ calls' = calls + 1
    /\ before' = [v \in Pages |-> Translate(v)]
    /\ UNCHANGED <<tables, ready, created>>

(* Virtual and physical page of the outer loop's iteration q.              *)
vAddr(q) == req.address + (q % Wrap)

(* Mutation: every page of the request goes to its first frame.            *)
FirstFrame(q) == req.physical

pAddr(q) == req.physical + (q % Wrap)

index == TableIndex(vAddr(p), i)

Descend ==
    /\ pc = "walk" /\ i > 0
    /\ tables[current][index] # EMPTY
    /\ current' = tables[current][index]
    /\ i' = i - 1
    /\ UNCHANGED <<tables, ready, created, pc, req, p, result, calls, before>>

(* Mutation: one table more than the paging space holds.                   *)
SpaceLeftInclusive == created <= PagingSpace

SpaceLeft == created < PagingSpace

(* Mutation: the counter is not advanced, so the next table is this one.   *)
CreateSameTable ==
    LET new == NumBoot + created
    IN  /\ pc = "walk" /\ i > 0
        /\ tables[current][index] = EMPTY
        /\ SpaceLeft
        /\ tables' = [tables EXCEPT ![current][index] = new]
        /\ current' = new
        /\ i' = i - 1
        /\ UNCHANGED <<ready, created, pc, req, p, result, calls, before>>

(* A new table goes into the empty entry: pagingSpace + created++.         *)
CreateTable ==
    LET new == NumBoot + created
    IN  /\ pc = "walk" /\ i > 0
        /\ tables[current][index] = EMPTY
        /\ SpaceLeft
        /\ tables' = [tables EXCEPT ![current][index] = new]
        /\ created' = created + 1
        /\ current' = new
        /\ i' = i - 1
        /\ UNCHANGED <<ready, pc, req, p, result, calls, before>>

(* No table left: Map returns false and leaves what it has mapped so far.  *)
OutOfSpace ==
    /\ pc = "walk" /\ i > 0
    /\ tables[current][index] = EMPTY
    /\ ~SpaceLeft
    /\ pc' = "idle"
    /\ result' = "false"
    /\ UNCHANGED <<tables, ready, created, req, locals, calls, before>>

(* Mutation: the next page is looked up from the table of this one.        *)
KeepTable == /\ i' = 0
             /\ UNCHANGED current

(* The next page starts again at the PML4.                                 *)
NextPage == /\ i' = PAGING_LEVELS - 1
            /\ current' = pml4

(* Mutation: Map returns after the first page.                             *)
SetPageReturns ==
    /\ pc = "walk" /\ i = 0
    /\ tables' = [tables EXCEPT ![current][index] = pAddr(p)]
    /\ p' = p + 1
    /\ pc' = "idle" /\ result' = "true"
    /\ UNCHANGED <<ready, created, req, i, current, calls, before>>

(* The last level: whatever the entry held, it now maps the page.          *)
SetPage ==
    /\ pc = "walk" /\ i = 0
    /\ tables' = [tables EXCEPT ![current][index] = pAddr(p)]
    /\ p' = p + 1
    /\ IF p + 1 < req.numPages
       THEN NextPage /\ UNCHANGED <<pc, result>>
       ELSE pc' = "idle" /\ result' = "true" /\ UNCHANGED <<i, current>>
    /\ UNCHANGED <<ready, created, req, calls, before>>

Next ==
    \/ PagingInit
    \/ \E n \in Counts \cup {0} : MapRefused(n)
    \/ \E f \in Frames, a \in Pages, n \in Counts : MapCall(f, a, n)
    \/ Descend \/ CreateTable \/ OutOfSpace \/ SetPage

Spec == Init /\ [][Next]_vars

-----------------------------------------------------------------------------
(* Properties *)

TypeOK ==
    /\ tables \in [Boot \cup Space -> [Index -> Nat \cup {EMPTY}]]
    /\ ready \in BOOLEAN
    /\ created \in 0 .. PagingSpace
    /\ pc \in {"idle", "walk"}
    /\ req \in [physical : Nat, address : Nat, numPages : Nat]
    /\ p \in Nat /\ i \in 0 .. PAGING_LEVELS - 1
    /\ current \in Boot \cup Space
    /\ result \in {"none", "true", "false"}
    /\ calls \in 0 .. MaxCalls
    /\ before \in [Pages -> Nat \cup {EMPTY}]

(* The tables form a tree of three levels with no table shared between two *)
(* entries or two levels, all of them boot's or taken from the paging      *)
(* space: mapping one page can never map another by accident.              *)
TablesFormTree == FormTree(tables, 0 .. NumBoot + created - 1)

(* At every moment of a call, and after it returned true or false, the     *)
(* first p pages of the request are mapped and every other page translates *)
(* as it did before the call.  (For requests the 32-bit offset can hold.)  *)
MapEffect ==
    req.numPages <= Wrap =>
        \A v \in Pages :
            Translate(v) = IF v \in req.address .. req.address + p - 1
                           THEN req.physical + (v - req.address)
                           ELSE before[v]

(* Map returns true only with all pages of the request done, and false     *)
(* only for the refused requests or when the paging space is used up.      *)
ResultIsHonest ==
    /\ result = "true" => p = req.numPages
    /\ result = "false" /\ req.numPages # 0 => created = PagingSpace

(* Map keeps the promises of AddressSpace to its callers: whatever it does *)
(* to the tables, it changes the translation of one page at a time, the    *)
(* next one of the request (past the wrap, one of its first pages again).  *)
AddressSpace == INSTANCE AddressSpace WITH
    space <- [v \in Pages |-> Translate(v)],
    busy <- pc = "walk",
    request <- req,
    done <- p,
    answer <- result
ImplementsAddressSpace == AddressSpace!Spec

(* What bounds a request: each step of Map's loops goes one level down or  *)
(* on to the next page, so a request of n pages takes at most 3n steps.    *)
StepsLeft == PAGING_LEVELS * (req.numPages - p) - (PAGING_LEVELS - 1 - i)
MapAdvances ==
    [][pc = "walk" /\ pc' = "walk" => StepsLeft' < StepsLeft /\ StepsLeft' > 0]_vars

=============================================================================
