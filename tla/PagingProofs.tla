----------------------------- MODULE PagingProofs ----------------------------
(***************************************************************************)
(* Proofs about Paging: for every size of table, paging space, set of boot *)
(* tables that forms a tree, and request, Map keeps the tables a tree,     *)
(* maps exactly the pages of its request and reports honestly.             *)
(***************************************************************************)
EXTENDS Paging, TLAPS

(* The three indices of a page are its digits: they identify it.           *)
LEMMA DivMod ==
    ASSUME NEW n \in Nat \ {0}, NEW v \in Nat
    PROVE  v \div n \in Nat /\ v % n \in 0 .. n - 1 /\ v = n * (v \div n) + (v % n)
OBVIOUS

LEMMA DivUnique ==
    ASSUME NEW n \in Nat \ {0}, NEW a \in Nat, NEW b \in Nat, NEW r \in 0 .. n - 1, NEW s \in 0 .. n - 1,
           n * a + r = n * b + s
    PROVE  a = b
<1>1. ASSUME NEW x \in Nat, NEW y \in Nat, NEW u \in 0 .. n - 1, NEW w \in 0 .. n - 1, x < y
      PROVE  n * x + u # n * y + w
  <2>1. PICK k \in Nat : y = x + 1 + k
    <3>1. y - x - 1 \in Nat /\ y = x + 1 + (y - x - 1) BY <1>1
    <3> QED BY <3>1
  <2>2. n * y = n * x + n + n * k /\ n * k \in Nat BY <2>1
  <2>3. n * x \in Nat OBVIOUS
  <2> QED BY <2>2, <2>3
<1>2. ~(a < b) /\ ~(b < a) BY <1>1
<1> QED BY <1>2

LEMMA Digits ==
    ASSUME NEW v \in Pages
    PROVE  /\ TableIndex(v, 0) \in Index /\ TableIndex(v, 1) \in Index /\ TableIndex(v, 2) \in Index
           /\ v = Entries * (Entries * TableIndex(v, 2) + TableIndex(v, 1)) + TableIndex(v, 0)
<1> DEFINE q == v \div Entries
           q2 == q \div Entries
           d == v \div (Entries * Entries)
<1>0. Entries \in Nat \ {0} /\ Entries * Entries \in Nat \ {0} /\ v \in Nat /\ v < Entries * Entries * Entries
  <2>1. Entries \in Nat \ {0} BY PagingAssumption
  <2>2. Entries * Entries \in Nat \ {0} BY <2>1
  <2>3. Entries * Entries * Entries \in Nat BY <2>1, <2>2
  <2> QED BY <2>1, <2>2, <2>3 DEF Pages
<1>1. q \in Nat /\ v % Entries \in 0 .. Entries - 1 /\ v = Entries * q + (v % Entries) BY <1>0, DivMod
<1>2. q2 \in Nat /\ q % Entries \in 0 .. Entries - 1 /\ q = Entries * q2 + (q % Entries)
  <2> HIDE DEF q
  <2> QED BY <1>0, <1>1, DivMod
<1>3. d \in Nat /\ v % (Entries * Entries) \in 0 .. Entries * Entries - 1
      /\ v = (Entries * Entries) * d + (v % (Entries * Entries))
  BY <1>0, DivMod
<1> DEFINE r0 == v % Entries
           r1 == q % Entries
           m == v % (Entries * Entries)
<1> HIDE DEF q, q2, d, r0, r1, m
<1>4. /\ q \in Nat /\ q2 \in Nat /\ d \in Nat /\ r0 \in 0 .. Entries - 1 /\ r1 \in 0 .. Entries - 1
      /\ m \in 0 .. Entries * Entries - 1
      /\ v = Entries * q + r0 /\ q = Entries * q2 + r1 /\ v = (Entries * Entries) * d + m
  BY <1>1, <1>2, <1>3 DEF r0, r1, m
<1>5. Entries * r1 + r0 \in 0 .. Entries * Entries - 1
  <2>1. PICK k \in Nat : Entries = r1 + 1 + k
    <3>1. Entries - r1 - 1 \in Nat /\ Entries = r1 + 1 + (Entries - r1 - 1) BY <1>0, <1>4
    <3> QED BY <3>1
  <2>2. Entries * Entries = Entries * r1 + Entries + Entries * k /\ Entries * k \in Nat /\ Entries * r1 \in Nat
    BY <1>0, <1>4, <2>1
  <2> QED BY <1>0, <1>4, <2>2
<1>6. v = (Entries * Entries) * q2 + (Entries * r1 + r0)
  <2>1. Entries * (Entries * q2 + r1) = (Entries * Entries) * q2 + Entries * r1 BY <1>0, <1>4
  <2> QED BY <1>0, <1>4, <2>1
<1>7. q2 = d
  <2> DEFINE n == Entries * Entries
             r == Entries * r1 + r0
  <2>1. n \in Nat \ {0} /\ r \in 0 .. n - 1 /\ m \in 0 .. n - 1 /\ n * q2 + r = n * d + m
    BY <1>0, <1>4, <1>5, <1>6
  <2> HIDE DEF n, r
  <2> QED BY <1>4, <2>1, DivUnique
<1>8. d < Entries /\ d % Entries = d
  <2>1. d < Entries
    <3>1. SUFFICES ASSUME ~(d < Entries) PROVE FALSE OBVIOUS
    <3>2. PICK k \in Nat : d = Entries + k
      <4>1. d - Entries \in Nat /\ d = Entries + (d - Entries) BY <1>0, <1>4, <3>1
      <4> QED BY <4>1
    <3>3. (Entries * Entries) * d = Entries * Entries * Entries + (Entries * Entries) * k
      BY <1>0, <3>2
    <3>4. (Entries * Entries) * k \in Nat BY <1>0
    <3> QED BY <1>0, <1>4, <3>3, <3>4
  <2> QED BY <1>0, <1>4, <2>1
<1>9. TableIndex(v, 0) = r0 /\ TableIndex(v, 1) = r1 /\ TableIndex(v, 2) = d
  BY <1>8 DEF TableIndex, r0, r1, q, d
<1>10. v = Entries * (Entries * d + r1) + r0 BY <1>4, <1>7
<1> QED BY <1>0, <1>4, <1>8, <1>9, <1>10 DEF Index

LEMMA IndicesIdentify ==
    ASSUME NEW v \in Pages, NEW w \in Pages,
           \A k \in 0 .. 2 : TableIndex(v, k) = TableIndex(w, k)
    PROVE  v = w
BY Digits

-----------------------------------------------------------------------------
(* The tables on the way to page v.                                        *)
Table1(v) == tables[pml4][TableIndex(v, 2)]
Level1 == Children(tables, {pml4})
Level0 == Children(tables, Level1)

(* Where Map is: the page is one of the request, the table is the one the  *)
(* page's walk reaches at level i.                                         *)
WalkInv ==
    /\ p <= req.numPages
    /\ pc = "walk" =>
          /\ result = "none" /\ ready
          /\ p < req.numPages /\ req.address + req.numPages - 1 \in Pages
          /\ i = 2 => current = pml4
          /\ i = 1 => current = Table1(vAddr(p))
          /\ i = 0 => Table1(vAddr(p)) # EMPTY /\ current = tables[Table1(vAddr(p))][TableIndex(vAddr(p), 1)]

(* The tables still in the paging space are empty.                         *)
UnusedEmpty == \A t \in Space : t >= NumBoot + created => \A e \in Index : tables[t][e] = EMPTY

Inv == TypeOK /\ TablesFormTree /\ UnusedEmpty /\ WalkInv /\ MapEffect /\ ResultIsHonest

-----------------------------------------------------------------------------
LEMMA Sizes ==
    /\ Entries \in Nat \ {0} /\ NumBoot \in Nat \ {0} /\ PagingSpace \in Nat /\ Wrap \in Nat \ {0}
    /\ EMPTY \notin Nat /\ Frames \subseteq Nat /\ Counts \subseteq Nat /\ MaxCalls \in Nat
    /\ Boot \subseteq Nat /\ Space \subseteq Nat /\ pml4 \in Boot /\ Pages \subseteq Nat
    /\ \A v \in Pages, k \in 0 .. 2 : TableIndex(v, k) \in Index
<1>1. \A v \in Pages, k \in 0 .. 2 : TableIndex(v, k) \in Index
  <2> SUFFICES ASSUME NEW v \in Pages, NEW k \in 0 .. 2 PROVE TableIndex(v, k) \in Index OBVIOUS
  <2> QED BY Digits
<1> QED BY <1>1, PagingAssumption DEF Boot, Space, pml4, Pages

LEMMA ChildrenSame ==
    ASSUME NEW tab, NEW other, NEW S, \A t \in S : tab[t] = other[t]
    PROVE  Children(tab, S) = Children(other, S)
<1>1. \A t \in S, e \in Index : tab[t][e] = other[t][e] OBVIOUS
<1>2. \A x : x \in Children(tab, S) <=> x # EMPTY /\ \E t \in S, e \in Index : x = tab[t][e] BY DEF Children
<1>3. \A x : x \in Children(other, S) <=> x # EMPTY /\ \E t \in S, e \in Index : x = other[t][e] BY DEF Children
<1>4. \A x : x \in Children(tab, S) <=> x \in Children(other, S) BY <1>1, <1>2, <1>3
<1> QED BY <1>4

(* What the tree says entry by entry.                                      *)
LEMMA TreeEntries ==
    ASSUME created \in 0 .. PagingSpace, TablesFormTree
    PROVE  /\ Level1 \subseteq (Boot \cup Space) \ {pml4} /\ Level0 \subseteq (Boot \cup Space) \ {pml4}
           /\ \A t \in Level1 \cup Level0 : t < NumBoot + created
           /\ Level1 \cap Level0 = {}
           /\ \A e \in Index : tables[pml4][e] # EMPTY => tables[pml4][e] \in Level1
           /\ \A t \in Level1, e \in Index : tables[t][e] # EMPTY => tables[t][e] \in Level0
           /\ \A t, u \in {pml4} \cup Level1, e, f \in Index :
                 tables[t][e] # EMPTY /\ tables[t][e] = tables[u][f] => t = u /\ e = f
<1>1. /\ Level1 \cup Level0 \subseteq (0 .. NumBoot + created - 1) \ {pml4} /\ Level1 \cap Level0 = {}
      /\ \A t, u \in {pml4} \cup Level1, e, f \in Index :
                 tables[t][e] # EMPTY /\ tables[t][e] = tables[u][f] => t = u /\ e = f
  BY DEF TablesFormTree, FormTree, Level1, Level0
<1>2. created \in 0 .. PagingSpace OBVIOUS
<1>3. 0 .. NumBoot + created - 1 \subseteq Boot \cup Space BY <1>2, Sizes DEF Boot, Space
<1>4. \A t \in Level1 \cup Level0 : t < NumBoot + created BY <1>1, <1>2, Sizes
<1>5. \A e \in Index : tables[pml4][e] # EMPTY => tables[pml4][e] \in Level1 BY DEF Level1, Children
<1>6. \A t \in Level1, e \in Index : tables[t][e] # EMPTY => tables[t][e] \in Level0 BY DEF Level0, Children
<1> QED BY <1>1, <1>3, <1>4, <1>5, <1>6

LEMMA TreeFacts ==
    ASSUME TypeOK, TablesFormTree
    PROVE  /\ Level1 \subseteq (Boot \cup Space) \ {pml4} /\ Level0 \subseteq (Boot \cup Space) \ {pml4}
           /\ \A t \in Level1 \cup Level0 : t < NumBoot + created
           /\ Level1 \cap Level0 = {}
           /\ \A e \in Index : tables[pml4][e] # EMPTY => tables[pml4][e] \in Level1
           /\ \A t \in Level1, e \in Index : tables[t][e] # EMPTY => tables[t][e] \in Level0
           /\ \A t, u \in {pml4} \cup Level1, e, f \in Index :
                 tables[t][e] # EMPTY /\ tables[t][e] = tables[u][f] => t = u /\ e = f
BY TreeEntries DEF TypeOK

LEMMA TranslatesToFrame ==
    ASSUME tables \in [Boot \cup Space -> [Index -> Nat \cup {EMPTY}]], created \in 0 .. PagingSpace,
           TablesFormTree, NEW v \in Pages
    PROVE  Translate(v) \in Nat \cup {EMPTY}
<1> DEFINE x == tables[pml4][TableIndex(v, 2)]
           y == tables[x][TableIndex(v, 1)]
<1>1. TableIndex(v, 2) \in Index /\ TableIndex(v, 1) \in Index /\ TableIndex(v, 0) \in Index /\ pml4 # EMPTY
  BY Sizes
<1>2. Translate(v) = IF x = EMPTY THEN EMPTY ELSE IF y = EMPTY THEN EMPTY ELSE tables[y][TableIndex(v, 0)]
  BY <1>1 DEF Translate, Entry
<1>3. x # EMPTY => x \in Level1 BY <1>1, TreeEntries
<1>4. x # EMPTY /\ y # EMPTY => y \in Boot \cup Space BY <1>1, <1>3, TreeEntries
<1> QED BY <1>1, <1>2, <1>4

(* The page Map is at is one of the request.                               *)
LEMMA PageOfWalk ==
    ASSUME TypeOK, WalkInv, pc = "walk"
    PROVE  /\ vAddr(p) \in Pages /\ pAddr(p) \in Nat
           /\ req.numPages <= Wrap => vAddr(p) = req.address + p /\ pAddr(p) = req.physical + p
<1>1. /\ p \in Nat /\ req.address \in Nat /\ req.numPages \in Nat /\ req.physical \in Nat
      /\ p < req.numPages /\ req.address + req.numPages - 1 \in Pages
  BY DEF TypeOK, WalkInv
<1>2. p % Wrap \in Nat /\ p % Wrap <= p /\ (p < Wrap => p % Wrap = p)
  BY <1>1, Sizes
<1>3. vAddr(p) \in Nat /\ vAddr(p) <= req.address + req.numPages - 1 /\ pAddr(p) \in Nat
  BY <1>1, <1>2 DEF vAddr, pAddr
<1>4. vAddr(p) \in Pages
  <2>1. Entries * Entries * Entries \in Nat
    <3>1. Entries * Entries \in Nat BY Sizes
    <3> QED BY <3>1, Sizes
  <2> QED BY <1>1, <1>3, <2>1 DEF Pages
<1>5. req.numPages <= Wrap => p < Wrap BY <1>1, Sizes
<1> QED BY <1>2, <1>3, <1>4, <1>5 DEF vAddr, pAddr

(* The walk is in the tree, at the level i says.                           *)
LEMMA PlaceOfWalk ==
    ASSUME TypeOK, TablesFormTree, WalkInv, pc = "walk"
    PROVE  /\ current # EMPTY /\ index \in Index
           /\ i = 2 => current = pml4
           /\ i = 1 => current \in Level1
           /\ i = 0 => Table1(vAddr(p)) \in Level1 /\ current \in Level0
<1>1. vAddr(p) \in Pages BY PageOfWalk
<1>2. current # EMPTY /\ i \in 0 .. 2 BY Sizes DEF TypeOK, PAGING_LEVELS
<1>3. \A k \in 0 .. 2 : TableIndex(vAddr(p), k) \in Index BY <1>1, Sizes
<1>4. index \in Index BY <1>2, <1>3 DEF index
<1>5. i = 1 => current \in Level1 BY <1>2, <1>3, TreeFacts DEF WalkInv, Table1
<1>6. i = 0 => Table1(vAddr(p)) \in Level1 /\ current \in Level0
  <2> SUFFICES ASSUME i = 0 PROVE Table1(vAddr(p)) \in Level1 /\ current \in Level0 OBVIOUS
  <2>1. Table1(vAddr(p)) \in Level1 BY <1>3, TreeFacts DEF WalkInv, Table1
  <2>2. current \in Level0 BY <1>2, <1>3, <2>1, TreeFacts DEF WalkInv
  <2> QED BY <2>1, <2>2
<1> QED BY <1>2, <1>4, <1>5, <1>6 DEF WalkInv

-----------------------------------------------------------------------------
(* A new table: the tree grows by an empty table at the empty entry.       *)
LEMMA NewTable ==
    ASSUME TypeOK, TablesFormTree, UnusedEmpty, WalkInv, CreateTable
    PROVE  LET new == NumBoot + created IN
           /\ new \in Space /\ new \notin Level1 \cup Level0 \cup {pml4} /\ \A e \in Index : tables[new][e] = EMPTY
           /\ tables' = [tables EXCEPT ![current][index] = new] /\ created' = created + 1 /\ created < PagingSpace
           /\ current \in {pml4} \cup Level1 /\ index \in Index /\ tables[current][index] = EMPTY /\ new # EMPTY
           /\ new # current /\ i \in 1 .. 2 /\ current \in Boot \cup Space /\ (i = 1 <=> current \in Level1)
<1> DEFINE new == NumBoot + created
<1>1. created \in 0 .. PagingSpace /\ created < PagingSpace /\ i \in 1 .. 2 /\ pc = "walk"
  BY DEF TypeOK, CreateTable, SpaceLeft, PAGING_LEVELS
<1>2. new \in Space /\ new \in Nat BY <1>1, Sizes DEF Space
<1>3. new \notin Level1 \cup Level0 \cup {pml4}
  <2>1. pml4 < new /\ ~(new < new) BY <1>1, Sizes DEF pml4
  <2> QED BY <2>1, TreeFacts
<1>4. \A e \in Index : tables[new][e] = EMPTY BY <1>2 DEF UnusedEmpty
<1>5. current \in {pml4} \cup Level1 /\ index \in Index /\ (i = 1 <=> current \in Level1)
  BY <1>1, PlaceOfWalk, TreeFacts
<1>6. tables' = [tables EXCEPT ![current][index] = new] /\ created' = created + 1 /\ tables[current][index] = EMPTY
  BY DEF CreateTable
<1>7. current \in Boot \cup Space /\ new # EMPTY /\ new # current BY <1>2, <1>3, <1>5, Sizes DEF TypeOK
<1> QED BY <1>1, <1>2, <1>3, <1>4, <1>5, <1>6, <1>7

LEMMA CreateTree ==
    ASSUME TypeOK, TablesFormTree, UnusedEmpty, WalkInv, CreateTable
    PROVE  TablesFormTree'
<1> DEFINE new == NumBoot + created
<1>1. /\ new \in Space /\ new \notin Level1 \cup Level0 \cup {pml4} /\ \A e \in Index : tables[new][e] = EMPTY
      /\ tables' = [tables EXCEPT ![current][index] = new] /\ created' = created + 1 /\ created < PagingSpace
      /\ current \in {pml4} \cup Level1 /\ index \in Index /\ tables[current][index] = EMPTY /\ new # EMPTY
      /\ new # current /\ current \in Boot \cup Space /\ (i = 1 <=> current \in Level1) /\ new \in Nat
  BY NewTable, Sizes
<1>2. created \in 0 .. PagingSpace /\ new + 1 = NumBoot + created' /\ new = NumBoot + created BY <1>1, Sizes DEF TypeOK
<1> HIDE DEF new
<1>3. \A t \in Boot \cup Space, e \in Index :
          tables'[t][e] = IF t = current /\ e = index THEN new ELSE tables[t][e]
  BY <1>1 DEF TypeOK
<1>4. pml4 \in Boot \cup Space /\ Level1 \subseteq Boot \cup Space /\ Level0 \subseteq Boot \cup Space
      /\ pml4 \notin Level1 /\ Level1 \cap Level0 = {}
  BY Sizes, TreeFacts
<1>5. Level1' = IF current = pml4 THEN Level1 \cup {new} ELSE Level1
  BY <1>1, <1>3, <1>4 DEF Level1, Children
<1>6. \A e \in Index : tables'[new][e] = EMPTY BY <1>1, <1>3
<1>7. Level0' = IF current = pml4 THEN Level0 ELSE Level0 \cup {new}
  <2>1. CASE current = pml4
    <3>1. \A t \in Level1, e \in Index : tables'[t][e] = tables[t][e] BY <1>3, <1>4, <2>1
    <3>2. {tables'[t][e] : t \in Level1', e \in Index} \ {EMPTY} = {tables[t][e] : t \in Level1, e \in Index} \ {EMPTY}
      BY <1>5, <1>6, <2>1, <3>1
    <3> QED BY <2>1, <3>2 DEF Level0, Children
  <2>2. CASE current # pml4
    <3>1. current \in Level1 BY <1>1, <2>2
    <3>2. {tables'[t][e] : t \in Level1, e \in Index} \ {EMPTY}
             = ({tables[t][e] : t \in Level1, e \in Index} \ {EMPTY}) \cup {new}
      BY <1>1, <1>3, <1>4, <3>1
    <3> QED BY <1>5, <2>2, <3>2 DEF Level0, Children
  <2> QED BY <2>1, <2>2
<1>8. Level1' \cap Level0' = {} BY <1>1, <1>4, <1>5, <1>7
<1>9. Level1' \cup Level0' \subseteq (0 .. NumBoot + created' - 1) \ {pml4}
  <2>1. \A t \in Level1 \cup Level0 : t \in Nat /\ t < NumBoot + created /\ t # pml4 BY TreeFacts, Sizes
  <2>2. \A t \in Level1 \cup Level0 \cup {new} : t \in 0 .. NumBoot + created' - 1 BY <2>1, <1>1, <1>2, Sizes
  <2> QED BY <2>1, <2>2, <1>1, <1>5, <1>7
<1>10. ASSUME NEW t \in {pml4} \cup Level1', NEW u \in {pml4} \cup Level1', NEW e \in Index, NEW f \in Index,
              tables'[t][e] # EMPTY, tables'[t][e] = tables'[u][f]
       PROVE  t = u /\ e = f
  <2>1. t # new /\ u # new BY <1>6, <1>10
  <2>2. t \in {pml4} \cup Level1 /\ u \in {pml4} \cup Level1 BY <1>5, <2>1
  <2>3. tables[t][e] # new /\ tables[u][f] # new BY <1>1, <2>2, TreeFacts
  <2>4. CASE (t = current /\ e = index) \/ (u = current /\ f = index)
    BY <1>3, <1>4, <1>10, <2>2, <2>3, <2>4
  <2>5. CASE ~(t = current /\ e = index) /\ ~(u = current /\ f = index)
    <3>1. tables[t][e] # EMPTY /\ tables[t][e] = tables[u][f] BY <1>3, <1>4, <1>10, <2>2, <2>5
    <3> QED BY <2>2, <3>1, TreeFacts
  <2> QED BY <2>4, <2>5
<1>11. \A t, u \in {pml4} \cup Level1', e, f \in Index :
           tables'[t][e] # EMPTY /\ tables'[t][e] = tables'[u][f] => t = u /\ e = f
  BY <1>10
<1> QED BY <1>8, <1>9, <1>11 DEF TablesFormTree, FormTree, Level1, Level0

(* No page is mapped yet by the way of an empty table.                     *)
LEMMA CreateTranslates ==
    ASSUME TypeOK, TablesFormTree, UnusedEmpty, WalkInv, CreateTable, NEW v \in Pages
    PROVE  Translate(v)' = Translate(v)
<1> DEFINE new == NumBoot + created
           a == TableIndex(v, 2)
           b == TableIndex(v, 1)
           c == TableIndex(v, 0)
<1>1. /\ new \in Space /\ new \notin Level1 \cup Level0 \cup {pml4} /\ \A e \in Index : tables[new][e] = EMPTY
      /\ tables' = [tables EXCEPT ![current][index] = new]
      /\ current \in {pml4} \cup Level1 /\ index \in Index /\ tables[current][index] = EMPTY /\ new # EMPTY
      /\ new # current /\ current \in Boot \cup Space
  BY NewTable
<1>2. a \in Index /\ b \in Index /\ c \in Index BY Sizes
<1>3. \A t \in Boot \cup Space, e \in Index :
          tables'[t][e] = IF t = current /\ e = index THEN new ELSE tables[t][e]
  BY <1>1 DEF TypeOK
<1>4. /\ pml4 \in Boot \cup Space /\ Level1 \subseteq Boot \cup Space /\ Level0 \subseteq Boot \cup Space
      /\ pml4 \notin Level1 /\ Level1 \cap Level0 = {} /\ EMPTY \notin Level1 \cup Level0 /\ pml4 # EMPTY
      /\ pml4 \notin Level0
  <2>1. pml4 \in Nat /\ EMPTY \notin Boot \cup Space /\ pml4 # EMPTY BY Sizes
  <2>2. pml4 \in Boot \cup Space BY Sizes
  <2> QED BY <2>1, <2>2, TreeFacts
<1>5. \A e \in Index : tables'[new][e] = EMPTY BY <1>1, <1>3
<1> DEFINE x == tables[pml4][a]
           y == tables[x][b]
           x1 == tables'[pml4][a]
           y1 == tables'[x1][b]
<1>6. Translate(v) = IF x = EMPTY THEN EMPTY ELSE IF y = EMPTY THEN EMPTY ELSE tables[y][c]
  BY <1>4 DEF Translate, Entry
<1>7. Translate(v)' = IF x1 = EMPTY THEN EMPTY ELSE IF y1 = EMPTY THEN EMPTY ELSE tables'[y1][c]
  BY <1>4 DEF Translate, Entry
<1>8. x # EMPTY => x \in Level1 BY <1>2, TreeFacts
<1>9. x # EMPTY /\ y # EMPTY => y \in Level0 BY <1>2, <1>8, TreeFacts
<1> HIDE DEF a, b, c, new
<1>10. CASE current = pml4 /\ index = a
  <2>1. x = EMPTY /\ x1 = new BY <1>1, <1>2, <1>3, <1>4, <1>10
  <2>2. y1 = EMPTY BY <1>2, <1>5, <2>1
  <2> QED BY <1>6, <1>7, <2>1, <2>2
<1>11. CASE ~(current = pml4 /\ index = a)
  <2>1. x1 = x BY <1>2, <1>3, <1>4, <1>11
  <2>2. CASE x = EMPTY BY <1>6, <1>7, <2>1, <2>2
  <2>3. CASE x # EMPTY /\ current = x /\ index = b
    <3>1. y = EMPTY /\ y1 = new BY <1>1, <1>2, <1>3, <2>1, <2>3
    <3>2. tables'[y1][c] = EMPTY BY <1>2, <1>5, <3>1
    <3> QED BY <1>6, <1>7, <2>1, <3>1, <3>2
  <2>4. CASE x # EMPTY /\ ~(current = x /\ index = b)
    <3>1. y1 = y BY <1>2, <1>3, <1>4, <1>8, <2>1, <2>4
    <3>2. y # EMPTY => tables'[y][c] = tables[y][c] BY <1>1, <1>2, <1>3, <1>4, <1>9, <2>4
    <3> QED BY <1>6, <1>7, <2>1, <3>1, <3>2
  <2> QED BY <2>2, <2>3, <2>4
<1> QED BY <1>10, <1>11

-----------------------------------------------------------------------------
(* The last level: the entry Map writes is of page vAddr(p) only.          *)
LEMMA SetTables ==
    ASSUME TypeOK, TablesFormTree, WalkInv, SetPage
    PROVE  /\ tables' = [tables EXCEPT ![current][index] = pAddr(p)] /\ created' = created
           /\ current \in Level0 /\ current \notin Level1 \cup {pml4} /\ current \in Boot \cup Space /\ index \in Index
           /\ \A t \in Boot \cup Space, e \in Index :
                 tables'[t][e] = IF t = current /\ e = index THEN pAddr(p) ELSE tables[t][e]
           /\ \A t \in Level1 \cup {pml4} : tables'[t] = tables[t]
<1>1. current \in Level0 /\ index \in Index BY PlaceOfWalk DEF SetPage
<1>2. current \notin Level1 \cup {pml4} BY <1>1, TreeFacts
<1>3. tables' = [tables EXCEPT ![current][index] = pAddr(p)] /\ created' = created BY DEF SetPage
<1>4. Level1 \cup {pml4} \subseteq Boot \cup Space BY TreeFacts, Sizes
<1> QED BY <1>1, <1>2, <1>3, <1>4 DEF TypeOK

LEMMA SetTree ==
    ASSUME TypeOK, TablesFormTree, WalkInv, SetPage
    PROVE  TablesFormTree'
<1>1. \A t \in Level1 \cup {pml4} : tables'[t] = tables[t] BY SetTables
<1>2. Level1' = Level1 BY <1>1 DEF Level1, Children
<1>3. Level0' = Level0
  <2>1. Children(tables', Level1) = Children(tables, Level1) BY <1>1, ChildrenSame
  <2>2. Level0' = Children(tables', Level1') BY DEF Level0
  <2> QED BY <1>2, <2>1, <2>2 DEF Level0
<1>4. created' = created BY SetTables
<1>5. /\ Level1 \cup Level0 \subseteq (0 .. NumBoot + created - 1) \ {pml4} /\ Level1 \cap Level0 = {}
      /\ \A t, u \in {pml4} \cup Level1, e, f \in Index :
                 tables[t][e] # EMPTY /\ tables[t][e] = tables[u][f] => t = u /\ e = f
  BY DEF TablesFormTree, FormTree, Level1, Level0
<1>6. \A t, u \in {pml4} \cup Level1', e, f \in Index :
          tables'[t][e] # EMPTY /\ tables'[t][e] = tables'[u][f] => t = u /\ e = f
  BY <1>1, <1>2, <1>5
<1> QED BY <1>2, <1>3, <1>4, <1>5, <1>6 DEF TablesFormTree, FormTree, Level1, Level0

LEMMA SetTranslates ==
    ASSUME TypeOK, TablesFormTree, WalkInv, SetPage, NEW v \in Pages
    PROVE  Translate(v)' = IF v = vAddr(p) THEN pAddr(p) ELSE Translate(v)
<1> DEFINE w == vAddr(p)
           x == tables[pml4][TableIndex(v, 2)]
           y == tables[x][TableIndex(v, 1)]
           xw == tables[pml4][TableIndex(w, 2)]
<1>1. /\ w \in Pages /\ xw # EMPTY /\ current = tables[xw][TableIndex(w, 1)] /\ index = TableIndex(w, 0)
      /\ current # EMPTY /\ xw \in Level1
  BY PageOfWalk, PlaceOfWalk DEF SetPage, WalkInv, Table1, index
<1>2. \A k \in 0 .. 2 : TableIndex(v, k) \in Index /\ TableIndex(w, k) \in Index BY <1>1, Sizes
<1>3. /\ current \in Level0 /\ current \notin Level1 \cup {pml4}
      /\ \A t \in Boot \cup Space, e \in Index :
            tables'[t][e] = IF t = current /\ e = index THEN pAddr(p) ELSE tables[t][e]
      /\ \A t \in Level1 \cup {pml4} : tables'[t] = tables[t]
  BY SetTables
<1>4. EMPTY # pml4 BY Sizes
<1>5. Translate(v) = IF x = EMPTY THEN EMPTY ELSE IF y = EMPTY THEN EMPTY ELSE tables[y][TableIndex(v, 0)]
  BY <1>4 DEF Translate, Entry
<1>6. x # EMPTY => x \in Level1 BY <1>2, TreeFacts
<1>7. Translate(v)' = IF x = EMPTY THEN EMPTY ELSE IF y = EMPTY THEN EMPTY ELSE tables'[y][TableIndex(v, 0)]
  BY <1>3, <1>4, <1>6 DEF Translate, Entry
<1>8. x # EMPTY /\ y # EMPTY => y \in Level0 /\ y \in Boot \cup Space BY <1>2, <1>6, TreeFacts
<1> HIDE DEF w
<1>9. CASE x = EMPTY
  <2>1. v # w BY <1>1, <1>9
  <2> QED BY <1>5, <1>7, <1>9, <2>1 DEF w
<1>10. CASE x # EMPTY /\ y = EMPTY
  <2>1. v # w BY <1>1, <1>10
  <2> QED BY <1>5, <1>7, <1>10, <2>1 DEF w
<1>11. CASE x # EMPTY /\ y # EMPTY /\ y # current
  <2>1. v # w BY <1>1, <1>11
  <2>2. tables'[y][TableIndex(v, 0)] = tables[y][TableIndex(v, 0)] BY <1>2, <1>3, <1>8, <1>11
  <2> QED BY <1>5, <1>7, <1>11, <2>1, <2>2 DEF w
<1>12. CASE x # EMPTY /\ y = current
  <2>1. x = xw /\ TableIndex(v, 1) = TableIndex(w, 1) BY <1>1, <1>2, <1>6, <1>12, TreeFacts
  <2>2. TableIndex(v, 2) = TableIndex(w, 2) BY <1>1, <1>2, <1>12, <2>1, TreeFacts
  <2>3. CASE TableIndex(v, 0) = index
    <3>1. \A k \in 0 .. 2 : TableIndex(v, k) = TableIndex(w, k) BY <1>1, <2>1, <2>2, <2>3
    <3>2. v = w BY <1>1, <3>1, IndicesIdentify
    <3>3. tables'[y][TableIndex(v, 0)] = pAddr(p) BY <1>2, <1>3, <1>8, <1>1, <1>12, <2>3
    <3> QED BY <1>1, <1>7, <1>12, <3>2, <3>3 DEF w
  <2>4. CASE TableIndex(v, 0) # index
    <3>1. v # w BY <1>1, <2>4
    <3>2. tables'[y][TableIndex(v, 0)] = tables[y][TableIndex(v, 0)] BY <1>2, <1>3, <1>8, <1>1, <1>12, <2>4
    <3> QED BY <1>1, <1>5, <1>7, <1>12, <3>1, <3>2 DEF w
  <2> QED BY <2>3, <2>4
<1> QED BY <1>9, <1>10, <1>11, <1>12

-----------------------------------------------------------------------------
LEMMA Initially == Init => Inv
<1> SUFFICES ASSUME Init PROVE Inv OBVIOUS
<1>1. created = 0 /\ p = 0 /\ req = [physical |-> 0, address |-> 0, numPages |-> 0] /\ pc = "idle" BY DEF Init
<1>2. tables \in [Boot \cup Space -> [Index -> Nat \cup {EMPTY}]] /\ \A t \in Boot : tables[t] = BootTables[t]
  BY PagingAssumption DEF Init
<1>3. TablesFormTree
  <2>1. FormTree(BootTables, Boot) BY BootIsTree
  <2>2. 0 .. NumBoot + created - 1 = Boot BY <1>1, Sizes DEF Boot
  <2>3. Children(BootTables, {pml4}) = Level1
    <3>1. \A t \in {pml4} : BootTables[t] = tables[t] BY <1>2, Sizes
    <3> QED BY <3>1, ChildrenSame DEF Level1
  <2>4. Level1 \subseteq Boot BY <2>1, <2>3 DEF FormTree
  <2>5. Children(BootTables, Level1) = Level0
    <3>1. \A t \in Level1 : BootTables[t] = tables[t] BY <1>2, <2>4
    <3> QED BY <3>1, ChildrenSame DEF Level0
  <2>6. /\ Level1 \cup Level0 \subseteq Boot \ {pml4} /\ Level1 \cap Level0 = {}
        /\ \A t, u \in {pml4} \cup Level1, e, f \in Index :
              BootTables[t][e] # EMPTY /\ BootTables[t][e] = BootTables[u][f] => t = u /\ e = f
    BY <2>1, <2>3, <2>5 DEF FormTree
  <2>7. \A t, u \in {pml4} \cup Level1, e, f \in Index :
              tables[t][e] # EMPTY /\ tables[t][e] = tables[u][f] => t = u /\ e = f
    BY <1>2, <2>4, <2>6, Sizes
  <2> QED BY <2>2, <2>6, <2>7 DEF TablesFormTree, FormTree, Level1, Level0
<1>4. UnusedEmpty
  <2>1. \A t \in Space : t \notin Boot BY Sizes DEF Boot, Space
  <2> QED BY <2>1 DEF Init, UnusedEmpty
<1>5. before \in [Pages -> Nat \cup {EMPTY}] /\ \A v \in Pages : Translate(v) = before[v]
  <2>1. created \in 0 .. PagingSpace BY <1>1, Sizes
  <2>2. \A v \in Pages : Translate(v) \in Nat \cup {EMPTY} BY <1>2, <1>3, <2>1, TranslatesToFrame
  <2> QED BY <2>2 DEF Init
<1>6. TypeOK
  <2>1. req \in [physical : Nat, address : Nat, numPages : Nat] BY <1>1
  <2>2. created \in 0 .. PagingSpace /\ calls \in 0 .. MaxCalls /\ i \in 0 .. PAGING_LEVELS - 1
    BY Sizes DEF Init, PAGING_LEVELS
  <2>3. current \in Boot \cup Space BY Sizes DEF Init
  <2>4. ready \in BOOLEAN /\ pc \in {"idle", "walk"} /\ p \in Nat /\ result \in {"none", "true", "false"}
    BY DEF Init
  <2> QED BY <1>2, <1>5, <2>1, <2>2, <2>3, <2>4 DEF TypeOK
<1>7. WalkInv BY <1>1 DEF WalkInv
<1>8. MapEffect BY <1>1, <1>5 DEF MapEffect
<1>9. ResultIsHonest BY DEF Init, ResultIsHonest
<1> QED BY <1>3, <1>4, <1>6, <1>7, <1>8, <1>9 DEF Inv

-----------------------------------------------------------------------------
(* Steps that change no table.                                             *)
SameTables == UNCHANGED <<tables, created>>

LEMMA SameTablesKeeps ==
    ASSUME SameTables
    PROVE  /\ TablesFormTree => TablesFormTree'
           /\ UnusedEmpty => UnusedEmpty'
           /\ \A v : Translate(v)' = Translate(v) /\ Table1(v)' = Table1(v)
BY DEF SameTables, TablesFormTree, UnusedEmpty, Translate, Entry, Table1

LEMMA CallKeeps ==
    ASSUME Inv, NEW f \in Frames, NEW a \in Pages, NEW n \in Counts, MapCall(f, a, n)
    PROVE  Inv'
<1> USE DEF Inv
<1>1. /\ n \in Nat /\ n # 0 /\ a \in Nat /\ f \in Nat /\ a + n - 1 \in Pages /\ ready
      /\ req' = [physical |-> f, address |-> a, numPages |-> n] /\ pc' = "walk" /\ p' = 0
      /\ i' = 2 /\ current' = pml4 /\ result' = "none" /\ before' = [v \in Pages |-> Translate(v)]
      /\ calls' = calls + 1 /\ calls < MaxCalls /\ UNCHANGED <<tables, ready, created>>
  BY Sizes DEF MapCall, PAGING_LEVELS
<1>2. SameTables BY <1>1 DEF SameTables
<1>3. TypeOK'
  <2>1. before' \in [Pages -> Nat \cup {EMPTY}]
    <3>1. \A v \in Pages : Translate(v) \in Nat \cup {EMPTY} BY TranslatesToFrame DEF TypeOK
    <3> QED BY <1>1, <3>1
  <2>2. req' \in [physical : Nat, address : Nat, numPages : Nat] BY <1>1
  <2>3. calls' \in 0 .. MaxCalls /\ i' \in 0 .. PAGING_LEVELS - 1 /\ current' \in Boot \cup Space
    BY <1>1, Sizes DEF TypeOK, PAGING_LEVELS
  <2>4. /\ tables' \in [Boot \cup Space -> [Index -> Nat \cup {EMPTY}]] /\ ready' \in BOOLEAN
        /\ created' \in 0 .. PagingSpace /\ p' \in Nat /\ pc' \in {"idle", "walk"} /\ result' \in {"none", "true", "false"}
    BY <1>1 DEF TypeOK
  <2> QED BY <2>1, <2>2, <2>3, <2>4 DEF TypeOK
<1>4. WalkInv' BY <1>1 DEF WalkInv
<1>5. MapEffect'
  <2>1. \A v \in Pages : before'[v] = Translate(v)' BY <1>1, <1>2, SameTablesKeeps
  <2>2. req'.address + p' - 1 < req'.address /\ req'.address \in Nat BY <1>1
  <2>3. \A v \in Pages : v \notin req'.address .. req'.address + p' - 1 BY <2>2, <1>1, Sizes
  <2> QED BY <2>1, <2>3 DEF MapEffect
<1>6. ResultIsHonest' BY <1>1 DEF ResultIsHonest
<1> QED BY <1>2, <1>3, <1>4, <1>5, <1>6, SameTablesKeeps

LEMMA RefusedKeeps ==
    ASSUME Inv, NEW n \in Counts \cup {0}, MapRefused(n)
    PROVE  Inv'
<1> USE DEF Inv
<1>1. /\ pc = "idle" /\ result' = "false" /\ calls' = calls + 1 /\ calls < MaxCalls
      /\ req' = [req EXCEPT !.numPages = 0] /\ p' = 0 /\ before' = [v \in Pages |-> Translate(v)]
      /\ UNCHANGED <<tables, ready, created, pc, i, current>>
  BY DEF MapRefused
<1>2. SameTables BY <1>1 DEF SameTables
<1>3. req' \in [physical : Nat, address : Nat, numPages : Nat] /\ req'.numPages = 0 /\ req'.address \in Nat
  BY <1>1 DEF TypeOK
<1>4. TypeOK'
  <2>1. before' \in [Pages -> Nat \cup {EMPTY}]
    <3>1. \A v \in Pages : Translate(v) \in Nat \cup {EMPTY} BY TranslatesToFrame DEF TypeOK
    <3> QED BY <1>1, <3>1
  <2>2. calls' \in 0 .. MaxCalls BY <1>1, Sizes DEF TypeOK
  <2> QED BY <1>1, <1>3, <2>1, <2>2 DEF TypeOK
<1>5. WalkInv' BY <1>1, <1>3 DEF WalkInv
<1>6. MapEffect'
  <2>1. \A v \in Pages : before'[v] = Translate(v)' BY <1>1, <1>2, SameTablesKeeps
  <2>2. \A v \in Pages : v \notin req'.address .. req'.address + p' - 1 BY <1>1, <1>3, Sizes
  <2> QED BY <2>1, <2>2 DEF MapEffect
<1>7. ResultIsHonest' BY <1>1, <1>3 DEF ResultIsHonest
<1> QED BY <1>2, <1>4, <1>5, <1>6, <1>7, SameTablesKeeps

(* PagingInit, a step down the tree, and giving up.                        *)
LEMMA WalkKeeps ==
    ASSUME Inv, PagingInit \/ Descend \/ OutOfSpace
    PROVE  Inv'
<1> USE DEF Inv
<1>1. UNCHANGED <<tables, created, req, p, before, calls>> BY DEF PagingInit, Descend, OutOfSpace, locals
<1>2. SameTables BY <1>1 DEF SameTables
<1>3. MapEffect' BY <1>1, <1>2, SameTablesKeeps DEF MapEffect
<1>4. CASE PagingInit
  <2>1. TypeOK' BY <1>4 DEF PagingInit, TypeOK, locals
  <2>2. WalkInv' BY <1>1, <1>2, <1>4, SameTablesKeeps DEF PagingInit, WalkInv, locals, vAddr, Table1
  <2>3. ResultIsHonest' BY <1>4 DEF PagingInit, ResultIsHonest, locals
  <2> QED BY <1>2, <1>3, <2>1, <2>2, <2>3, SameTablesKeeps
<1>5. CASE OutOfSpace
  <2>1. TypeOK' BY <1>5 DEF OutOfSpace, TypeOK, locals
  <2>2. WalkInv' BY <1>5 DEF OutOfSpace, WalkInv, locals
  <2>3. created = PagingSpace
    <3>1. created \in 0 .. PagingSpace /\ ~(created < PagingSpace) BY <1>5 DEF OutOfSpace, SpaceLeft, TypeOK
    <3> QED BY <3>1, Sizes
  <2>4. ResultIsHonest' BY <1>1, <1>5, <2>3 DEF OutOfSpace, ResultIsHonest
  <2> QED BY <1>2, <1>3, <2>1, <2>2, <2>4, SameTablesKeeps
<1>6. CASE Descend
  <2>1. /\ pc = "walk" /\ pc' = "walk" /\ i \in 1 .. 2 /\ i' = i - 1 /\ tables[current][index] # EMPTY
        /\ current' = tables[current][index] /\ UNCHANGED <<ready, pc, req, p, result>>
    BY <1>6 DEF Descend, TypeOK, PAGING_LEVELS
  <2>2. current' \in Boot \cup Space
    <3>1. current \in {pml4} \cup Level1 /\ index \in Index BY <2>1, PlaceOfWalk
    <3> QED BY <2>1, <3>1, TreeFacts
  <2>3. TypeOK'
    <3>1. i' \in 0 .. PAGING_LEVELS - 1 BY <2>1 DEF PAGING_LEVELS
    <3> QED BY <1>1, <2>1, <2>2, <3>1 DEF TypeOK
  <2>4. vAddr(p)' = vAddr(p) /\ Table1(vAddr(p))' = Table1(vAddr(p)) BY <1>1 DEF vAddr, Table1
  <2>5. WalkInv'
    <3>1. CASE i = 2
      <4>1. i' = 1 /\ current' = Table1(vAddr(p)) BY <2>1, <3>1 DEF WalkInv, Table1, index
      <4> QED BY <1>1, <2>1, <2>4, <4>1 DEF WalkInv
    <3>2. CASE i = 1
      <4>1. i' = 0 /\ current = Table1(vAddr(p)) /\ current' = tables[current][TableIndex(vAddr(p), 1)]
        BY <2>1, <3>2 DEF WalkInv, index
      <4>2. current # EMPTY BY <2>1, PlaceOfWalk
      <4> QED BY <1>1, <2>1, <2>4, <4>1, <4>2 DEF WalkInv
    <3> QED BY <2>1, <3>1, <3>2
  <2>6. ResultIsHonest' BY <1>1, <2>1 DEF ResultIsHonest
  <2> QED BY <1>2, <1>3, <2>3, <2>5, <2>6, SameTablesKeeps
<1> QED BY <1>4, <1>5, <1>6

LEMMA CreateKeeps == ASSUME Inv, CreateTable PROVE Inv'
<1> USE DEF Inv
<1> DEFINE new == NumBoot + created
<1>1. /\ new \in Space /\ new \notin Level1 \cup Level0 \cup {pml4} /\ new # EMPTY /\ new \in Nat
      /\ tables' = [tables EXCEPT ![current][index] = new] /\ created' = created + 1 /\ created < PagingSpace
      /\ current \in {pml4} \cup Level1 /\ index \in Index /\ current \in Boot \cup Space
      /\ i \in 1 .. 2 /\ (i = 1 <=> current \in Level1) /\ created \in Nat
  BY NewTable, Sizes DEF TypeOK
<1>2. /\ pc = "walk" /\ current' = new /\ i' = i - 1
      /\ UNCHANGED <<ready, pc, req, p, result, calls, before>>
  BY DEF CreateTable
<1>3. \A t \in Boot \cup Space, e \in Index :
          tables'[t][e] = IF t = current /\ e = index THEN new ELSE tables[t][e]
  BY <1>1 DEF TypeOK
<1>4. TypeOK'
  <2>1. tables' \in [Boot \cup Space -> [Index -> Nat \cup {EMPTY}]] BY <1>1 DEF TypeOK
  <2>2. created' \in 0 .. PagingSpace /\ i' \in 0 .. PAGING_LEVELS - 1 BY <1>1, <1>2, Sizes DEF PAGING_LEVELS
  <2> QED BY <1>1, <1>2, <2>1, <2>2 DEF TypeOK
<1>5. TablesFormTree' BY CreateTree
<1>6. UnusedEmpty'
  <2>1. current < NumBoot + created
    <3>1. pml4 < NumBoot + created BY <1>1, Sizes DEF pml4
    <3> QED BY <1>1, <3>1, TreeFacts
  <2>2. ASSUME NEW t \in Space, t >= NumBoot + created', NEW e \in Index PROVE tables'[t][e] = EMPTY
    <3>1. t >= NumBoot + created /\ t # current BY <1>1, <2>1, <2>2, Sizes
    <3> QED BY <1>3, <3>1 DEF UnusedEmpty
  <2> QED BY <2>2 DEF UnusedEmpty
<1>7. vAddr(p)' = vAddr(p) /\ vAddr(p) \in Pages BY <1>2, PageOfWalk DEF vAddr
<1>8. \A k \in 0 .. 2 : TableIndex(vAddr(p), k) \in Index BY <1>7, Sizes
<1>9. WalkInv'
  <2>1. CASE i = 2
    <3>1. current = pml4 /\ index = TableIndex(vAddr(p), 2) BY <2>1, <1>2 DEF WalkInv, index
    <3>2. Table1(vAddr(p))' = new BY <1>1, <1>3, <1>7, <3>1 DEF Table1
    <3> HIDE DEF new
    <3> QED BY <1>2, <1>7, <2>1, <3>2 DEF WalkInv
  <2>2. CASE i = 1
    <3>1. current = Table1(vAddr(p)) /\ index = TableIndex(vAddr(p), 1) /\ current # EMPTY
      BY <2>2, <1>2, PlaceOfWalk DEF WalkInv, index
    <3>2. current # pml4 /\ pml4 \in Boot BY <1>1, <2>2, TreeFacts, Sizes
    <3>3. Table1(vAddr(p))' = current BY <1>3, <1>7, <1>8, <3>1, <3>2 DEF Table1
    <3>4. tables'[current][TableIndex(vAddr(p), 1)] = new BY <1>1, <1>3, <3>1
    <3> HIDE DEF new
    <3> QED BY <1>2, <1>7, <2>2, <3>1, <3>3, <3>4 DEF WalkInv
  <2> QED BY <1>1, <2>1, <2>2
<1>10. MapEffect' BY <1>2, CreateTranslates DEF MapEffect
<1>11. ResultIsHonest' BY <1>2 DEF ResultIsHonest, WalkInv
<1> QED BY <1>4, <1>5, <1>6, <1>9, <1>10, <1>11

LEMMA SetKeeps == ASSUME Inv, SetPage PROVE Inv'
<1> USE DEF Inv
<1>1. /\ pc = "walk" /\ i = 0 /\ p' = p + 1 /\ UNCHANGED <<ready, created, req, calls, before>>
      /\ \/ p + 1 < req.numPages /\ i' = 2 /\ current' = pml4 /\ UNCHANGED <<pc, result>>
         \/ ~(p + 1 < req.numPages) /\ pc' = "idle" /\ result' = "true" /\ UNCHANGED <<i, current>>
  BY DEF SetPage, NextPage, PAGING_LEVELS
<1>2. /\ p \in Nat /\ req.numPages \in Nat /\ p < req.numPages /\ pAddr(p) \in Nat /\ vAddr(p) \in Pages
      /\ req.address \in Nat /\ req.physical \in Nat
  BY <1>1, PageOfWalk DEF TypeOK, WalkInv
<1>3. TypeOK'
  <2>1. tables' \in [Boot \cup Space -> [Index -> Nat \cup {EMPTY}]] BY <1>2, SetTables DEF TypeOK
  <2>2. i' \in 0 .. PAGING_LEVELS - 1 /\ current' \in Boot \cup Space /\ pc' \in {"idle", "walk"}
        /\ result' \in {"none", "true", "false"} /\ p' \in Nat
    BY <1>1, <1>2, Sizes DEF TypeOK, PAGING_LEVELS
  <2> QED BY <1>1, <2>1, <2>2 DEF TypeOK
<1>4. TablesFormTree' BY SetTree
<1>5. UnusedEmpty'
  <2>1. current < NumBoot + created BY SetTables, TreeFacts
  <2>2. ASSUME NEW t \in Space, t >= NumBoot + created, NEW e \in Index PROVE tables'[t][e] = EMPTY
    <3>1. created \in Nat /\ NumBoot + created \in Nat /\ t \in Nat BY Sizes DEF TypeOK
    <3>2. current \in Nat BY SetTables, Sizes
    <3>3. t # current BY <2>1, <2>2, <3>1, <3>2
    <3> QED BY <2>2, <3>3, SetTables DEF UnusedEmpty
  <2> QED BY <1>1, <2>2 DEF UnusedEmpty
<1>6. WalkInv' BY <1>1, <1>2 DEF WalkInv
<1>7. MapEffect'
  <2> SUFFICES ASSUME req.numPages <= Wrap, NEW v \in Pages
               PROVE  Translate(v)' = IF v \in req.address .. req.address + (p + 1) - 1
                                      THEN req.physical + (v - req.address) ELSE before[v]
    BY <1>1 DEF MapEffect
  <2>1. vAddr(p) = req.address + p /\ pAddr(p) = req.physical + p BY <1>1, PageOfWalk
  <2>2. Translate(v) = IF v \in req.address .. req.address + p - 1
                       THEN req.physical + (v - req.address) ELSE before[v]
    BY DEF MapEffect
  <2>3. Translate(v)' = IF v = vAddr(p) THEN pAddr(p) ELSE Translate(v) BY SetTranslates
  <2>4. v \in Nat BY Sizes
  <2>5. CASE v = req.address + p
    <3>1. v \in req.address .. req.address + (p + 1) - 1 /\ req.physical + (v - req.address) = req.physical + p
      BY <1>2, <2>5
    <3> QED BY <2>1, <2>3, <2>5, <3>1
  <2>6. CASE v # req.address + p
    <3>1. v \in req.address .. req.address + (p + 1) - 1 <=> v \in req.address .. req.address + p - 1
      BY <1>2, <2>4, <2>6
    <3> QED BY <2>1, <2>2, <2>3, <2>6, <3>1
  <2> QED BY <2>5, <2>6
<1>8. ResultIsHonest' BY <1>1, <1>2 DEF ResultIsHonest, WalkInv
<1> QED BY <1>3, <1>4, <1>5, <1>6, <1>7, <1>8

LEMMA StutterKeeps == ASSUME Inv, UNCHANGED vars PROVE Inv'
<1> USE DEF Inv, vars, locals
<1>1. SameTables BY DEF SameTables
<1>2. TypeOK' BY DEF TypeOK
<1>3. WalkInv' BY <1>1, SameTablesKeeps DEF WalkInv, vAddr, Table1
<1>4. MapEffect' /\ ResultIsHonest' BY <1>1, SameTablesKeeps DEF MapEffect, ResultIsHonest
<1> QED BY <1>1, <1>2, <1>3, <1>4, SameTablesKeeps

(* The inductive invariant: the tables are a tree, those in the paging     *)
(* space are empty, and the walk is where the indices of its page lead.    *)
THEOREM PagingInvariance == Spec => []Inv
<1>1. Inv /\ [Next]_vars => Inv'
  BY CallKeeps, RefusedKeeps, WalkKeeps, CreateKeeps, SetKeeps, StutterKeeps DEF Next
<1> QED BY <1>1, Initially, PTL DEF Spec

(* Every table, entry and local keeps its range; no more tables are taken  *)
(* than Paging::Init was given.                                            *)
THEOREM PagingTypeCorrect == Spec => []TypeOK
BY PagingInvariance, PTL DEF Inv

(* No two entries ever lead to the same table.                             *)
THEOREM TablesStayTree == Spec => []TablesFormTree
BY PagingInvariance, PTL DEF Inv

(* Map maps the pages of its request to its frames, one by one, and no     *)
(* other page, whatever was mapped before and wherever it stops.           *)
THEOREM MapDoesItsWork == Spec => []MapEffect
BY PagingInvariance, PTL DEF Inv

(* True means all pages are mapped; false, that there was no table left.   *)
THEOREM ResultsAreHonest == Spec => []ResultIsHonest
BY PagingInvariance, PTL DEF Inv

-----------------------------------------------------------------------------
(* What the steps of Map look like to its callers.  Only SetPage changes a *)
(* translation; linking a new table is a step they do not see.             *)
LEMMA SameView ==
    ASSUME \A v \in Pages : Translate(v)' = Translate(v)
    PROVE  [v \in Pages |-> Translate(v)]' = [v \in Pages |-> Translate(v)]
OBVIOUS

LEMMA SetIsMapNext ==
    ASSUME Inv, SetPage
    PROVE  AddressSpace!MapNext
<1>1. /\ \A v \in Pages : Translate(v)' = IF v = vAddr(p) THEN pAddr(p) ELSE Translate(v)
      /\ vAddr(p) \in Pages
  BY SetTranslates, PageOfWalk DEF Inv, SetPage
<1>2. [v \in Pages |-> Translate(v)]' = [[v \in Pages |-> Translate(v)] EXCEPT ![vAddr(p)] = pAddr(p)]
  BY <1>1
<1>3. /\ pc = "walk" /\ p' = p + 1 /\ req' = req
      /\ IF p' < req.numPages THEN (pc' = "walk") = (pc = "walk") /\ result' = result
                              ELSE pc' # "walk" /\ result' = "true"
  BY DEF SetPage
<1>4. vAddr(p) = req.address + (p % Wrap) /\ pAddr(p) = req.physical + (p % Wrap)
  BY DEF vAddr, pAddr
<1> QED BY <1>2, <1>3, <1>4 DEF AddressSpace!MapNext

(* To its callers the pager is AddressSpace: one page of the request at a  *)
(* time, no other page ever, and an honest answer.                         *)
THEOREM PagingImplementsAddressSpace == Spec => ImplementsAddressSpace
<1>1. Init => AddressSpace!Init
  <2> SUFFICES ASSUME Init PROVE AddressSpace!Init
    OBVIOUS
  <2>1. [v \in Pages |-> Translate(v)] = before BY DEF Init
  <2>2. before \in [Pages -> Nat \cup {EMPTY}] BY Initially DEF Inv, TypeOK
  <2> QED BY <2>1, <2>2 DEF Init, AddressSpace!Init
<1>2. Inv /\ [Next]_vars => [AddressSpace!Next]_(AddressSpace!vars)
  <2> SUFFICES ASSUME Inv, [Next]_vars PROVE [AddressSpace!Next]_(AddressSpace!vars)
    OBVIOUS
  <2>1. SameTables => [v \in Pages |-> Translate(v)]' = [v \in Pages |-> Translate(v)]
    BY SameTablesKeeps, SameView
  <2>2. CASE PagingInit \/ Descend \/ UNCHANGED vars
    BY <2>1, <2>2 DEF PagingInit, Descend, vars, locals, SameTables, AddressSpace!vars
  <2>3. CASE CreateTable
    <3>1. [v \in Pages |-> Translate(v)]' = [v \in Pages |-> Translate(v)]
      BY <2>3, CreateTranslates, SameView DEF Inv
    <3> QED BY <2>3, <3>1 DEF CreateTable, AddressSpace!vars
  <2>4. CASE OutOfSpace
    BY <2>1, <2>4 DEF OutOfSpace, locals, SameTables, AddressSpace!GiveUp, AddressSpace!Next
  <2>5. CASE SetPage
    BY <2>5, SetIsMapNext DEF AddressSpace!Next
  <2>6. ASSUME NEW n \in Counts \cup {0}, MapRefused(n) PROVE AddressSpace!Refuse
    BY <2>1, <2>6 DEF MapRefused, SameTables, AddressSpace!Refuse
  <2>7. ASSUME NEW f \in Frames, NEW a \in Pages, NEW n \in Counts, MapCall(f, a, n)
        PROVE  AddressSpace!Accept
    <3>1. f \in Nat /\ n \in Nat \ {0} BY <2>7, PagingAssumption DEF MapCall
    <3>2. req' = [physical |-> f, address |-> a, numPages |-> n] /\ a + n - 1 \in Pages
      BY <2>7 DEF MapCall
    <3>3. /\ req' \in [physical : Nat, address : Pages, numPages : Nat \ {0}]
          /\ req'.address + req'.numPages - 1 \in Pages
      BY <3>1, <3>2
    <3> QED BY <2>1, <2>7, <3>3 DEF MapCall, SameTables, AddressSpace!Accept
  <2> QED BY <2>2, <2>3, <2>4, <2>5, <2>6, <2>7 DEF Next, AddressSpace!Next
<1> QED BY <1>1, <1>2, PagingInvariance, PTL DEF Spec, ImplementsAddressSpace, AddressSpace!Spec

-----------------------------------------------------------------------------
(* Map always gets on with its request: a step of its loops goes down one  *)
(* level or on to the next page, and there are so many of both.            *)
THEOREM MapGetsOn == Spec => MapAdvances
<1> DEFINE Less == pc = "walk" /\ pc' = "walk" => StepsLeft' < StepsLeft /\ StepsLeft' > 0
<1>1. Inv /\ [Next]_vars => [Less]_vars
  <2> SUFFICES ASSUME Inv, Next, pc = "walk", pc' = "walk"
               PROVE  StepsLeft' < StepsLeft /\ StepsLeft' > 0
    BY DEF vars
  <2>1. /\ ready /\ p \in Nat /\ req.numPages \in Nat /\ p < req.numPages /\ i \in 0 .. 2
    BY DEF Inv, TypeOK, WalkInv, PAGING_LEVELS
  <2>2. Descend \/ CreateTable \/ SetPage
    BY <2>1 DEF Next, PagingInit, MapRefused, MapCall, OutOfSpace
  <2>3. CASE Descend \/ CreateTable
    <3>1. i > 0 /\ i' = i - 1 /\ p' = p /\ req' = req BY <2>3 DEF Descend, CreateTable
    <3> QED BY <2>1, <3>1 DEF StepsLeft, PAGING_LEVELS
  <2>4. CASE SetPage
    BY <2>1, <2>4 DEF SetPage, NextPage, StepsLeft, PAGING_LEVELS
  <2> QED BY <2>2, <2>3, <2>4
<1> QED BY <1>1, PagingInvariance, PTL DEF Spec, MapAdvances
=============================================================================
