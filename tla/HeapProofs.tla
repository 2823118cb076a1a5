----------------------------- MODULE HeapProofs -----------------------------
(***************************************************************************)
(* Proofs about the heap for every heap size, header size and set of       *)
(* request sizes.                                                          *)
(*                                                                         *)
(* The inductive invariant is IInv.  TypeOK, the list structure and the    *)
(* callers' blocks need each other: a merge is harmless only because       *)
(* OnlyTailFree makes its right operand the last chunk, and OnlyTailFree   *)
(* survives a split only because the list tiles the heap.                  *)
(***************************************************************************)
EXTENDS Heap, TLAPS

IInv ==
    /\ TypeOK
    /\ ListTilesHeap
    /\ HeldIsAllocated
    /\ OnlyTailFree
    /\ WalkedPast

-----------------------------------------------------------------------------
(* What MergeLeft does to the last chunk: it is dropped and its left       *)
(* neighbour now reaches the end of the heap.  This is the only merge free *)
(* ever performs.                                                          *)
LEMMA FreeMergesTail ==
    ASSUME IInv, NEW m \in DOMAIN hdr, hdr[m].allocated
    PROVE  \/ Released(m) = hdr
           \/ /\ hdr[m].next \in DOMAIN hdr
              /\ hdr[m].next = End(m)
              /\ ~hdr[hdr[m].next].allocated
              /\ hdr[hdr[m].next].next = NULL
              /\ hdr[hdr[m].next].prev = m
              /\ Released(m) = MergeLeft(hdr, hdr[m].next)
  <1>1. ~IsFree(hdr, hdr[m].prev)
    BY HeapAssumption DEF IInv, TypeOK, Chunk, ListTilesHeap, OnlyTailFree, IsFree, End
  <1>2. CASE ~IsFree(hdr, hdr[m].next)
    BY <1>1, <1>2 DEF Released
  <1>3. CASE IsFree(hdr, hdr[m].next)
    <2> DEFINE t == hdr[m].next
    <2>1. t \in DOMAIN hdr /\ t = End(m) /\ ~hdr[t].allocated /\ t # NULL
      BY <1>3 DEF IInv, ListTilesHeap, IsFree
    <2>2. hdr[t].next = NULL
      BY <2>1 DEF IInv, OnlyTailFree
    <2>3. t \in Nat /\ m \in Nat /\ t > m /\ hdr[m].size \in Nat
      BY <2>1, HeapAssumption DEF IInv, TypeOK, Chunk, End
    <2>4. hdr[t].prev # NULL /\ hdr[t].prev \in DOMAIN hdr /\ hdr[hdr[t].prev].next = t
      BY <2>1, <2>3 DEF IInv, ListTilesHeap
    <2>5. hdr[t].prev = m
      <3> DEFINE d == hdr[t].prev
      <3>1. d \in Nat /\ hdr[d].size \in Nat /\ End(d) = t
        BY <2>1, <2>4 DEF IInv, TypeOK, Chunk, ListTilesHeap
      <3>2. d < m => End(d) <= m
        BY <2>4 DEF IInv, ListTilesHeap
      <3>3. m < d => End(m) <= d
        BY <2>4 DEF IInv, ListTilesHeap
      <3> QED
        BY <2>1, <2>3, <3>1, <3>2, <3>3, HeapAssumption DEF End
    <2> QED
      BY <1>1, <1>3, <2>1, <2>2, <2>5 DEF Released
  <1> QED
    BY <1>2, <1>3

-----------------------------------------------------------------------------
LEMMA ChunkFields ==
    ASSUME NEW p \in Nat \cup {NULL}, NEW n \in Nat \cup {NULL},
           NEW a \in BOOLEAN, NEW s \in Nat
    PROVE  [prev |-> p, next |-> n, allocated |-> a, size |-> s] \in Chunk
  BY DEF Chunk

LEMMA InitIInv == Init => IInv
  <1> SUFFICES ASSUME Init PROVE IInv
    OBVIOUS
  <1>1. HeapSize - HDR \in Nat /\ HeapSize - HDR + HDR = HeapSize
    BY HeapAssumption
  <1>2. TypeOK
    BY <1>1, HeapAssumption DEF Init, TypeOK, Chunk
  <1>3. ListTilesHeap
    BY <1>1, HeapAssumption DEF Init, ListTilesHeap, End
  <1>4. HeldIsAllocated /\ OnlyTailFree /\ WalkedPast
    BY DEF Init, HeldIsAllocated, OnlyTailFree, WalkedPast
  <1> QED
    BY <1>2, <1>3, <1>4 DEF IInv

(* Steps of malloc that write no header.                                   *)
LEMMA WalkIInv ==
    ASSUME IInv,
           \/ \E n \in Requests : MallocCall(n)
           \/ MallocNext \/ MallocFail
    PROVE  IInv'
  <1>1. CASE \E n \in Requests : MallocCall(n)
    <2>1. PICK n \in Requests : MallocCall(n)
      BY <1>1
    <2>2. TypeOK' /\ HeldIsAllocated' /\ OnlyTailFree' /\ ListTilesHeap'
      BY <2>1, HeapAssumption DEF MallocCall, IInv, TypeOK, Chunk, HeldIsAllocated,
           OnlyTailFree, ListTilesHeap, End
    <2>3. WalkedPast'
      BY <2>1 DEF MallocCall, IInv, TypeOK, ListTilesHeap, WalkedPast
    <2> QED
      BY <2>2, <2>3 DEF IInv
  <1>2. CASE MallocNext
    <2>1. cur \in DOMAIN hdr /\ cur' = End(cur) /\ cur' \in DOMAIN hdr
      BY <1>2 DEF MallocNext, IInv, WalkedPast, ListTilesHeap
    <2>2. TypeOK' /\ HeldIsAllocated' /\ OnlyTailFree' /\ ListTilesHeap'
      BY <1>2, <2>1 DEF MallocNext, IInv, TypeOK, Chunk, HeldIsAllocated,
           OnlyTailFree, ListTilesHeap, End
    <2>3. ASSUME NEW c \in DOMAIN hdr, c < cur' PROVE ~Fits(c)
      <3>1. c \in Nat /\ cur \in Nat /\ hdr[cur].size \in Nat
        BY <2>1 DEF IInv, TypeOK, Chunk
      <3>2. ~(cur < c)
        <4>1. cur < c => End(cur) <= c
          BY <2>1 DEF IInv, ListTilesHeap
        <4> QED
          BY <4>1, <2>1, <2>3, <3>1, HeapAssumption DEF End
      <3>3. c < cur \/ c = cur
        BY <3>1, <3>2
      <3> QED
        BY <1>2, <3>3 DEF MallocNext, IInv, WalkedPast
    <2>4. WalkedPast'
      BY <1>2, <2>1, <2>3 DEF MallocNext, IInv, WalkedPast, Fits
    <2> QED
      BY <2>2, <2>4 DEF IInv
  <1>3. CASE MallocFail
    <2>1. TypeOK' /\ HeldIsAllocated' /\ OnlyTailFree' /\ ListTilesHeap'
      BY <1>3 DEF MallocFail, IInv, TypeOK, Chunk, HeldIsAllocated,
           OnlyTailFree, ListTilesHeap, End
    <2>2. WalkedPast'
      BY <1>3 DEF MallocFail, WalkedPast
    <2> QED
      BY <2>1, <2>2 DEF IInv
  <1> QED
    BY <1>1, <1>2, <1>3

-----------------------------------------------------------------------------
(* Steps that hand out a block.  The chunk under the cursor is the last    *)
(* one, because it is unallocated, so it reaches the end of the heap.      *)
LEMMA CursorAtTail ==
    ASSUME IInv, req # 0, Fits(cur)
    PROVE  /\ cur \in DOMAIN hdr /\ cur \in Nat /\ hdr[cur].size \in Nat
           /\ hdr[cur].next = NULL /\ End(cur) = HeapSize
           /\ ~hdr[cur].allocated /\ hdr[cur].size >= req
           /\ \A d \in DOMAIN hdr : d # cur => d < cur /\ End(d) <= cur
           /\ \A p \in DOMAIN held : p # cur + HDR
  <1>1. cur \in DOMAIN hdr /\ cur \in Nat /\ hdr[cur].size \in Nat
    BY DEF IInv, WalkedPast, TypeOK, Chunk
  <1>2. /\ hdr[cur].next = NULL /\ End(cur) = HeapSize
        /\ ~hdr[cur].allocated /\ hdr[cur].size >= req
    BY <1>1 DEF IInv, Fits, OnlyTailFree, ListTilesHeap
  <1>3. ASSUME NEW d \in DOMAIN hdr, d # cur
        PROVE  d < cur /\ End(d) <= cur
    <2>1. d \in Nat /\ hdr[d].size \in Nat /\ End(d) <= HeapSize
      BY <1>3 DEF IInv, TypeOK, Chunk, ListTilesHeap
    <2>2. cur < d => End(cur) <= d
      BY <1>1 DEF IInv, ListTilesHeap
    <2>3. d < cur
      BY <1>1, <1>2, <1>3, <2>1, <2>2, HeapAssumption DEF End
    <2> QED
      BY <1>1, <2>3 DEF IInv, ListTilesHeap
  <1>4. ASSUME NEW p \in DOMAIN held PROVE p # cur + HDR
    <2>1. p \in Nat /\ hdr[p - HDR].allocated
      BY DEF IInv, TypeOK, HeldIsAllocated
    <2> QED
      BY <1>1, <1>2, <2>1, HeapAssumption
  <1> QED
    BY <1>1, <1>2, <1>3, <1>4

LEMMA WholeIInv == IInv /\ MallocWhole => IInv'
  <1> SUFFICES ASSUME IInv, MallocWhole PROVE IInv'
    OBVIOUS
  <1>1. req # 0 /\ Fits(cur) /\ req \in Nat
    BY HeapAssumption DEF MallocWhole, IInv, TypeOK
  <1>2. /\ cur \in DOMAIN hdr /\ cur \in Nat /\ hdr[cur].size \in Nat
        /\ hdr[cur].next = NULL /\ hdr[cur].size >= req
        /\ \A d \in DOMAIN hdr : d # cur => d < cur /\ End(d) <= cur
    BY <1>1, CursorAtTail
  <1>3. /\ hdr' = [hdr EXCEPT ![cur].allocated = TRUE] /\ DOMAIN hdr' = DOMAIN hdr
        /\ held' = [p \in DOMAIN held \cup {cur + HDR} |->
                       IF p = cur + HDR THEN req ELSE held[p]]
        /\ DOMAIN held' = DOMAIN held \cup {cur + HDR}
        /\ req' = 0 /\ cur' = 0 /\ active' = active
    BY DEF MallocWhole, ReturnBlock
  <1>4. \A c \in DOMAIN hdr : /\ hdr'[c].prev = hdr[c].prev
                              /\ hdr'[c].next = hdr[c].next
                              /\ hdr'[c].size = hdr[c].size
                              /\ hdr'[c].allocated = IF c = cur THEN TRUE ELSE hdr[c].allocated
                              /\ hdr'[c] \in Chunk
    BY <1>2, <1>3, ZenonT(40) DEF IInv, TypeOK, Chunk
  <1>5. TypeOK'
    <2>1. /\ DOMAIN hdr' \subseteq Nat
          /\ hdr' \in [DOMAIN hdr' -> Chunk]
      BY <1>2, <1>3, <1>4 DEF IInv, TypeOK
    <2>2. /\ DOMAIN held' \subseteq Nat
          /\ held' \in [DOMAIN held' -> Nat \ {0}]
      BY <1>1, <1>2, <1>3, HeapAssumption DEF IInv, TypeOK
    <2> QED
      BY <1>3, <2>1, <2>2 DEF IInv, TypeOK
  <1>6. ListTilesHeap'
    BY <1>3, <1>4 DEF IInv, ListTilesHeap, End
  <1>7. HeldIsAllocated'
    <2> SUFFICES ASSUME NEW p \in DOMAIN held'
                 PROVE  /\ p - HDR \in DOMAIN hdr'
                        /\ hdr'[p - HDR].allocated
                        /\ held'[p] <= hdr'[p - HDR].size
      BY DEF HeldIsAllocated
    <2>1. CASE p = cur + HDR
      <3>1. p - HDR = cur
        BY <1>2, <2>1, HeapAssumption
      <3> QED
        BY <1>1, <1>2, <1>3, <1>4, <2>1, <3>1
    <2>2. CASE p # cur + HDR
      BY <1>3, <1>4, <2>2 DEF IInv, HeldIsAllocated
    <2> QED
      BY <2>1, <2>2
  <1>8. OnlyTailFree' /\ WalkedPast'
    BY <1>3, <1>4 DEF IInv, OnlyTailFree, WalkedPast
  <1> QED
    BY <1>5, <1>6, <1>7, <1>8 DEF IInv

LEMMA SplitIInv == IInv /\ MallocSplit => IInv'
  <1> SUFFICES ASSUME IInv, MallocSplit PROVE IInv'
    OBVIOUS
  <1> DEFINE nx == cur + HDR + req
             rest == hdr[cur].size - req - HDR
             EndN(c) == c + HDR + hdr'[c].size
  <1>1. req # 0 /\ Fits(cur) /\ req \in Nat /\ hdr[cur].size > req + HDR + MIN_CHUNK_SIZE
    <2>1. cur \in DOMAIN hdr
      BY DEF MallocSplit, IInv, WalkedPast
    <2> QED
      BY <2>1, HeapAssumption DEF MallocSplit, IInv, TypeOK, Chunk, TooSmallToSplit,
         MIN_CHUNK_SIZE
  <1>2. /\ cur \in DOMAIN hdr /\ cur \in Nat /\ hdr[cur].size \in Nat
        /\ hdr[cur].next = NULL /\ End(cur) = HeapSize
        /\ \A d \in DOMAIN hdr : d # cur => d < cur /\ End(d) <= cur
    BY <1>1, CursorAtTail
  <1>3. /\ nx \in Nat /\ rest \in Nat /\ nx > cur
        /\ nx + HDR + rest = HeapSize /\ nx < HeapSize
    BY <1>1, <1>2, HeapAssumption DEF End, MIN_CHUNK_SIZE
  <1>4. nx \notin DOMAIN hdr
    BY <1>2, <1>3
  <1>5. /\ DOMAIN hdr' = DOMAIN hdr \cup {nx}
        /\ hdr'[nx] = [prev |-> cur, next |-> NULL, allocated |-> FALSE, size |-> rest]
        /\ hdr'[cur] = [prev |-> hdr[cur].prev, next |-> nx, allocated |-> TRUE,
                        size |-> req]
        /\ \A d \in DOMAIN hdr : d # cur => hdr'[d] = hdr[d]
        /\ hdr' = [d \in DOMAIN hdr' |-> hdr'[d]]
    BY <1>2, <1>3, <1>4 DEF MallocSplit, SplitAt, SplitWith
  <1>6. /\ held' = [p \in DOMAIN held \cup {cur + HDR} |->
                       IF p = cur + HDR THEN req ELSE held[p]]
        /\ DOMAIN held' = DOMAIN held \cup {cur + HDR}
        /\ req' = 0 /\ cur' = 0 /\ active' = active
    BY DEF MallocSplit, ReturnBlock
  <1>7. TypeOK'
    <2>1. DOMAIN hdr' \subseteq Nat
      BY <1>3, <1>5 DEF IInv, TypeOK
    <2>2. ASSUME NEW d \in DOMAIN hdr' PROVE hdr'[d] \in Chunk
      <3>1. CASE d = nx
        <4> HIDE DEF nx, rest
        <4> DEFINE r == [prev |-> cur, next |-> NULL, allocated |-> FALSE, size |-> rest]
        <4>1. r \in Chunk
          BY <1>2, <1>3, ChunkFields
        <4>2. hdr'[d] = r
          BY <1>5, <3>1
        <4> QED
          BY <4>1, <4>2
      <3>2. CASE d = cur
        <4>1. hdr[cur].prev \in Nat \cup {NULL}
          BY <1>2 DEF IInv, TypeOK, Chunk
        <4> HIDE DEF nx, rest
        <4> DEFINE r == [prev |-> hdr[cur].prev, next |-> nx, allocated |-> TRUE,
                         size |-> req]
        <4>2. r \in Chunk
          BY <1>1, <1>3, <4>1, ChunkFields
        <4>3. hdr'[d] = r
          BY <1>5, <3>2
        <4> QED
          BY <4>2, <4>3
      <3>3. CASE d # nx /\ d # cur
        BY <1>5, <3>3 DEF IInv, TypeOK
      <3> QED
        BY <3>1, <3>2, <3>3
    <2>3. hdr' \in [DOMAIN hdr' -> Chunk]
      BY <1>5, <2>2
    <2>4. /\ DOMAIN held' \subseteq Nat
          /\ held' \in [DOMAIN held' -> Nat \ {0}]
      BY <1>1, <1>2, <1>6, HeapAssumption DEF IInv, TypeOK
    <2> QED
      BY <1>6, <2>1, <2>3, <2>4 DEF IInv, TypeOK
  <1>8. /\ \A d \in DOMAIN hdr : d # cur => EndN(d) = End(d)
        /\ EndN(cur) = nx /\ EndN(nx) = HeapSize
    BY <1>1, <1>2, <1>3, <1>5, HeapAssumption DEF End
  <1>9. ListTilesHeap'
    <2>1. 0 \in DOMAIN hdr'
      BY <1>5 DEF IInv, ListTilesHeap
    <2>2. ASSUME NEW c \in DOMAIN hdr'
          PROVE  /\ EndN(c) <= HeapSize
                 /\ hdr'[c].next = NULL <=> EndN(c) = HeapSize
                 /\ hdr'[c].next # NULL =>
                      hdr'[c].next = EndN(c) /\ EndN(c) \in DOMAIN hdr'
                 /\ hdr'[c].prev = NULL <=> c = 0
                 /\ hdr'[c].prev # NULL =>
                      hdr'[c].prev \in DOMAIN hdr' /\ hdr'[hdr'[c].prev].next = c
      <3>1. CASE c = nx
        BY <1>2, <1>3, <1>5, <1>8, <3>1, HeapAssumption
      <3>2. CASE c = cur
        <4>1. hdr[cur].prev # NULL => hdr[cur].prev \in DOMAIN hdr /\ hdr[cur].prev # cur
          BY <1>2, HeapAssumption DEF IInv, ListTilesHeap
        <4> QED
          BY <1>2, <1>3, <1>5, <1>8, <3>2, <4>1, HeapAssumption DEF IInv, ListTilesHeap
      <3>3. CASE c # nx /\ c # cur
        <4>1. c \in DOMAIN hdr /\ hdr'[c] = hdr[c] /\ EndN(c) = End(c)
          BY <1>5, <1>8, <3>3
        <4>2. hdr[c].prev # NULL => hdr[c].prev # cur
          BY <4>1, <1>2, HeapAssumption DEF IInv, ListTilesHeap, TypeOK
        <4> QED
          BY <1>5, <4>1, <4>2 DEF IInv, ListTilesHeap
      <3> QED
        BY <3>1, <3>2, <3>3
    <2>3. ASSUME NEW c \in DOMAIN hdr', NEW d \in DOMAIN hdr', c < d
          PROVE  EndN(c) <= d
      <3>1. CASE d = nx
        <4>1. c # nx
          BY <2>3, <3>1, <1>3
        <4>2. CASE c = cur
          BY <4>2, <3>1, <1>3, <1>8
        <4>3. CASE c # cur
          <5>1. c \in DOMAIN hdr /\ EndN(c) = End(c) /\ End(c) <= cur /\ End(c) \in Int
            BY <4>1, <4>3, <1>2, <1>5, <1>8, HeapAssumption DEF IInv, TypeOK, Chunk, End
          <5> QED
            BY <5>1, <3>1, <1>2, <1>3
        <4> QED
          BY <4>2, <4>3
      <3>2. CASE d # nx
        <4>1. d \in DOMAIN hdr /\ d <= cur /\ d \in Nat
          BY <3>2, <1>2, <1>5 DEF IInv, TypeOK
        <4>2. c # nx /\ c # cur
          BY <4>1, <2>3, <1>2, <1>3
        <4> QED
          BY <2>3, <4>1, <4>2, <1>5, <1>8 DEF IInv, ListTilesHeap
      <3> QED
        BY <3>1, <3>2
    <2> QED
      BY <2>1, <2>2, <2>3 DEF ListTilesHeap, End
  <1>10. HeldIsAllocated'
    <2> SUFFICES ASSUME NEW p \in DOMAIN held'
                 PROVE  /\ p - HDR \in DOMAIN hdr'
                        /\ hdr'[p - HDR].allocated
                        /\ held'[p] <= hdr'[p - HDR].size
      BY DEF HeldIsAllocated
    <2>1. CASE p = cur + HDR
      <3>1. p - HDR = cur
        BY <1>2, <2>1, HeapAssumption
      <3> QED
        BY <1>1, <1>2, <1>5, <1>6, <2>1, <3>1
    <2>2. CASE p # cur + HDR
      <3>1. p \in DOMAIN held /\ p \in Nat /\ held'[p] = held[p]
        BY <1>6, <2>2 DEF IInv, TypeOK
      <3>2. p - HDR # cur
        BY <1>2, <2>2, <3>1, HeapAssumption
      <3> QED
        BY <1>5, <3>1, <3>2 DEF IInv, HeldIsAllocated
    <2> QED
      BY <2>1, <2>2
  <1>11. OnlyTailFree' /\ WalkedPast'
    BY <1>5, <1>6 DEF IInv, OnlyTailFree, WalkedPast
  <1> QED
    BY <1>7, <1>9, <1>10, <1>11 DEF IInv

-----------------------------------------------------------------------------
(* Steps of free and of the destructor.                                    *)
LEMMA ReleaseIInv ==
    ASSUME IInv, NEW p \in DOMAIN held, Free(p)
    PROVE  IInv'
  <1> DEFINE m == p - HDR
             t == hdr[m].next
             EndN(c) == c + HDR + hdr'[c].size
  <1>1. /\ m \in DOMAIN hdr /\ m \in Nat /\ hdr[m].allocated /\ p = m + HDR
        /\ hdr[m] \in Chunk
    BY HeapAssumption DEF IInv, TypeOK, HeldIsAllocated
  <1>2. /\ held' = [q \in DOMAIN held \ {p} |-> held[q]]
        /\ DOMAIN held' = DOMAIN held \ {p}
        /\ active' = active /\ req' = 0 /\ req = 0 /\ cur' = cur
    BY DEF Free
  <1>3. CASE hdr' = hdr
    <2>1. TypeOK' /\ ListTilesHeap' /\ OnlyTailFree' /\ WalkedPast'
      BY <1>2, <1>3 DEF IInv, TypeOK, ListTilesHeap, End, OnlyTailFree, WalkedPast
    <2>2. HeldIsAllocated'
      BY <1>2, <1>3 DEF IInv, HeldIsAllocated
    <2> QED
      BY <2>1, <2>2 DEF IInv
  <1>4. CASE hdr' # hdr
    <2>1. /\ t \in DOMAIN hdr /\ t = End(m)
          /\ ~hdr[t].allocated /\ hdr[t].next = NULL /\ hdr[t].prev = m
          /\ hdr' = MergeLeft(hdr, t)
      BY <1>1, <1>4, FreeMergesTail DEF Free
    <2>2. /\ t \in Nat /\ hdr[t] \in Chunk /\ m < t /\ End(t) = HeapSize
      BY <1>1, <2>1, HeapAssumption DEF IInv, TypeOK, Chunk, ListTilesHeap, End
    <2>3. DOMAIN hdr' = DOMAIN hdr \ {t}
      BY <2>1 DEF MergeLeft
    <2>4. hdr'[m] = [hdr[m] EXCEPT !.next = NULL, !.size = @ + HDR + hdr[t].size]
      BY <1>1, <2>1, <2>2, HeapAssumption DEF MergeLeft
    <2>5. /\ hdr'[m].prev = hdr[m].prev /\ hdr'[m].next = NULL
          /\ hdr'[m].allocated /\ hdr'[m].size = hdr[m].size + HDR + hdr[t].size
          /\ hdr'[m] \in Chunk
      <3>1. hdr[m].size \in Nat /\ hdr[t].size \in Nat
        BY <1>1, <2>2 DEF Chunk
      <3>2. hdr[m].size + HDR + hdr[t].size \in Nat
        BY <3>1, HeapAssumption
      <3>3. hdr'[m] = [prev |-> hdr[m].prev, next |-> NULL, allocated |-> hdr[m].allocated,
                       size |-> hdr[m].size + HDR + hdr[t].size]
        BY <1>1, <2>4 DEF Chunk
      <3> HIDE DEF m, t
      <3> QED
        BY <1>1, <3>2, <3>3 DEF Chunk
    <2>6. ASSUME NEW c \in DOMAIN hdr' PROVE c # m => hdr'[c] = hdr[c]
      <3>1. c # NULL
        BY <2>3, HeapAssumption DEF IInv, TypeOK
      <3> QED
        BY <2>1, <2>3, <3>1 DEF MergeLeft
    <2>7. TypeOK'
      <3>1. /\ DOMAIN hdr' \subseteq Nat /\ hdr' = [c \in DOMAIN hdr' |-> hdr'[c]]
        BY <2>1, <2>3 DEF IInv, TypeOK, MergeLeft
      <3>2. hdr' \in [DOMAIN hdr' -> Chunk]
        BY <2>3, <2>5, <2>6, <3>1 DEF IInv, TypeOK
      <3>3. /\ DOMAIN held' \subseteq Nat
            /\ held' \in [DOMAIN held' -> Nat \ {0}]
        BY <1>2 DEF IInv, TypeOK
      <3> QED
        BY <1>2, <3>1, <3>2, <3>3 DEF IInv, TypeOK
    <2>8. EndN(m) = HeapSize /\ \A c \in DOMAIN hdr' : c # m => EndN(c) = End(c)
      BY <1>1, <2>1, <2>2, <2>5, <2>6, HeapAssumption DEF End, Chunk
    <2>9. ListTilesHeap'
      <3>1. 0 \in DOMAIN hdr'
        BY <1>1, <2>2, <2>3 DEF IInv, ListTilesHeap
      <3>2. ASSUME NEW c \in DOMAIN hdr'
            PROVE  /\ EndN(c) <= HeapSize
                   /\ hdr'[c].next = NULL <=> EndN(c) = HeapSize
                   /\ hdr'[c].next # NULL =>
                        hdr'[c].next = EndN(c) /\ EndN(c) \in DOMAIN hdr'
                   /\ hdr'[c].prev = NULL <=> c = 0
                   /\ hdr'[c].prev # NULL =>
                        hdr'[c].prev \in DOMAIN hdr' /\ hdr'[hdr'[c].prev].next = c
        <4>1. c \in DOMAIN hdr /\ hdr'[c].prev = hdr[c].prev
          BY <2>3, <2>5, <2>6
        <4>2. hdr[c].prev # NULL =>
                 hdr'[c].prev \in DOMAIN hdr' /\ hdr'[hdr'[c].prev].next = c
          <5>1. SUFFICES ASSUME hdr[c].prev # NULL
                         PROVE  hdr[c].prev \in DOMAIN hdr' /\ hdr'[hdr[c].prev].next = c
            BY <4>1
          <5>2. hdr[c].prev \in DOMAIN hdr /\ hdr[hdr[c].prev].next = c
            BY <4>1, <5>1 DEF IInv, ListTilesHeap
          <5>3. hdr[c].prev # t /\ hdr[c].prev # m
            BY <2>1, <2>3, <4>1, <5>2, HeapAssumption DEF IInv, TypeOK
          <5> QED
            BY <2>3, <2>6, <5>2, <5>3
        <4>3. CASE c = m
          BY <2>5, <2>8, <4>1, <4>2, <4>3, HeapAssumption DEF IInv, ListTilesHeap
        <4>4. CASE c # m
          <5>1. hdr[c].next # t
            <6>1. c \in Nat /\ hdr[c].size \in Nat /\ hdr[m].size \in Nat
              BY <1>1, <4>1 DEF IInv, TypeOK, Chunk
            <6>2. (c < m => End(c) <= m) /\ (m < c => End(m) <= c)
              BY <1>1, <4>1 DEF IInv, ListTilesHeap
            <6>3. End(c) # t
              BY <1>1, <2>1, <2>2, <4>4, <6>1, <6>2, HeapAssumption DEF End
            <6> QED
              BY <2>2, <4>1, <6>3, HeapAssumption DEF IInv, ListTilesHeap
          <5> QED
            BY <2>3, <2>6, <2>8, <4>1, <4>2, <4>4, <5>1 DEF IInv, ListTilesHeap
        <4> QED
          BY <4>3, <4>4
      <3>3. ASSUME NEW c \in DOMAIN hdr', NEW d \in DOMAIN hdr', c < d
            PROVE  EndN(c) <= d
        <4>1. c # m
          <5>1. d \in DOMAIN hdr /\ d # t /\ d \in Nat /\ hdr[d].size \in Nat /\ End(d) <= HeapSize
            BY <2>3 DEF IInv, TypeOK, Chunk, ListTilesHeap
          <5>2. (m < d => End(m) <= d) /\ (t < d => End(t) <= d)
            BY <1>1, <2>1, <5>1 DEF IInv, ListTilesHeap
          <5> QED
            BY <1>1, <2>1, <2>2, <3>3, <5>1, <5>2, HeapAssumption DEF End
        <4> QED
          BY <2>3, <2>8, <3>3, <4>1 DEF IInv, ListTilesHeap
      <3> QED
        BY <3>1, <3>2, <3>3 DEF ListTilesHeap, End
    <2>10. HeldIsAllocated'
      <3> SUFFICES ASSUME NEW q \in DOMAIN held'
                   PROVE  /\ q - HDR \in DOMAIN hdr'
                          /\ hdr'[q - HDR].allocated
                          /\ held'[q] <= hdr'[q - HDR].size
        BY DEF HeldIsAllocated
      <3>1. /\ q \in DOMAIN held /\ q # p /\ held'[q] = held[q]
            /\ q - HDR \in DOMAIN hdr /\ hdr[q - HDR].allocated
            /\ held[q] <= hdr[q - HDR].size /\ q \in Nat
        BY <1>2 DEF IInv, HeldIsAllocated, TypeOK
      <3>2. q - HDR # t /\ q - HDR # m
        BY <1>1, <2>1, <3>1, HeapAssumption DEF IInv, TypeOK
      <3> QED
        BY <2>3, <2>6, <3>1, <3>2
    <2>11. OnlyTailFree' /\ WalkedPast'
      BY <1>2, <2>3, <2>5, <2>6 DEF IInv, OnlyTailFree, WalkedPast
    <2> QED
      BY <2>7, <2>9, <2>10, <2>11 DEF IInv
  <1> QED
    BY <1>3, <1>4

LEMMA DestroyIInv == IInv /\ Destroy => IInv'
  <1> SUFFICES ASSUME IInv, Destroy PROVE IInv'
    OBVIOUS
  <1>1. active' = FALSE /\ UNCHANGED <<hdr, held, req, cur>>
    BY DEF Destroy
  <1>2. TypeOK'
    BY <1>1 DEF IInv, TypeOK
  <1>3. ListTilesHeap' /\ HeldIsAllocated' /\ OnlyTailFree'
    BY <1>1 DEF IInv, ListTilesHeap, End, HeldIsAllocated, OnlyTailFree
  <1>4. WalkedPast'
    BY DEF Destroy, WalkedPast
  <1> QED
    BY <1>2, <1>3, <1>4 DEF IInv

LEMMA StutterIInv == IInv /\ UNCHANGED vars => IInv'
  BY DEF vars, IInv, TypeOK, ListTilesHeap, End, HeldIsAllocated, OnlyTailFree,
     WalkedPast, Fits

-----------------------------------------------------------------------------
(* The inductive invariant holds of every reachable state of the heap.     *)
THEOREM HeapInvariance == Spec => []IInv
  <1>1. IInv /\ [Next]_vars => IInv'
    <2> SUFFICES ASSUME IInv, [Next]_vars PROVE IInv'
      OBVIOUS
    <2>1. CASE \E n \in Requests : MallocCall(n)
      BY <2>1, WalkIInv
    <2>2. CASE MallocStep
      BY <2>2, WalkIInv, WholeIInv, SplitIInv DEF MallocStep
    <2>3. CASE \E p \in DOMAIN held : Free(p)
      BY <2>3, ReleaseIInv
    <2>4. CASE Destroy
      BY <2>4, DestroyIInv
    <2>5. CASE UNCHANGED vars
      BY <2>5, StutterIInv
    <2> QED
      BY <2>1, <2>2, <2>3, <2>4, <2>5 DEF Next
  <1> QED
    BY InitIInv, <1>1, PTL DEF Spec

(* Every variable of the heap keeps its type: in particular no chunk size  *)
(* ever wraps below zero.                                                  *)
THEOREM HeapTypeCorrect == Spec => []TypeOK
  <1>1. IInv => TypeOK
    BY DEF IInv
  <1> QED
    BY HeapInvariance, <1>1, PTL

(* malloc's split and free's merges keep the list a tiling of the heap.    *)
THEOREM HeapListCorrect == Spec => []ListTilesHeap
  <1>1. IInv => ListTilesHeap
    BY DEF IInv
  <1> QED
    BY HeapInvariance, <1>1, PTL

(* A block given to a caller stays inside one allocated chunk until the    *)
(* caller frees it.                                                        *)
THEOREM HeldStaysAllocated == Spec => []HeldIsAllocated
  <1>1. IInv => HeldIsAllocated
    BY DEF IInv
  <1> QED
    BY HeapInvariance, <1>1, PTL

(* Only the last chunk is ever unallocated; two adjoining ones never are.  *)
THEOREM OnlyTailIsFree == Spec => []OnlyTailFree
  <1>1. IInv => OnlyTailFree
    BY DEF IInv
  <1> QED
    BY HeapInvariance, <1>1, PTL

-----------------------------------------------------------------------------
(* ReturnBlock adds a block nobody held: a call of malloc that returns a   *)
(* block changes held.                                                     *)
LEMMA ReturnAddsBlock ==
    ASSUME IInv, req # 0, Fits(cur), ReturnBlock
    PROVE  held' # held
  <1>1. cur + HDR \notin DOMAIN held
    BY CursorAtTail
  <1>2. cur + HDR \in DOMAIN held'
    BY DEF ReturnBlock
  <1> QED
    BY <1>1, <1>2

(* malloc returns nullptr only when no chunk of the heap is both           *)
(* unallocated and big enough.                                             *)
THEOREM MallocFailsOnlyWhenFull == Spec => NullOnlyWhenFull
  <1> DEFINE Full == req # 0 /\ req' = 0 /\ held' = held =>
                       \A c \in DOMAIN hdr : ~Fits(c)
  <1>1. IInv /\ [Next]_vars => [Full]_vars
    <2> SUFFICES ASSUME IInv, Next, req # 0, req' = 0, held' = held, NEW c \in DOMAIN hdr
                 PROVE  ~Fits(c)
      BY DEF vars
    <2>1. MallocStep
      BY DEF Next, MallocCall, Free, Destroy
    <2>2. ~MallocWhole /\ ~MallocSplit
      BY ReturnAddsBlock DEF MallocWhole, MallocSplit
    <2>3. ~MallocNext
      BY DEF MallocNext
    <2>4. MallocFail
      BY <2>1, <2>2, <2>3 DEF MallocStep
    <2>5. /\ cur \in DOMAIN hdr /\ cur \in Nat /\ c \in Nat
          /\ hdr[c].size \in Nat /\ hdr[cur].size \in Nat
      BY DEF IInv, WalkedPast, TypeOK, Chunk
    <2>6. End(cur) = HeapSize /\ End(c) <= HeapSize /\ (cur < c => End(cur) <= c)
      BY <2>4, <2>5 DEF MallocFail, IInv, ListTilesHeap
    <2>7. c < cur \/ c = cur
      BY <2>5, <2>6, HeapAssumption DEF End
    <2> QED
      BY <2>4, <2>7 DEF MallocFail, IInv, WalkedPast
  <1> QED
    BY HeapInvariance, <1>1, PTL DEF Spec, NullOnlyWhenFull

-----------------------------------------------------------------------------
(* Inside a call only MallocNext goes on, and the chunk after the one      *)
(* under the cursor lies above it and below the end of the heap.           *)
THEOREM MallocMovesForward == Spec => MallocAdvances
  <1> DEFINE Forward == req # 0 /\ req' # 0 =>
                /\ cur < cur' /\ cur' < HeapSize
                /\ UNCHANGED <<active, hdr, held, req>>
  <1>1. IInv /\ [Next]_vars => [Forward]_vars
    <2> SUFFICES ASSUME IInv, Next, req # 0, req' # 0
                 PROVE  /\ cur < cur' /\ cur' < HeapSize
                        /\ UNCHANGED <<active, hdr, held, req>>
      BY DEF vars
    <2>1. MallocNext
      BY DEF Next, MallocStep, MallocCall, Free, Destroy, MallocFail, MallocWhole, MallocSplit,
         ReturnBlock
    <2>2. /\ cur \in DOMAIN hdr /\ cur \in Nat /\ hdr[cur].size \in Nat
          /\ cur' = End(cur) /\ cur' \in DOMAIN hdr
      BY <2>1 DEF MallocNext, IInv, WalkedPast, TypeOK, Chunk, ListTilesHeap
    <2>3. cur' \in Nat /\ hdr[cur'].size \in Nat /\ End(cur') <= HeapSize
      BY <2>2 DEF IInv, TypeOK, Chunk, ListTilesHeap
    <2> QED
      BY <2>1, <2>2, <2>3, HeapAssumption DEF MallocNext, End
  <1> QED
    BY HeapInvariance, <1>1, PTL DEF Spec, MallocAdvances

(* Neither malloc nor free makes a chunk available, or enlarges one that   *)
(* is: the merge of free swallows the available chunk, and what malloc     *)
(* splits off is smaller than the chunk it was cut from.                   *)
LEMMA RoomOnlyShrinks ==
    ASSUME IInv, [Next]_vars, NEW n \in Nat, RoomFor(n)'
    PROVE  RoomFor(n)
  <1>1. PICK c \in DOMAIN hdr' : ~hdr'[c].allocated /\ hdr'[c].size >= n
    BY DEF RoomFor
  <1>2. CASE hdr' = hdr
    BY <1>1, <1>2 DEF RoomFor
  <1>3. CASE MallocWhole
    <2>1. cur \in DOMAIN hdr /\ hdr' = [hdr EXCEPT ![cur].allocated = TRUE] /\ hdr[cur] \in Chunk
      BY <1>3 DEF MallocWhole, IInv, TypeOK, WalkedPast
    <2>2. c \in DOMAIN hdr /\ c # cur /\ hdr'[c] = hdr[c]
      BY <1>1, <2>1 DEF Chunk
    <2> QED
      BY <1>1, <2>2 DEF RoomFor
  <1>4. CASE MallocSplit
    <2>1. /\ cur \in DOMAIN hdr /\ ~hdr[cur].allocated /\ hdr[cur].size \in Nat
          /\ req \in Nat /\ hdr' = SplitAt(cur, req) /\ HDR \in Nat
      BY <1>4, HeapAssumption, CursorAtTail DEF MallocSplit, IInv, TypeOK
    <2>2. CASE c = cur + HDR + req
      <3>1. hdr'[c].size = hdr[cur].size - req - HDR
        BY <1>1, <2>1, <2>2 DEF SplitAt, SplitWith
      <3>2. hdr[cur].size >= n
        BY <1>1, <2>1, <3>1
      <3> QED
        BY <2>1, <3>2 DEF RoomFor
    <2>3. CASE c # cur + HDR + req
      <3>1. c \in DOMAIN hdr /\ c # cur /\ hdr'[c] = hdr[c]
        BY <1>1, <2>1, <2>3 DEF SplitAt, SplitWith
      <3> QED
        BY <1>1, <3>1 DEF RoomFor
    <2> QED
      BY <2>2, <2>3
  <1>5. ASSUME NEW p \in DOMAIN held, Free(p), hdr' # hdr
        PROVE  RoomFor(n)
    <2> DEFINE m == p - HDR
               t == hdr[m].next
    <2>1. m \in DOMAIN hdr /\ hdr[m].allocated /\ hdr[m] \in Chunk
      BY DEF IInv, TypeOK, HeldIsAllocated
    <2>2. /\ t \in DOMAIN hdr /\ hdr[t].next = NULL /\ hdr[t].prev = m
          /\ hdr' = MergeLeft(hdr, t)
      BY <1>5, <2>1, FreeMergesTail DEF Free
    <2>3. /\ c \in DOMAIN hdr /\ c # t
          /\ c # NULL
      BY <1>1, <2>2, HeapAssumption DEF MergeLeft, IInv, TypeOK
    <2>4. CASE c = m
      BY <1>1, <2>1, <2>2, <2>3, <2>4 DEF MergeLeft, Chunk
    <2>5. CASE c # m
      <3>1. hdr'[c] = hdr[c]
        BY <2>2, <2>3, <2>5 DEF MergeLeft
      <3> QED
        BY <1>1, <2>3, <3>1 DEF RoomFor
    <2> QED
      BY <2>4, <2>5
  <1> QED
    BY <1>2, <1>3, <1>4, <1>5 DEF Next, MallocStep, MallocCall, MallocNext, MallocFail, Destroy, vars

(* Once malloc has no room for n bytes it never has again: free gives no   *)
(* memory back.                                                            *)
THEOREM RoomIsGoneForGood ==
    ASSUME NEW n \in Nat
    PROVE  Spec => RoomNeverComesBack(n)
  <1>1. IInv /\ [Next]_vars /\ ~RoomFor(n) => ~RoomFor(n)'
    BY RoomOnlyShrinks
  <1> QED
    BY HeapInvariance, <1>1, PTL DEF Spec, RoomNeverComesBack

-----------------------------------------------------------------------------
(* What malloc hands out is a vacant interval of the heap in the sense of  *)
(* Allocator.                                                              *)
LEMMA ReturnIsAllocate ==
    ASSUME IInv, req # 0, Fits(cur), ReturnBlock
    PROVE  \E p \in 0 .. HeapSize - 1, n \in Requests \ {0} : Blocks!Allocate(p, n)
  <1>1. /\ cur \in DOMAIN hdr /\ cur \in Nat /\ hdr[cur].size \in Nat
        /\ End(cur) = HeapSize /\ hdr[cur].size >= req
        /\ \A d \in DOMAIN hdr : d # cur => d < cur /\ End(d) <= cur
        /\ \A p \in DOMAIN held : p # cur + HDR
    BY CursorAtTail
  <1>2. req \in Requests \ {0} /\ req \in Nat
    BY HeapAssumption DEF IInv, TypeOK
  <1>3. cur + HDR \in 0 .. HeapSize - 1 /\ cur + HDR + req <= HeapSize
    BY <1>1, <1>2, HeapAssumption DEF End
  <1>4. ASSUME NEW q \in DOMAIN held
        PROVE  q + held[q] <= cur + HDR
    <2>1. /\ q \in Nat /\ held[q] \in Nat /\ q - HDR \in DOMAIN hdr
          /\ hdr[q - HDR].size \in Nat /\ held[q] <= hdr[q - HDR].size
      BY DEF IInv, TypeOK, Chunk, HeldIsAllocated
    <2>2. q - HDR # cur
      BY <1>1, <2>1, HeapAssumption
    <2>3. End(q - HDR) <= cur
      BY <1>1, <2>1, <2>2
    <2> QED
      BY <1>1, <2>1, <2>3, HeapAssumption DEF End
  <1>5. Blocks!Vacant(cur + HDR, req)
    BY <1>3, <1>4 DEF Blocks!Vacant
  <1>6. Blocks!Allocate(cur + HDR, req)
    BY <1>1, <1>5 DEF Blocks!Allocate, ReturnBlock
  <1> QED
    BY <1>2, <1>3, <1>6

(* The heap implements Allocator: to its callers it is a set of disjoint   *)
(* blocks that only their own requests and frees change.                   *)
THEOREM HeapKeepsPromises == Spec => KeepsPromises
  <1>1. Init => Blocks!Init
    BY DEF Init, Blocks!Init
  <1>2. IInv /\ [Next]_vars => [Blocks!Next]_held
    <2> SUFFICES ASSUME IInv, [Next]_vars PROVE [Blocks!Next]_held
      OBVIOUS
    <2>1. CASE MallocWhole \/ MallocSplit
      BY <2>1, ReturnIsAllocate DEF MallocWhole, MallocSplit, Blocks!Next
    <2>2. CASE \E p \in DOMAIN held : Free(p)
      BY <2>2 DEF Free, Blocks!Release, Blocks!Next
    <2>3. CASE \/ \E n \in Requests : MallocCall(n)
               \/ MallocNext \/ MallocFail \/ Destroy \/ UNCHANGED vars
      BY <2>3 DEF MallocCall, MallocNext, MallocFail, Destroy, vars
    <2> QED
      BY <2>1, <2>2, <2>3 DEF Next, MallocStep
  <1> QED
    BY HeapInvariance, <1>1, <1>2, PTL DEF Spec, KeepsPromises, Blocks!Spec
=============================================================================
