-------------------------------- MODULE Heap --------------------------------
(***************************************************************************)
(* The kernel heap: class MemoryManager (modules/memory.cpp), a doubly     *)
(* linked list of chunks threaded through the heap itself, each chunk a    *)
(* header of HDR bytes followed by its payload.                            *)
(*                                                                         *)
(* Addresses are offsets from heapStart.  malloc is modelled one iteration *)
(* of its do-while loop per step; free, which has no loop, is one step.    *)
(* The callers are new and delete, which give back each block once.        *)
(***************************************************************************)
EXTENDS Integers

CONSTANTS
    HeapSize,   \* the constructor's heapSize
    HDR,        \* sizeof(MemoryChunk)
    Requests,   \* the sizes the callers ask for
    NULL        \* nullptr

(* heapStart .. heapStart+heapSize holds at least the first header: the    *)
(* constructor's heapSize - sizeof(MemoryChunk) does not wrap.             *)
ASSUME HeapAssumption ==
    /\ HDR \in Nat \ {0}
    /\ HeapSize \in Nat
    /\ HeapSize > HDR
    /\ Requests \subseteq Nat
    /\ NULL \notin Nat

MIN_CHUNK_SIZE == 0

VARIABLES
    active,     \* activeMemoryManager # nullptr
    hdr,        \* address of a linked chunk |-> its header
    held,       \* payload the callers hold |-> the size they asked for
    req,        \* the size malloc is looking for, 0 outside malloc
    cur         \* malloc's cursor mem

vars == <<active, hdr, held, req, cur>>

Chunk == [prev : Nat \cup {NULL}, next : Nat \cup {NULL},
          allocated : BOOLEAN, size : Nat]

Init ==
    /\ active = TRUE
    /\ hdr = [c \in {0} |-> [prev |-> NULL, next |-> NULL, allocated |-> FALSE,
                             size |-> HeapSize - HDR]]
    /\ held = << >>
    /\ req = 0
    /\ cur = 0

-----------------------------------------------------------------------------
(* malloc *)

(* No empty chunks: a request of 0 returns nullptr at once, as does every  *)
(* request made while no manager is active.                                *)
MallocCall(n) ==
    /\ req = 0
    /\ active
    /\ n # 0
    /\ req' = n
    /\ cur' = 0
    /\ UNCHANGED <<active, hdr, held>>

(* Mutation: the allocated flag is not looked at.                          *)
FitsBySizeOnly(c) == hdr[c].size >= req

Fits(c) == hdr[c].size >= req /\ ~hdr[c].allocated

MallocNext ==
    /\ req # 0
    /\ ~Fits(cur)
    /\ hdr[cur].next # NULL
    /\ cur' = hdr[cur].next
    /\ UNCHANGED <<active, hdr, held, req>>

(* Mutation: the loop stops at the last chunk without trying it.           *)
StopsAtLast ==
    /\ req # 0
    /\ hdr[cur].next = NULL
    /\ req' = 0
    /\ cur' = 0
    /\ UNCHANGED <<active, hdr, held>>

(* The end of the list: malloc returns nullptr.                            *)
MallocFail ==
    /\ req # 0
    /\ ~Fits(cur)
    /\ hdr[cur].next = NULL
    /\ req' = 0
    /\ cur' = 0
    /\ UNCHANGED <<active, hdr, held>>

(* malloc returns the payload of the chunk under the cursor.               *)
ReturnBlock ==
    /\ held' = [p \in DOMAIN held \cup {cur + HDR} |->
                   IF p = cur + HDR THEN req ELSE held[p]]
    /\ req' = 0
    /\ cur' = 0
    /\ UNCHANGED active

(* Mutation: the second chunk's header is left out of the bound.           *)
SplitNeedsNoHeader == hdr[cur].size <= req + MIN_CHUNK_SIZE

TooSmallToSplit == hdr[cur].size <= req + HDR + MIN_CHUNK_SIZE

MallocWhole ==
    /\ req # 0
    /\ Fits(cur)
    /\ TooSmallToSplit
    /\ hdr' = [hdr EXCEPT ![cur].allocated = TRUE]
    /\ ReturnBlock

(* The list with chunk c cut after n payload bytes, its remainder a new    *)
(* chunk at nx followed by after.  No other chunk is written: the one      *)
(* after the new chunk keeps its prev pointer, as in the code.             *)
SplitWith(c, n, nx, after, taken, rest) ==
    [d \in DOMAIN hdr \cup {nx} |->
        IF d = nx THEN [prev |-> c, next |-> after, allocated |-> FALSE, size |-> rest]
        ELSE IF d = c THEN [prev |-> hdr[c].prev, next |-> nx,
                            allocated |-> taken, size |-> n]
        ELSE hdr[d]]

(* Mutations of the split: the new header's bytes counted as payload, the  *)
(* first chunk left unallocated, the new chunk linked back to the first.   *)
SplitForgetsHeader(c, n) ==
    SplitWith(c, n, c + HDR + n, hdr[c].next, TRUE, hdr[c].size - n)
SplitForgetsFlag(c, n) ==
    SplitWith(c, n, c + HDR + n, hdr[c].next, FALSE, hdr[c].size - n - HDR)
SplitLinksBack(c, n) ==
    SplitWith(c, n, c + HDR + n, c, TRUE, hdr[c].size - n - HDR)

SplitAt(c, n) ==
    SplitWith(c, n, c + HDR + n, hdr[c].next, TRUE, hdr[c].size - n - HDR)

MallocSplit ==
    /\ req # 0
    /\ Fits(cur)
    /\ ~TooSmallToSplit
    /\ hdr' = SplitAt(cur, req)
    /\ ReturnBlock

-----------------------------------------------------------------------------
(* free *)

(* The list h after MergeLeft(d): d is unlinked and its header and payload *)
(* go to the chunk on its left.                                            *)
MergeLeft(h, d) ==
    [c \in DOMAIN h \ {d} |->
       IF c = h[d].prev THEN [h[c] EXCEPT !.next = h[d].next,
                                          !.size = @ + HDR + h[d].size]
       ELSE IF c = h[d].next THEN [h[c] EXCEPT !.prev = h[d].prev]
       ELSE h[c]]

(* Mutation: a neighbour is merged whether or not it is allocated.         *)
IsChunk(h, c) == c # NULL

IsFree(h, c) == c # NULL /\ ~h[c].allocated

(* The list after free of the chunk m.  After the left merge the code goes *)
(* on reading m's next pointer, which the merge leaves as it was.          *)
Released(m) ==
    LET left == IF IsFree(hdr, hdr[m].prev) THEN MergeLeft(hdr, m) ELSE hdr
    IN  IF IsFree(left, hdr[m].next) THEN MergeLeft(left, hdr[m].next) ELSE left

Free(p) ==
    /\ req = 0
    /\ p \in DOMAIN held
    /\ hdr' = IF active THEN Released(p - HDR) ELSE hdr
    /\ held' = [q \in DOMAIN held \ {p} |-> held[q]]
    /\ UNCHANGED <<active, req, cur>>

(* The destructor: from here on malloc returns nullptr and free does       *)
(* nothing.                                                                *)
Destroy ==
    /\ req = 0
    /\ active
    /\ active' = FALSE
    /\ UNCHANGED <<hdr, held, req, cur>>

-----------------------------------------------------------------------------
MallocStep == MallocNext \/ MallocFail \/ MallocWhole \/ MallocSplit

Next ==
    \/ \E n \in Requests : MallocCall(n)
    \/ MallocStep
    \/ \E p \in DOMAIN held : Free(p)
    \/ Destroy

Spec == Init /\ [][Next]_vars

(* The kernel has one thread; a call to malloc runs until it returns.      *)
FairSpec == Spec /\ WF_vars(MallocStep)

-----------------------------------------------------------------------------
(* Properties *)

TypeOK ==
    /\ active \in BOOLEAN
    /\ DOMAIN hdr \subseteq Nat
    /\ hdr \in [DOMAIN hdr -> Chunk]
    /\ DOMAIN held \subseteq Nat
    /\ held \in [DOMAIN held -> Nat \ {0}]
    /\ req \in Requests \cup {0}
    /\ cur \in Nat

End(c) == c + HDR + hdr[c].size

(* The chunks tile the heap: following next from the first chunk visits    *)
(* adjoining chunks up to the last byte, prev is the inverse of next, and  *)
(* no chunk starts inside another.  Neither malloc's split nor free's      *)
(* merges lose, duplicate or overlap a byte of the heap.                   *)
ListTilesHeap ==
    /\ 0 \in DOMAIN hdr
    /\ \A c \in DOMAIN hdr :
         /\ End(c) <= HeapSize
         /\ hdr[c].next = NULL <=> End(c) = HeapSize
         /\ hdr[c].next # NULL => hdr[c].next = End(c) /\ End(c) \in DOMAIN hdr
         /\ hdr[c].prev = NULL <=> c = 0
         /\ hdr[c].prev # NULL =>
              hdr[c].prev \in DOMAIN hdr /\ hdr[hdr[c].prev].next = c
    /\ \A c, d \in DOMAIN hdr : c < d => End(c) <= d

(* A block a caller holds is the payload of one allocated chunk of at      *)
(* least the size asked for, so no header write of a later malloc or free  *)
(* lands in it.                                                            *)
HeldIsAllocated ==
    \A p \in DOMAIN held :
        /\ p - HDR \in DOMAIN hdr
        /\ hdr[p - HDR].allocated
        /\ held[p] <= hdr[p - HDR].size

(* memory.h: "Two unallocated memory chunks one next to another should     *)
(* never occur".  It does not, for a stronger reason than merging: only    *)
(* the last chunk is ever unallocated, since free clears no flag.          *)
OnlyTailFree == \A c \in DOMAIN hdr : ~hdr[c].allocated => hdr[c].next = NULL

(* malloc's first-fit walk: every chunk behind the cursor was too small or *)
(* taken.                                                                  *)
WalkedPast ==
    req # 0 => /\ active
               /\ cur \in DOMAIN hdr
               /\ \A c \in DOMAIN hdr : c < cur => ~Fits(c)

(* malloc gives up only when no chunk of the whole list would do.          *)
NullOnlyWhenFull ==
    [][req # 0 /\ req' = 0 /\ held' = held => \A c \in DOMAIN hdr : ~Fits(c)]_vars

(* Every call to malloc returns: the list has no cycle.                    *)
MallocReturns == (req # 0) ~> (req = 0)

(* What MallocReturns rests on: a call that goes on leaves the list and    *)
(* the blocks alone and moves the cursor to a higher address of the heap,  *)
(* so no call looks at more chunks than the heap has bytes.                *)
MallocAdvances ==
    [][req # 0 /\ req' # 0 =>
          cur < cur' /\ cur' < HeapSize /\ UNCHANGED <<active, hdr, held, req>>]_vars

(* A chunk malloc would take for n bytes.                                  *)
RoomFor(n) == \E c \in DOMAIN hdr : ~hdr[c].allocated /\ hdr[c].size >= n

(* How far the heap is from memory.h's promise below: once there is no     *)
(* room for n bytes there never is again, whatever the callers free.       *)
RoomNeverComesBack(n) == [](~RoomFor(n) => []~RoomFor(n))

(* The heap keeps the promises of Allocator to its callers.                *)
Blocks == INSTANCE Allocator WITH blocks <- held
KeepsPromises == Blocks!Spec

(* memory.h, on unallocated chunks: "they should be merged when            *)
(* deallocated".  If so every allocated chunk is held by some caller.      *)
FreedIsReusable ==
    \A c \in DOMAIN hdr : hdr[c].allocated => c + HDR \in DOMAIN held
=============================================================================
