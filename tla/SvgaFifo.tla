------------------------------ MODULE SvgaFifo ------------------------------
(***************************************************************************)
(* The command FIFO shared by the SVGA driver and the VMware device        *)
(* (drivers/svga/svga.cpp): FIFO_Reserve, FIFO_Full, FIFO_Commit and the   *)
(* way InsertFence uses them.                                              *)
(*                                                                         *)
(* Sizes and offsets count dwords, the unit of every length the driver     *)
(* accepts.  Each step of the driver reads or writes at most one of the    *)
(* FIFO registers the device shares, so the device can run in between.     *)
(* The device (external) reads words at STOP, and may at any time be       *)
(* checkpointed and restored, which keeps only the FIFO contents it has    *)
(* been told about.                                                        *)
(***************************************************************************)
EXTENDS Integers, Sequences

CONSTANTS
    MIN, MAX,           \* registers SVGA_FIFO_MIN and SVGA_FIFO_MAX
    BOUNCE,             \* sizeof bounceBuffer
    Sizes,              \* lengths the clients reserve
    Tags,               \* tells the commands of the clients apart
    InitialReserved,    \* what the never initialised reservedSize may hold
    RAGGED,             \* any such size that is not a whole number of dwords
    JUNK                \* a word no client wrote

ASSUME FifoAssumption ==
    /\ MIN \in Nat /\ MAX \in Nat /\ MIN < MAX
    /\ BOUNCE \in Nat
    /\ Sizes \subseteq Nat
    /\ RAGGED \notin Nat
    /\ InitialReserved \subseteq Nat \cup {RAGGED}

Size == MAX - MIN
Slots == MIN .. MAX - 1

VARIABLES
    next, stop, resv,   \* registers NEXT_CMD, STOP and RESERVED
    mem,                \* the FIFO's words
    reserveable,        \* the device has SVGA_FIFO_CAP_RESERVE
    reservedSize, usingBounce, bounce,      \* the driver's svga.fifo
    pc, nextCmd, seen, bytes, done,     \* the driver: control, its locals, words copied
    filled, tag,        \* the client: words written so far, and which command
    stream,             \* ghost: the words published and not read yet
    overrun             \* ghost: the size of a commit that ran over the device's
                        \* words or out of the bounce buffer, 0 for none

device == <<next, stop, resv, mem>>
driver == <<reservedSize, usingBounce, bounce>>
locals == <<pc, nextCmd, seen, bytes, done>>
client == <<filled, tag>>
vars == <<device, reserveable, driver, locals, client, stream, overrun>>

(* The i-th word of the client's command.                                  *)
WordOf(i) == <<tag, i>>
Words == {<<t, i>> : t \in Tags, i \in 1 .. BOUNCE} \cup {JUNK}

(* The slot n words after slot a.                                          *)
Forward(a, n) == IF a + n < MAX THEN a + n ELSE a + n - Size
Unread == IF next >= stop THEN next - stop ELSE next - stop + Size
UnreadSlots == {Forward(stop, i) : i \in 0 .. Unread - 1}

(* A commit of this size leaves a dword of an empty FIFO free and stays    *)
(* inside the bounce buffer.                                               *)
Fits(n) == n \in 0 .. BOUNCE /\ n < Size

(* SVGA::Enable; reservedSize and usingBounceBuffer are fields of an       *)
(* automatic object that nothing initialises: any 32-bit size may be there.*)
Init ==
    /\ next = MIN /\ stop = MIN /\ resv = 0
    /\ mem = [a \in Slots |-> JUNK]
    /\ reserveable \in BOOLEAN
    /\ reservedSize \in InitialReserved
    /\ usingBounce \in BOOLEAN
    /\ bounce = [i \in 1 .. BOUNCE |-> JUNK]
    /\ pc = "idle" /\ nextCmd = MIN /\ seen = MIN /\ bytes = 0 /\ done = 0
    /\ filled = 0 /\ tag \in Tags
    /\ stream = << >>
    /\ overrun = 0

-----------------------------------------------------------------------------
(* FIFO_Reserve *)

(* A length above the bounce buffer or the FIFO, and a reservation on top  *)
(* of another one, return nullptr and change nothing.                      *)
Accepted(n) == n <= BOUNCE /\ n <= Size /\ reservedSize = 0

ReserveCall(n, t) ==
    /\ pc = "idle"
    /\ Accepted(n)
    /\ reservedSize' = n
    /\ nextCmd' = next
    /\ bytes' = n
    /\ pc' = "look"
    /\ tag' = t
    /\ filled' = 0
    /\ UNCHANGED <<device, reserveable, overrun, usingBounce, bounce, seen, done, stream>>

(* One iteration of the loop starts by reading STOP.                       *)
Look ==
    /\ pc = "look"
    /\ seen' = stop
    /\ pc' = "decide"
    /\ UNCHANGED <<device, reserveable, overrun, driver, nextCmd, bytes, done, client, stream>>

(* Mutation: the edge case of a FIFO filled up to its top is not tested.   *)
ContiguousToTop ==
    \/ nextCmd >= seen /\ nextCmd + bytes <= MAX
    \/ nextCmd < seen /\ nextCmd + bytes < seen

(* Mutation: only the top of the FIFO is looked at.                         *)
ContiguousIgnoresStop == nextCmd + bytes < MAX

(* There is enough contiguous space at nextCmd.                            *)
Contiguous ==
    \/ nextCmd >= seen /\ \/ nextCmd + bytes < MAX
                          \/ nextCmd + bytes = MAX /\ seen > MIN
    \/ nextCmd < seen /\ nextCmd + bytes < seen

(* Mutation: space that would have to be split counts as none.             *)
NeverSplit == FALSE

(* The data fits, but only in two pieces.                                  *)
Split ==
    /\ nextCmd >= seen
    /\ ~Contiguous
    /\ (MAX - nextCmd) + (seen - MIN) > bytes

(* Mutation: uncommitted data is put in place without being announced.     *)
TrustsDevice == TRUE

(* The device knows about uncommitted data, or it is one dword.            *)
SafeInPlace == reserveable \/ bytes <= 1

ReserveInPlace ==
    /\ pc = "decide"
    /\ Contiguous
    /\ SafeInPlace
    /\ usingBounce' = FALSE
    /\ resv' = IF reserveable THEN bytes ELSE resv
    /\ pc' = "held"
    /\ UNCHANGED <<next, stop, mem, reserveable, overrun, reservedSize, bounce, nextCmd, seen,
                   bytes, done, client, stream>>

ReserveBounce ==
    /\ pc = "decide"
    /\ Split \/ (Contiguous /\ ~SafeInPlace)
    /\ usingBounce' = TRUE
    /\ pc' = "held"
    /\ UNCHANGED <<device, reserveable, overrun, reservedSize, bounce, nextCmd, seen, bytes,
                   done, client, stream>>

(* FIFO_Full, the fallback without interrupts: SVGA_REG_SYNC lets the      *)
(* device read for a while (Device below), then the loop goes round.       *)
Full ==
    /\ pc = "decide"
    /\ ~Contiguous /\ ~Split
    /\ pc' = "full"
    /\ UNCHANGED <<device, reserveable, overrun, driver, nextCmd, seen, bytes, done, client, stream>>

FullReturns ==
    /\ pc = "full"
    /\ pc' = "look"
    /\ UNCHANGED <<device, reserveable, overrun, driver, nextCmd, seen, bytes, done, client, stream>>

-----------------------------------------------------------------------------
(* The client writes its command word by word into what it reserved.       *)
Fill ==
    /\ pc = "held"
    /\ filled < bytes
    /\ filled' = filled + 1
    /\ IF usingBounce
       THEN bounce' = [bounce EXCEPT ![filled + 1] = WordOf(filled + 1)] /\ UNCHANGED mem
       ELSE mem' = [mem EXCEPT ![nextCmd + filled] = WordOf(filled + 1)] /\ UNCHANGED bounce
    /\ UNCHANGED <<next, stop, resv, reserveable, overrun, reservedSize, usingBounce, locals,
                   tag, stream>>

(* FIFO_Commit *)

CommitStart(n) ==
    /\ reservedSize' = 0
    /\ nextCmd' = next
    /\ bytes' = n
    /\ pc' = IF reservedSize = 0 THEN "idle"
             ELSE IF ~usingBounce THEN "publish"
             ELSE IF reserveable THEN "announce" ELSE "copy"
    /\ UNCHANGED <<device, reserveable, overrun, usingBounce, bounce, seen, done, stream>>

(* The client commits what it has written, or less.                        *)
Commit(n) ==
    /\ pc = "held"
    /\ n <= filled
    /\ CommitStart(n)
    /\ UNCHANGED client

(* InsertFence does not look at what FIFO_Reserve returned: refused, it    *)
(* writes its fence through a null pointer and then commits reservedSize.  *)
FenceRefused ==
    /\ pc = "idle"
    /\ reservedSize \notin {0, RAGGED}
    /\ CommitStart(reservedSize)
    /\ filled' = 0
    /\ UNCHANGED tag

Announce ==
    /\ pc = "announce"
    /\ resv' = bytes
    /\ pc' = "bulk"
    /\ UNCHANGED <<next, stop, mem, reserveable, overrun, driver, nextCmd, seen, bytes, done, client,
                   stream>>

(* memcpy takes its source first; FIFO_Commit passes the FIFO first.  The  *)
(* two calls copy FIFO words into the bounce buffer.                       *)
WordAt(a) == IF a \in Slots THEN mem[a] ELSE JUNK
BulkCopy ==
    /\ pc = "bulk"
    /\ bytes <= BOUNCE
    /\ bounce' = [i \in 1 .. BOUNCE |->
                     IF i <= bytes THEN WordAt(Forward(nextCmd, i - 1)) ELSE bounce[i]]
    /\ pc' = "publish"
    /\ UNCHANGED <<device, reserveable, overrun, reservedSize, usingBounce, nextCmd, seen, bytes,
                   done, client, stream>>

(* The ghost's entry for the i-th word of a commit: the word, and whether  *)
(* a client wrote it, it went through the bulk copy, or nobody reserved it.*)
Entry(i) == [word |-> IF i > filled THEN JUNK ELSE WordOf(i),
             via |-> IF i > filled THEN "stray"
                     ELSE IF usingBounce /\ reserveable THEN "bulk" ELSE "client"]

(* Mutation: NEXT_CMD is not wrapped when it reaches the top exactly.      *)
WrapsAboveMax(a) == IF a > MAX THEN a - Size ELSE a

Wrapped(a) == IF a >= MAX THEN a - Size ELSE a

(* Back to the client; the locals are dead until the next call.            *)
Return ==
    /\ pc' = "idle"
    /\ nextCmd' = MIN /\ seen' = MIN /\ bytes' = 0 /\ done' = 0
    /\ filled' = 0
    /\ UNCHANGED tag

(* NEXT_CMD is written once for the whole commit...                        *)
Publish ==
    /\ pc = "publish"
    /\ Unread + bytes < Size
    /\ next' = Wrapped(nextCmd + bytes)
    /\ stream' = stream \o [i \in 1 .. bytes |-> Entry(i)]
    /\ IF reserveable THEN pc' = "clear" /\ UNCHANGED <<nextCmd, seen, bytes, done, client>>
                      ELSE Return
    /\ UNCHANGED <<stop, resv, mem, reserveable, overrun, driver>>

ClearReservation ==
    /\ pc = "clear"
    /\ resv' = 0
    /\ Return
    /\ UNCHANGED <<next, stop, mem, reserveable, overrun, driver, stream>>

(* ...or after each word: the slowest path copies a word, then advances    *)
(* NEXT_CMD over it.                                                       *)
Bounced(n) == IF n <= BOUNCE THEN bounce[n] ELSE JUNK
CopyWord ==
    /\ pc = "copy"
    /\ bytes > 0
    /\ mem' = [mem EXCEPT ![nextCmd] = Bounced(done + 1)]
    /\ pc' = "advance"
    /\ UNCHANGED <<next, stop, resv, reserveable, overrun, driver, nextCmd, seen, bytes, done,
                   client, stream>>

Advance ==
    /\ pc = "advance"
    /\ Unread + 1 < Size
    /\ nextCmd' = Wrapped(nextCmd + 1)
    /\ next' = nextCmd'
    /\ stream' = Append(stream, Entry(done + 1))
    /\ bytes' = bytes - 1 /\ done' = done + 1
    /\ pc' = "copy"
    /\ UNCHANGED <<stop, resv, mem, reserveable, overrun, driver, seen, client>>

CopyDone ==
    /\ pc = "copy"
    /\ bytes = 0
    /\ Return
    /\ UNCHANGED <<device, reserveable, overrun, driver, stream>>

(* The rest of those steps: a commit of a size no reservation tested takes *)
(* NEXT_CMD over words the device has yet to read, or out of the ring, or  *)
(* off its dwords (2^32 wraps included), or the copy out of the bounce     *)
(* buffer.  The driver goes on in memory it does not own, of which nothing *)
(* can be said: the behaviour ends with what it had before.                *)
RunOff ==
    /\ overrun = 0
    /\ \/ pc = "idle" /\ reservedSize = RAGGED /\ overrun' = RAGGED
       \/ pc = "bulk" /\ bytes > BOUNCE /\ overrun' = bytes
       \/ pc = "publish" /\ Unread + bytes >= Size /\ overrun' = bytes
       \/ pc = "advance" /\ Unread + 1 >= Size /\ overrun' = done + bytes
    /\ UNCHANGED <<device, reserveable, driver, locals, client, stream>>

Lost == overrun # 0 /\ UNCHANGED vars

-----------------------------------------------------------------------------
(* The device (external) *)

(* It reads the word at STOP.                                              *)
DeviceRead ==
    /\ overrun = 0
    /\ next # stop
    /\ stop' = Forward(stop, 1)
    /\ stream' = Tail(stream)
    /\ UNCHANGED <<next, resv, mem, reserveable, overrun, driver, locals, client>>

(* The words a checkpoint keeps: those published, and RESERVED dwords past *)
(* NEXT_CMD or one where the device has no such register.                  *)
Kept == UnreadSlots \cup {Forward(next, i) : i \in 0 .. (IF reserveable THEN resv ELSE 1) - 1}

Checkpoint ==
    /\ overrun = 0
    /\ mem' = [a \in Slots |-> IF a \in Kept THEN mem[a] ELSE JUNK]
    /\ UNCHANGED <<next, stop, resv, reserveable, overrun, driver, locals, client, stream>>

-----------------------------------------------------------------------------
Driver ==
    \/ Look \/ ReserveInPlace \/ ReserveBounce \/ Full \/ FullReturns
    \/ Announce \/ BulkCopy \/ Publish \/ ClearReservation
    \/ CopyWord \/ Advance \/ CopyDone

Client ==
    \/ \E n \in Sizes, t \in Tags : ReserveCall(n, t)
    \/ Fill
    \/ \E n \in 0 .. bytes : Commit(n)
    \/ FenceRefused

Next == Driver \/ Client \/ DeviceRead \/ Checkpoint \/ RunOff \/ Lost

Spec == Init /\ [][Next]_vars

(* The kernel's one thread runs the driver.  The device owes progress only *)
(* while FIFO_Full makes it process commands (SVGA_REG_SYNC, then a read   *)
(* of SVGA_REG_BUSY), as often as the driver comes back to that point.     *)
FairSpec ==
    /\ Spec
    /\ WF_vars(Driver)
    /\ SF_vars(pc = "full" /\ DeviceRead)

-----------------------------------------------------------------------------
(* Properties *)

TypeOK ==
    /\ next \in Slots /\ stop \in Slots
    /\ resv \in Nat
    /\ mem \in [Slots -> Words]
    /\ reserveable \in BOOLEAN
    /\ reservedSize \in Nat \cup {RAGGED}
    /\ usingBounce \in BOOLEAN
    /\ bounce \in [1 .. BOUNCE -> Words]
    /\ pc \in {"idle", "look", "decide", "full", "held", "announce", "bulk", "publish",
               "clear", "copy", "advance"}
    /\ nextCmd \in Slots /\ seen \in Slots
    /\ bytes \in Nat /\ done \in Nat
    /\ filled \in 0 .. BOUNCE
    /\ tag \in Tags
    /\ stream \in Seq([word : Words, via : {"client", "bulk", "stray"}])
    /\ overrun \in Nat \cup {RAGGED}

(* The registers tell the device exactly what was published and not read:  *)
(* the FIFO is never filled up, which NEXT_CMD = STOP would make look      *)
(* empty.  Only a commit nobody reserved can break this, the one of the    *)
(* size reservedSize happened to hold, and only with one that does not fit.*)
PointersMatchStream ==
    /\ overrun = 0 => Len(stream) = Unread
    /\ overrun # 0 => filled = 0 /\ ~Fits(overrun)

(* The pointer FIFO_Reserve returned covers bytes words in a row, none of  *)
(* them one the device has yet to read, however STOP moved meanwhile.      *)
ReservationIsFree ==
    overrun = 0 /\ pc = "held" /\ ~usingBounce =>
        /\ nextCmd = next
        /\ nextCmd + bytes <= MAX
        /\ (nextCmd .. nextCmd + bytes - 1) \cap UnreadSlots = {}

(* A word a client wrote and committed is what the device reads, across    *)
(* wraps, waits and checkpoints taken at any point of the commit.          *)
Delivered(kind) ==
    \A i \in 1 .. Len(stream) :
        stream[i].via = kind => mem[Forward(stop, i - 1)] = stream[i].word
ClientWordsDelivered == overrun = 0 => Delivered("client")

(* The FIFO is a queue for the device, whatever the driver wrote into it:  *)
(* words are added behind those it has to read and never change, until a   *)
(* commit runs over them.                                                  *)
Contents == [i \in 1 .. Unread |-> mem[Forward(stop, i - 1)]]
Queue == INSTANCE CommandStream WITH Capacity <- Size - 1, queue <- Contents,
                                       broken <- overrun # 0
ImplementsStream == Queue!Spec

(* A reservation that leaves a word of the FIFO free is granted: FIFO_Full *)
(* is not called for ever.  (The size check lets through one of the whole  *)
(* FIFO too, which none of the space tests can ever grant.)                *)
ReserveReturns == (pc = "look" /\ bytes < Size) ~> (pc = "held")

(* What it owes to the driver alone, whatever the device does: nothing is  *)
(* published while FIFO_Reserve goes round, FIFO_Full is called only with  *)
(* words to wait for or for a command as large as the FIFO, and such a     *)
(* command, which passes the size check, is never granted.                 *)
Reserving == pc \in {"look", "decide", "full"}
ReserveAdvances ==
    [][Reserving =>
          \/ pc' = "held" /\ bytes < Size
          \/ /\ Reserving' /\ Unread' <= Unread
             /\ pc' = "full" /\ pc # "full" => seen # nextCmd \/ bytes >= Size]_vars

(* No word goes out that nobody wrote: the fence InsertFence commits after *)
(* a refusal needs a reservation nobody made, the one reservedSize may     *)
(* hold because no constructor sets it.                                    *)
NothingStray == \A n \in 1 .. Len(stream) : stream[n].via # "stray"

(* "Slow path: bulk copy out of a bounce buffer": the words the client     *)
(* wrote into the bounce buffer are what the device reads.                 *)
BulkWordsDelivered == Delivered("bulk")
=============================================================================
