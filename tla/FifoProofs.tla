----------------------------- MODULE FifoProofs -----------------------------
(***************************************************************************)
(* Proofs about SvgaFifo: for every FIFO, bounce buffer, command and tag,  *)
(* the registers tell the device what was published, reservations never    *)
(* reach words it has to read, committed words reach it unchanged, and the *)
(* FIFO implements CommandStream.                                          *)
(***************************************************************************)
EXTENDS SvgaFifo, SequenceTheorems, TLAPS

Reserved == {"look", "decide", "full", "held"}
Committing == {"announce", "bulk", "publish", "copy", "advance"}

(* The words at NEXT_CMD the device cannot be told to read without the     *)
(* FIFO looking empty.                                                     *)
Free == Size - 1 - Unread

(* Dwords from slot b to slot a.                                           *)
Ahead(a, b) == IF a >= b THEN a - b ELSE a - b + Size

(* What the driver knows about the space: STOP may only have moved on      *)
(* since it was read, so what was free then still is.  A commit takes free *)
(* words, or is one of a size that does not fit and nobody reserved.       *)
SpaceInv ==
    /\ pc \in Reserved \cup Committing => nextCmd = next
    /\ pc = "decide" => Unread <= Ahead(next, seen)
    /\ pc \in Reserved => reservedSize = bytes /\ bytes <= BOUNCE
    /\ pc = "held" => bytes <= Free /\ filled <= bytes
    /\ pc = "held" /\ ~usingBounce => next + bytes <= MAX
    /\ pc \in Committing =>
          \/ bytes <= Free /\ done + bytes <= BOUNCE
          \/ filled = 0 /\ ~Fits(done + bytes)
    /\ pc = "idle" => reservedSize = 0 \/ next = stop
    /\ pc \in Committing \cup {"clear"} => reservedSize = 0
    /\ pc \notin {"copy", "advance"} => done = 0
    /\ pc \in {"copy", "advance"} => usingBounce /\ ~reserveable
    /\ pc = "advance" => bytes > 0
    /\ pc \in {"announce", "bulk"} => usingBounce
    /\ pc \in {"announce", "bulk", "publish"} /\ usingBounce => reserveable
    /\ pc \in {"look", "decide", "full", "idle"} => filled = 0

(* Where RunOff leaves the driver no step but it is left.                  *)
Gone ==
    \/ pc = "idle" /\ reservedSize = RAGGED
    \/ pc = "bulk" /\ bytes > BOUNCE
    \/ pc = "publish" /\ Unread + bytes >= Size
    \/ pc = "advance" /\ Unread + 1 >= Size
OverrunInv == overrun # 0 => Gone /\ filled = 0 /\ ~Fits(overrun)

(* Words the client has written in place, and what of them a checkpoint    *)
(* keeps; words it has written into the bounce buffer.                     *)
InPlace == pc \in {"held", "publish"} /\ ~usingBounce
DataInv ==
    /\ InPlace /\ (pc = "held" \/ filled > 0) =>
          /\ next + bytes <= MAX
          /\ IF reserveable THEN bytes <= resv ELSE bytes <= 1
          /\ \A j \in 1 .. bytes : j <= filled => mem[next + j - 1] = WordOf(j)
    /\ pc \in {"held", "copy", "advance"} /\ usingBounce =>
          \A j \in 1 .. BOUNCE : j <= filled => bounce[j] = WordOf(j)
    /\ pc = "advance" => mem[next] = Bounced(done + 1)

(* PointersMatchStream and ClientWordsDelivered, of the states before a    *)
(* commit ran over as of the one RunOff leaves behind.                     *)
Matched == Len(stream) = Unread
Arrive == Delivered("client")

Inv == TypeOK /\ Matched /\ SpaceInv /\ DataInv /\ Arrive /\ OverrunInv

-----------------------------------------------------------------------------
(* Linear arithmetic of the ring of slots.                                 *)
LEMMA Bounds ==
    ASSUME TypeOK
    PROVE  /\ MIN \in Nat /\ MAX \in Nat /\ MIN < MAX /\ BOUNCE \in Nat
           /\ next \in MIN .. MAX - 1 /\ stop \in MIN .. MAX - 1
           /\ Size \in Nat /\ Size = MAX - MIN /\ Size > 0
           /\ Unread \in 0 .. Size - 1 /\ Free \in 0 .. Size - 1
BY FifoAssumption DEF TypeOK, Slots, Size, Unread, Free

LEMMA ForwardSlot ==
    ASSUME NEW a \in Slots, NEW n \in 0 .. Size
    PROVE  Forward(a, n) \in Slots
BY FifoAssumption DEF Forward, Slots, Size

(* The first words behind NEXT_CMD, up to what is free, are not unread.    *)
LEMMA FreeNotUnread ==
    ASSUME TypeOK, NEW k \in Nat, k <= Free, NEW i \in 0 .. Unread - 1
    PROVE  Forward(next, k) # Forward(stop, i)
BY Bounds DEF Forward, Unread, Free

(* Steps of the driver and the client that leave the words of the FIFO and *)
(* the pointers alone.                                                     *)
Quiet ==
    \/ \E n \in Sizes, t \in Tags : ReserveCall(n, t)
    \/ Look \/ ReserveInPlace \/ ReserveBounce \/ Full \/ FullReturns
    \/ \E n \in 0 .. bytes : Commit(n)
    \/ FenceRefused \/ Announce \/ BulkCopy \/ ClearReservation \/ CopyDone

(* A step of any of them finds and leaves nothing run over.                *)
LEMMA StepsRun ==
    ASSUME Inv, Quiet \/ Fill \/ CopyWord \/ Publish \/ Advance \/ DeviceRead \/ Checkpoint
    PROVE  overrun = 0 /\ overrun' = 0 /\ OverrunInv'
<1>1. overrun' = overrun
  BY DEF Quiet, ReserveCall, Look, ReserveInPlace, ReserveBounce, Full, FullReturns, Commit, CommitStart,
         FenceRefused, Announce, BulkCopy, ClearReservation, CopyDone, Fill, CopyWord, Publish, Advance,
         DeviceRead, Checkpoint
<1>2. Gone => overrun = 0
  <2> SUFFICES ASSUME Gone PROVE overrun = 0 OBVIOUS
  <2>0. /\ RAGGED # 0 /\ BOUNCE \in Nat /\ bytes \in Nat /\ Unread \in Int /\ Size \in Int
        /\ pc \in {"idle", "bulk", "publish", "advance"}
    BY FifoAssumption, Bounds DEF Inv, TypeOK, Gone
  <2>1. CASE Quiet
    BY <2>0, <2>1 DEF Gone, Quiet, ReserveCall, Accepted, Look, ReserveInPlace, ReserveBounce, Full, FullReturns,
           Commit, FenceRefused, Announce, BulkCopy, ClearReservation, CopyDone
  <2>2. CASE Fill \/ CopyWord BY <2>0, <2>2 DEF Fill, CopyWord
  <2>3. CASE Publish BY <2>0, <2>3 DEF Gone, Publish
  <2>4. CASE Advance BY <2>0, <2>4 DEF Gone, Advance
  <2>5. CASE DeviceRead \/ Checkpoint BY <2>5 DEF DeviceRead, Checkpoint
  <2> QED BY <2>1, <2>2, <2>3, <2>4, <2>5
<1> QED BY <1>1, <1>2 DEF Inv, OverrunInv

LEMMA QuietTypeOK ==
    ASSUME Inv, Quiet
    PROVE  TypeOK'
<1> USE DEF Inv
<1>0. /\ MIN \in Nat /\ MAX \in Nat /\ MIN < MAX /\ BOUNCE \in Nat /\ Size = MAX - MIN /\ MIN \in Slots /\ 0 \in 0 .. Size
      /\ Sizes \subseteq Nat /\ Slots = MIN .. MAX - 1
  BY FifoAssumption DEF Size, Slots
<1>1. UNCHANGED <<next, stop, mem, stream>>
  BY DEF Quiet, ReserveCall, Look, ReserveInPlace, ReserveBounce, Full, FullReturns, Commit, CommitStart,
         FenceRefused, Announce, BulkCopy, ClearReservation, CopyDone, device
<1>2. ASSUME NEW n \in Sizes, NEW t \in Tags, ReserveCall(n, t) PROVE TypeOK'
  BY <1>0, <1>2 DEF ReserveCall, Accepted, TypeOK, device
<1>3. CASE Look BY <1>3 DEF Look, TypeOK, device, driver, client
<1>4. CASE ReserveInPlace
  <2>2. resv' \in Nat BY <1>4 DEF ReserveInPlace, TypeOK
  <2> QED BY <1>4, <2>2 DEF ReserveInPlace, TypeOK, client
<1>5. CASE ReserveBounce BY <1>5 DEF ReserveBounce, TypeOK, device, client
<1>6. CASE Full \/ FullReturns BY <1>6 DEF Full, FullReturns, TypeOK, device, driver, client
<1>7. ASSUME NEW n \in 0 .. bytes, Commit(n) PROVE TypeOK'
  BY <1>0, <1>7 DEF Commit, CommitStart, TypeOK, device, client
<1>8. CASE FenceRefused
  BY <1>0, <1>8 DEF FenceRefused, CommitStart, TypeOK, device
<1>9. CASE Announce BY <1>9 DEF Announce, TypeOK, driver, client
<1>10. CASE BulkCopy
  <2>1. \A a : WordAt(a) \in Words BY DEF WordAt, TypeOK, Words
  <2>2. bounce' \in [1 .. BOUNCE -> Words] BY <1>10, <2>1 DEF BulkCopy, TypeOK
  <2> QED BY <1>10, <2>2 DEF BulkCopy, TypeOK, device, client
<1>11. CASE ClearReservation \/ CopyDone
  BY <1>0, <1>11 DEF ClearReservation, CopyDone, Return, TypeOK, device, driver
<1> QED BY <1>2, <1>3, <1>4, <1>5, <1>6, <1>7, <1>8, <1>9, <1>10, <1>11 DEF Quiet

(* The driver's knowledge of the space: STOP read by Look says no more is  *)
(* free than there is, so the three tests of FIFO_Reserve are safe.        *)
LEMMA QuietSpaceInv ==
    ASSUME Inv, Quiet
    PROVE  SpaceInv'
<1> USE DEF Inv, SpaceInv, Reserved, Committing, Fits
<1>0. /\ MIN \in Nat /\ MAX \in Nat /\ MIN < MAX /\ BOUNCE \in Nat /\ Size = MAX - MIN /\ Sizes \subseteq Nat
      /\ next \in MIN .. MAX - 1 /\ stop \in MIN .. MAX - 1 /\ seen \in MIN .. MAX - 1
      /\ Unread \in 0 .. Size - 1 /\ Free \in 0 .. Size - 1 /\ Free = Size - 1 - Unread
      /\ bytes \in Nat /\ filled \in 0 .. BOUNCE /\ done \in Nat
      /\ reservedSize \in Nat \cup {RAGGED} /\ RAGGED \notin Nat
  BY FifoAssumption, Bounds DEF TypeOK, Slots, Free
<1>1. UNCHANGED <<next, stop, mem, stream, reserveable>> /\ Unread' = Unread /\ Free' = Free
  BY DEF Quiet, ReserveCall, Look, ReserveInPlace, ReserveBounce, Full, FullReturns, Commit, CommitStart,
         FenceRefused, Announce, BulkCopy, ClearReservation, CopyDone, device, Unread, Free, driver
<1>2. ASSUME NEW n \in Sizes, NEW t \in Tags, ReserveCall(n, t) PROVE SpaceInv'
  BY <1>0, <1>1, <1>2 DEF ReserveCall, Accepted
<1>3. CASE Look
  <2>1. Unread = Ahead(next, stop) BY DEF Unread, Ahead
  <2>2. Ahead(next, seen)' = Ahead(next, stop) BY <1>1, <1>3 DEF Look, Ahead
  <2> QED BY <1>0, <1>1, <1>3, <2>1, <2>2 DEF Look, driver, client
<1>4. CASE ReserveInPlace
  <2>1. bytes <= Free /\ next + bytes <= MAX
    BY <1>0, <1>4 DEF ReserveInPlace, Contiguous, Ahead
  <2> QED BY <1>0, <1>1, <1>4, <2>1 DEF ReserveInPlace, client
<1>5. CASE ReserveBounce
  <2>1. bytes <= Free
    BY <1>0, <1>5 DEF ReserveBounce, Contiguous, Split, Ahead
  <2> QED BY <1>0, <1>1, <1>5, <2>1 DEF ReserveBounce, client, device
<1>6. CASE Full \/ FullReturns
  BY <1>0, <1>1, <1>6 DEF Full, FullReturns, driver, client
<1>7. ASSUME NEW n \in 0 .. bytes, Commit(n) PROVE SpaceInv'
  BY <1>0, <1>1, <1>7 DEF Commit, CommitStart, client
<1>8. CASE FenceRefused
  <2>1. /\ pc = "idle" /\ reservedSize \in Nat /\ Unread = 0 /\ bytes' = reservedSize /\ done' = 0
        /\ filled' = 0 /\ reservedSize' = 0 /\ nextCmd' = next /\ usingBounce' = usingBounce
        /\ pc' \in {"publish", "announce", "copy"}
        /\ (pc' = "publish" => ~usingBounce) /\ (pc' = "announce" => usingBounce /\ reserveable)
        /\ (pc' = "copy" => usingBounce /\ ~reserveable)
    BY <1>0, <1>8 DEF FenceRefused, CommitStart, Unread
  <2>2. (bytes' <= Free' /\ done' + bytes' <= BOUNCE) \/ ~Fits(done' + bytes')
    BY <1>0, <1>1, <2>1
  <2> QED BY <1>1, <2>1, <2>2
<1>9. CASE Announce
  BY <1>0, <1>1, <1>9 DEF Announce, driver, client
<1>10. CASE BulkCopy
  BY <1>0, <1>1, <1>10 DEF BulkCopy, client
<1>11. CASE ClearReservation \/ CopyDone
  BY <1>0, <1>1, <1>11 DEF ClearReservation, CopyDone, Return, driver
<1> QED BY <1>2, <1>3, <1>4, <1>5, <1>6, <1>7, <1>8, <1>9, <1>10, <1>11 DEF Quiet

LEMMA QuietDataInv ==
    ASSUME Inv, Quiet
    PROVE  DataInv' /\ Matched' /\ Arrive'
<1> USE DEF Inv
<1>0. /\ MIN \in Nat /\ MAX \in Nat /\ MIN < MAX /\ BOUNCE \in Nat /\ Size = MAX - MIN /\ Sizes \subseteq Nat
      /\ bytes \in Nat /\ filled \in 0 .. BOUNCE /\ reservedSize \in Nat \cup {RAGGED}
      /\ done \in Nat /\ reserveable \in BOOLEAN /\ usingBounce \in BOOLEAN
  BY FifoAssumption, Bounds DEF TypeOK
<1>1. UNCHANGED <<next, stop, mem, stream, reserveable>>
  BY DEF Quiet, ReserveCall, Look, ReserveInPlace, ReserveBounce, Full, FullReturns, Commit, CommitStart,
         FenceRefused, Announce, BulkCopy, ClearReservation, CopyDone, device
<1>2. Matched' /\ Arrive'
  BY <1>1 DEF Matched, Arrive, Delivered, Unread, Forward
<1>3. DataInv'
  <2> USE DEF DataInv, InPlace, WordOf
  <2>2. ASSUME NEW n \in Sizes, NEW t \in Tags, ReserveCall(n, t) PROVE DataInv'
    BY <2>2 DEF ReserveCall
  <2>3. CASE Look \/ Full \/ FullReturns BY <2>3 DEF Look, Full, FullReturns
  <2>4. CASE ReserveInPlace \/ ReserveBounce
    <3>1. filled = 0 /\ UNCHANGED <<filled, bytes, next>> /\ pc' = "held"
      BY <2>4 DEF ReserveInPlace, ReserveBounce, SpaceInv, client, device
    <3>2. CASE ReserveBounce
      <4>1. usingBounce' = TRUE BY <3>2 DEF ReserveBounce
      <4> QED BY <1>0, <3>1, <4>1
    <3>3. CASE ReserveInPlace
      <4>1. SpaceInv' BY QuietSpaceInv
      <4>2. next + bytes <= MAX BY <3>1, <3>3, <4>1 DEF SpaceInv, ReserveInPlace
      <4>3. CASE reserveable
        <5>1. resv' = bytes BY <3>3, <4>3 DEF ReserveInPlace
        <5> QED BY <1>0, <1>1, <3>1, <4>2, <4>3, <5>1
      <4>4. CASE ~reserveable
        <5>1. bytes <= 1 BY <3>3, <4>4 DEF ReserveInPlace, SafeInPlace
        <5> QED BY <1>0, <1>1, <3>1, <4>2, <4>4, <5>1
      <4> QED BY <4>3, <4>4
    <3> QED BY <2>4, <3>2, <3>3
  <2>7. ASSUME NEW n \in 0 .. bytes, Commit(n) PROVE DataInv'
    <3>1. filled <= bytes /\ (~usingBounce => next + bytes <= MAX) BY <2>7 DEF Commit, SpaceInv
    <3>2. /\ pc = "held" /\ pc' \in {"idle", "publish", "announce", "copy"} /\ (pc' = "copy" => usingBounce)
          /\ UNCHANGED <<next, mem, resv, bounce, usingBounce, reserveable, filled, tag>> /\ bytes' = n
      BY <2>7 DEF Commit, CommitStart, client, device
    <3>3. CASE usingBounce BY <1>0, <3>2, <3>3
    <3>4. CASE ~usingBounce
      <4>1. n \in Nat /\ n <= bytes BY <1>0
      <4>2. CASE filled > 0
        <5>1. n <= bytes /\ next + n <= MAX
          BY <1>0, <4>1, <3>4, <3>2, <3>1 DEF TypeOK, Slots
        <5>2. IF reserveable THEN n <= resv ELSE n <= 1
          BY <1>0, <4>1, <4>2, <3>4, <3>2 DEF TypeOK
        <5> QED BY <1>0, <3>2, <3>4, <4>1, <4>2, <5>1, <5>2
      <4>3. CASE ~(filled > 0) BY <1>0, <3>2, <3>4, <4>3
      <4> QED BY <4>2, <4>3
    <3> QED BY <3>3, <3>4
  <2>8. CASE FenceRefused
    BY <1>0, <1>1, <2>8 DEF FenceRefused, CommitStart, SpaceInv
  <2>9. CASE Announce BY <2>9 DEF Announce
  <2>10. CASE BulkCopy BY <2>10, <1>1 DEF BulkCopy, SpaceInv
  <2>11. CASE ClearReservation \/ CopyDone
    BY <2>11 DEF ClearReservation, CopyDone, Return
  <2> QED BY <2>2, <2>3, <2>4, <2>7, <2>8, <2>9, <2>10, <2>11 DEF Quiet
<1> QED BY <1>2, <1>3

-----------------------------------------------------------------------------
(* Fill and CopyWord write words of the FIFO the device does not have to   *)
(* read; a checkpoint takes words it does not have to read.                *)
UnreadKept == \A i \in 0 .. Unread - 1 : mem'[Forward(stop, i)] = mem[Forward(stop, i)]

LEMMA UnreadKeptDelivers ==
    ASSUME Inv, UnreadKept, UNCHANGED <<next, stop, stream>>
    PROVE  Matched' /\ Arrive'
<1>1. Matched' BY DEF Matched, Inv, Unread
<1>2. ASSUME NEW i \in 1 .. Len(stream) PROVE mem'[Forward(stop, i - 1)] = mem[Forward(stop, i - 1)]
  <2>1. Len(stream) = Unread /\ Unread \in Nat BY Bounds DEF Inv, Matched
  <2>2. i - 1 \in 0 .. Unread - 1 BY <2>1
  <2> QED BY <2>2 DEF UnreadKept
<1>3. Arrive'
  BY <1>2 DEF Inv, Arrive, Delivered, Forward
<1> QED BY <1>1, <1>3

LEMMA FillKeepsInv ==
    ASSUME Inv, Fill
    PROVE  Inv' /\ UnreadKept
<1> USE DEF Inv
<1>0. /\ MIN \in Nat /\ MAX \in Nat /\ MIN < MAX /\ BOUNCE \in Nat /\ Size = MAX - MIN
      /\ next \in MIN .. MAX - 1 /\ Free \in 0 .. Size - 1 /\ Unread \in 0 .. Size - 1
      /\ bytes \in 0 .. BOUNCE /\ filled \in 0 .. BOUNCE /\ filled < bytes /\ filled' = filled + 1
      /\ overrun' = overrun
      /\ pc = "held" /\ pc' = "held" /\ bytes <= Free /\ nextCmd = next
      /\ UNCHANGED <<next, stop, resv, reserveable, reservedSize, usingBounce, nextCmd, seen, bytes, done, tag, stream>>
  BY FifoAssumption, Bounds DEF TypeOK, Fill, locals, SpaceInv, Reserved
<1>1. WordOf(filled + 1) \in Words
  BY <1>0 DEF WordOf, Words, TypeOK
<1>2. SpaceInv'
  BY <1>0 DEF SpaceInv, Reserved, Committing, Ahead, Free, Unread
<1>3. CASE usingBounce
  <2>1. bounce' = [bounce EXCEPT ![filled + 1] = WordOf(filled + 1)] /\ mem' = mem BY <1>3 DEF Fill
  <2>2. UnreadKept BY <2>1 DEF UnreadKept
  <2>3. TypeOK' BY <1>0, <1>1, <2>1 DEF TypeOK
  <2>4. DataInv'
    <3>1. \A j \in 1 .. BOUNCE : j <= filled => bounce[j] = WordOf(j) BY <1>0, <1>3 DEF DataInv
    <3>2. \A j \in 1 .. BOUNCE : j <= filled + 1 => bounce'[j] = WordOf(j)
      BY <1>0, <2>1, <3>1 DEF TypeOK
    <3> QED BY <1>0, <1>3, <3>2 DEF DataInv, InPlace, WordOf
  <2> QED BY <1>2, <2>2, <2>3, <2>4, <1>0, UnreadKeptDelivers, StepsRun
<1>4. CASE ~usingBounce
  <2>1. mem' = [mem EXCEPT ![next + filled] = WordOf(filled + 1)] /\ bounce' = bounce BY <1>0, <1>4 DEF Fill
  <2>2. next + bytes <= MAX /\ next + filled \in Slots
    <3>1. next + bytes <= MAX BY <1>0, <1>4 DEF SpaceInv
    <3> QED BY <1>0, <3>1 DEF Slots
  <2>3. UnreadKept
    <3>1. ASSUME NEW i \in 0 .. Unread - 1 PROVE mem'[Forward(stop, i)] = mem[Forward(stop, i)]
      <4>1. Forward(next, filled) # Forward(stop, i) BY <1>0, FreeNotUnread
      <4>2. Forward(next, filled) = next + filled BY <1>0, <2>2 DEF Forward, Slots
      <4>3. Forward(stop, i) \in Slots
        <5>1. stop \in Slots /\ i \in 0 .. Size BY <1>0 DEF TypeOK
        <5> QED BY <5>1, ForwardSlot
      <4> QED BY <2>1, <4>1, <4>2, <4>3 DEF TypeOK
    <3> QED BY <3>1 DEF UnreadKept
  <2>4. TypeOK' BY <1>0, <1>1, <2>1, <2>2 DEF TypeOK
  <2>5. DataInv'
    <3>1. /\ IF reserveable THEN bytes <= resv ELSE bytes <= 1
          /\ \A j \in 1 .. bytes : j <= filled => mem[next + j - 1] = WordOf(j)
      BY <1>0, <1>4 DEF DataInv, InPlace
    <3>2. ASSUME NEW j \in 1 .. bytes, j <= filled + 1 PROVE mem'[next + j - 1] = WordOf(j)
      <4>1. next + j - 1 \in Slots BY <1>0, <2>2 DEF Slots
      <4>2. CASE j = filled + 1
        <5>1. next + j - 1 = next + filled BY <1>0, <4>2
        <5> QED BY <2>1, <2>2, <4>2, <5>1 DEF TypeOK
      <4>3. CASE j # filled + 1
        <5>1. j <= filled /\ next + j - 1 # next + filled BY <1>0, <3>2, <4>3
        <5> QED BY <2>1, <3>1, <4>1, <5>1 DEF TypeOK
      <4> QED BY <4>2, <4>3
    <3> QED BY <1>0, <1>4, <2>2, <3>1, <3>2 DEF DataInv, InPlace, WordOf
  <2> QED BY <1>2, <2>3, <2>4, <2>5, <1>0, UnreadKeptDelivers, StepsRun
<1> QED BY <1>3, <1>4

LEMMA CopyWordKeepsInv ==
    ASSUME Inv, CopyWord
    PROVE  Inv' /\ UnreadKept
<1> USE DEF Inv
<1>0. /\ MIN \in Nat /\ MAX \in Nat /\ MIN < MAX /\ BOUNCE \in Nat /\ Size = MAX - MIN
      /\ next \in MIN .. MAX - 1 /\ Free \in 0 .. Size - 1 /\ Unread \in 0 .. Size - 1
      /\ bytes \in Nat /\ bytes > 0 /\ done \in Nat
      /\ pc = "copy" /\ pc' = "advance" /\ nextCmd = next /\ next \in Slots /\ usingBounce /\ ~reserveable
      /\ mem' = [mem EXCEPT ![next] = Bounced(done + 1)]
      /\ UNCHANGED <<next, stop, resv, reserveable, overrun, driver, nextCmd, seen, bytes, done, client, stream>>
  BY FifoAssumption, Bounds DEF TypeOK, CopyWord, SpaceInv, Reserved, Committing
<1>1. Bounced(done + 1) \in Words
  <2>1. JUNK \in Words BY DEF Words
  <2> QED BY <1>0, <2>1 DEF Bounced, TypeOK
<1>2. TypeOK' BY <1>0, <1>1 DEF TypeOK, driver, client
<1>3. SpaceInv' BY <1>0 DEF SpaceInv, Reserved, Committing, Ahead, Free, Unread, driver, client
<1>4. DataInv'
  <2>1. mem'[next] = Bounced(done + 1) BY <1>0 DEF TypeOK
  <2> QED BY <1>0, <2>1 DEF DataInv, InPlace, WordOf, Bounced, driver, client
<1>5. UnreadKept
  <2>1. ASSUME NEW i \in 0 .. Unread - 1 PROVE mem'[Forward(stop, i)] = mem[Forward(stop, i)]
    <3>1. Forward(next, 0) # Forward(stop, i) BY <1>0, FreeNotUnread
    <3>2. Forward(next, 0) = next BY <1>0 DEF Forward
    <3>3. Forward(stop, i) \in Slots
      <4>1. stop \in Slots /\ i \in 0 .. Size BY <1>0 DEF TypeOK
      <4> QED BY <4>1, ForwardSlot
    <3> QED BY <1>0, <3>1, <3>2, <3>3 DEF TypeOK
  <2> QED BY <2>1 DEF UnreadKept
<1> QED BY <1>0, <1>2, <1>3, <1>4, <1>5, UnreadKeptDelivers, StepsRun

LEMMA CheckpointKeepsInv ==
    ASSUME Inv, Checkpoint
    PROVE  Inv' /\ UnreadKept
<1> USE DEF Inv
<1>0. /\ MIN \in Nat /\ MAX \in Nat /\ MIN < MAX /\ BOUNCE \in Nat /\ Size = MAX - MIN
      /\ next \in MIN .. MAX - 1 /\ Free \in 0 .. Size - 1 /\ Unread \in 0 .. Size - 1
      /\ bytes \in Nat /\ filled \in 0 .. BOUNCE /\ resv \in Nat /\ next \in Slots
      /\ mem' = [a \in Slots |-> IF a \in Kept THEN mem[a] ELSE JUNK]
      /\ UNCHANGED <<next, stop, resv, reserveable, overrun, driver, locals, client, stream>>
  BY FifoAssumption, Bounds DEF TypeOK, Checkpoint
<1>1. TypeOK'
  <2>1. JUNK \in Words BY DEF Words
  <2>2. mem' \in [Slots -> Words] BY <1>0, <2>1 DEF TypeOK
  <2> QED BY <1>0, <2>2 DEF TypeOK, driver, locals, client
<1>2. SpaceInv' BY <1>0 DEF SpaceInv, Reserved, Committing, Ahead, Free, Unread, driver, locals, client
<1>3. UnreadKept
  <2>1. ASSUME NEW i \in 0 .. Unread - 1 PROVE mem'[Forward(stop, i)] = mem[Forward(stop, i)]
    <3>1. Forward(stop, i) \in Kept BY DEF Kept, UnreadSlots
    <3>2. Forward(stop, i) \in Slots
      <4>1. stop \in Slots /\ i \in 0 .. Size BY <1>0 DEF TypeOK
      <4> QED BY <4>1, ForwardSlot
    <3> QED BY <1>0, <3>1, <3>2
  <2> QED BY <2>1 DEF UnreadKept
<1>4. DataInv'
  <2>1. ASSUME InPlace, pc = "held" \/ filled > 0, NEW j \in 1 .. bytes, j <= filled
        PROVE  mem'[next + j - 1] = mem[next + j - 1]
    <3>1. next + bytes <= MAX /\ (IF reserveable THEN bytes <= resv ELSE bytes <= 1) BY <2>1 DEF DataInv
    <3>2. next + j - 1 \in Slots /\ next + j - 1 = Forward(next, j - 1) BY <1>0, <3>1 DEF Slots, Forward
    <3>3. j - 1 \in 0 .. (IF reserveable THEN resv ELSE 1) - 1 BY <1>0, <3>1
    <3>4. next + j - 1 \in Kept BY <3>2, <3>3 DEF Kept
    <3> QED BY <1>0, <3>2, <3>4
  <2>2. ASSUME pc = "advance" PROVE mem'[next] = mem[next]
    <3>1. ~reserveable BY <2>2 DEF SpaceInv
    <3>2. next = Forward(next, 0) /\ 0 \in 0 .. (IF reserveable THEN resv ELSE 1) - 1 BY <1>0, <3>1 DEF Forward
    <3> QED BY <1>0, <3>2 DEF Kept
  <2> QED BY <1>0, <2>1, <2>2 DEF DataInv, InPlace, WordOf, Bounced, driver, locals, client
<1> QED BY <1>0, <1>1, <1>2, <1>3, <1>4, UnreadKeptDelivers, StepsRun

-----------------------------------------------------------------------------
(* Publishing n words of the free space.                                   *)
Entries == [word : Words, via : {"client", "bulk", "stray"}]

LEMMA WrappedForward ==
    ASSUME NEW a \in Slots, NEW n \in Nat
    PROVE  Wrapped(a + n) = Forward(a, n)
BY FifoAssumption DEF Wrapped, Forward, Slots, Size

LEMMA NextMoves ==
    ASSUME TypeOK, NEW n \in Nat, n <= Free, next' = Forward(next, n), stop' = stop
    PROVE  /\ next' \in Slots /\ Unread' = Unread + n /\ Free' = Free - n
           /\ \A i \in 1 .. n : Forward(stop, Unread + i - 1) = Forward(next, i - 1)
<1>1. Unread' = Unread + n BY Bounds DEF Forward, Unread, Free
<1>2. next' \in Slots BY Bounds DEF Forward, Slots, Free
<1>3. Free' = Free - n BY <1>1, Bounds DEF Free
<1>4. ASSUME NEW i \in 1 .. n PROVE Forward(stop, Unread + i - 1) = Forward(next, i - 1)
  BY Bounds DEF Forward, Unread, Free
<1> QED BY <1>1, <1>2, <1>3, <1>4

LEMMA PublishedDelivers ==
    ASSUME Inv, NEW n \in Nat, n <= Free, NEW e \in Seq(Entries), Len(e) = n,
           \A i \in 1 .. n : e[i].via = "client" => mem[Forward(next, i - 1)] = e[i].word,
           next' = Forward(next, n), stop' = stop, mem' = mem, stream' = stream \o e
    PROVE  stream' \in Seq(Entries) /\ Matched' /\ Arrive'
<1> USE DEF Inv
<1>1. stream \in Seq(Entries) /\ Len(stream) = Unread BY DEF TypeOK, Entries, Matched
<1>2. Unread \in Nat /\ Unread' = Unread + n BY Bounds, NextMoves
<1>3. stream' \in Seq(Entries) /\ Len(stream') = Unread + n
      /\ \A i \in 1 .. Unread + n : stream'[i] = IF i <= Unread THEN stream[i] ELSE e[i - Unread]
  BY <1>1, <1>2, ConcatProperties
<1>4. ASSUME NEW i \in 1 .. Unread + n, stream'[i].via = "client"
      PROVE  mem[Forward(stop, i - 1)] = stream'[i].word
  <2>1. CASE i <= Unread
    <3>1. i \in 1 .. Len(stream) /\ stream'[i] = stream[i] BY <1>1, <1>2, <1>3, <2>1
    <3> QED BY <1>4, <3>1 DEF Arrive, Delivered
  <2>2. CASE i > Unread
    <3>1. i - Unread \in 1 .. n /\ stream'[i] = e[i - Unread] /\ Unread + (i - Unread) - 1 = i - 1
      BY <1>2, <1>3, <2>2
    <3>2. Forward(stop, Unread + (i - Unread) - 1) = Forward(next, (i - Unread) - 1) BY <3>1, NextMoves
    <3> QED BY <1>4, <3>1, <3>2
  <2>3. i <= Unread \/ i > Unread BY <1>2
  <2> QED BY <2>1, <2>2, <2>3
<1>5. Arrive'
  BY <1>3, <1>4 DEF Arrive, Delivered, Forward
<1> QED BY <1>2, <1>3, <1>5 DEF Matched

LEMMA PublishKeepsInv ==
    ASSUME Inv, Publish
    PROVE  Inv' /\ bytes <= Free /\ next' = Forward(next, bytes)
<1> USE DEF Inv
<1>0. /\ MIN \in Nat /\ MAX \in Nat /\ MIN < MAX /\ BOUNCE \in Nat /\ Size = MAX - MIN /\ Slots = MIN .. MAX - 1
      /\ next \in MIN .. MAX - 1 /\ Free \in 0 .. Size - 1 /\ Unread \in 0 .. Size - 1
      /\ bytes \in Nat /\ filled \in 0 .. BOUNCE /\ next \in Slots /\ tag \in Tags
      /\ pc = "publish" /\ nextCmd = next /\ bytes <= Free /\ done = 0 /\ reservedSize = 0
      /\ UNCHANGED <<stop, resv, mem, reserveable, overrun, driver>>
  BY FifoAssumption, Bounds DEF TypeOK, Publish, SpaceInv, Reserved, Committing, Slots, Free
<1> DEFINE e == [i \in 1 .. bytes |-> Entry(i)]
<1>1. next' = Forward(next, bytes) /\ stream' = stream \o e BY <1>0, WrappedForward DEF Publish
<1>2. e \in Seq(Entries) /\ Len(e) = bytes
  <2>1. ASSUME NEW i \in 1 .. bytes PROVE Entry(i) \in Entries
    <3>1. i <= filled => WordOf(i) \in Words BY <1>0 DEF WordOf, Words
    <3>2. JUNK \in Words BY DEF Words
    <3> QED BY <1>0, <3>1, <3>2 DEF Entry, Entries
  <2> QED BY <1>0, <2>1
<1>3. ASSUME NEW i \in 1 .. bytes, e[i].via = "client" PROVE mem[Forward(next, i - 1)] = e[i].word
  <2>1. e[i].word = WordOf(i) /\ i <= filled /\ ~(usingBounce /\ reserveable) BY <1>0, <1>3 DEF Entry
  <2>2. ~usingBounce /\ filled > 0 BY <1>0, <2>1 DEF SpaceInv
  <2>3. next + bytes <= MAX /\ mem[next + i - 1] = WordOf(i) BY <1>0, <2>1, <2>2 DEF DataInv, InPlace
  <2>4. Forward(next, i - 1) = next + i - 1 BY <1>0, <2>3 DEF Forward
  <2> QED BY <2>1, <2>3, <2>4
<1>4. stream' \in Seq(Entries) /\ Matched' /\ Arrive'
  <2> HIDE DEF e
  <2>1. bytes \in Nat /\ stop' = stop /\ mem' = mem BY <1>0
  <2> QED BY <2>1, <1>0, <1>1, <1>2, <1>3, PublishedDelivers
<1>5. next' \in Slots /\ Free' = Free - bytes BY <1>0, <1>1, NextMoves
<1>6. \/ pc' = "clear" /\ UNCHANGED <<nextCmd, seen, bytes, done, client>>
      \/ pc' = "idle" /\ nextCmd' = MIN /\ seen' = MIN /\ bytes' = 0 /\ done' = 0 /\ filled' = 0 /\ UNCHANGED tag
  BY DEF Publish, Return
<1>7. TypeOK'
  BY <1>0, <1>4, <1>5, <1>6 DEF TypeOK, driver, client, Entries
<1>8. SpaceInv' BY <1>0, <1>5, <1>6 DEF SpaceInv, Reserved, Committing, driver, client
<1>9. DataInv' BY <1>6 DEF DataInv, InPlace
<1> QED BY <1>0, <1>1, <1>4, <1>7, <1>8, <1>9, StepsRun

LEMMA AdvanceKeepsInv ==
    ASSUME Inv, Advance
    PROVE  Inv' /\ Free >= 1 /\ next' = Forward(next, 1) /\ UNCHANGED <<stop, mem>>
<1> USE DEF Inv
<1>0. /\ MIN \in Nat /\ MAX \in Nat /\ MIN < MAX /\ BOUNCE \in Nat /\ Size = MAX - MIN /\ Slots = MIN .. MAX - 1
      /\ next \in MIN .. MAX - 1 /\ Free \in 0 .. Size - 1 /\ Unread \in 0 .. Size - 1
      /\ bytes \in Nat /\ bytes > 0 /\ filled \in 0 .. BOUNCE /\ next \in Slots /\ tag \in Tags
      /\ done \in Nat /\ usingBounce /\ ~reserveable
      /\ pc = "advance" /\ pc' = "copy" /\ nextCmd = next /\ Free >= 1 /\ reservedSize = 0
      /\ UNCHANGED <<stop, resv, mem, reserveable, overrun, driver, seen, client>>
      /\ bytes' = bytes - 1 /\ done' = done + 1 /\ nextCmd' = next'
  BY FifoAssumption, Bounds DEF TypeOK, Advance, SpaceInv, Reserved, Committing, Slots, Free
<1> DEFINE e == <<Entry(done + 1)>>
<1>1. next' = Forward(next, 1) BY <1>0, WrappedForward DEF Advance
<1>2. e \in Seq(Entries) /\ Len(e) = 1 /\ e[1] = Entry(done + 1)
  <2>1. done + 1 <= filled => WordOf(done + 1) \in Words BY <1>0 DEF WordOf, Words
  <2>3. JUNK \in Words BY DEF Words
  <2>2. Entry(done + 1) \in Entries BY <1>0, <2>1, <2>3 DEF Entry, Entries
  <2> QED BY <2>2
<1>3. stream' = stream \o e BY AppendIsConcat DEF Advance, TypeOK
<1>4. ASSUME NEW i \in 1 .. 1, e[i].via = "client" PROVE mem[Forward(next, i - 1)] = e[i].word
  <2>1. i = 1 /\ Forward(next, i - 1) = next BY <1>0 DEF Forward
  <2>2. e[i].word = WordOf(done + 1) /\ done + 1 <= filled BY <1>0, <1>2, <1>4, <2>1 DEF Entry
  <2>3. bounce[done + 1] = WordOf(done + 1) /\ mem[next] = bounce[done + 1]
    BY <1>0, <2>2 DEF DataInv, Bounced
  <2> QED BY <2>1, <2>2, <2>3
<1>5. stream' \in Seq(Entries) /\ Matched' /\ Arrive'
  <2> HIDE DEF e
  <2>1. 1 \in Nat /\ 1 <= Free /\ stop' = stop /\ mem' = mem BY <1>0
  <2> QED BY <2>1, <1>1, <1>2, <1>3, <1>4, PublishedDelivers
<1>6. next' \in Slots /\ Free' = Free - 1 BY <1>0, <1>1, NextMoves
<1>7. TypeOK'
  BY <1>0, <1>5, <1>6 DEF TypeOK, driver, client, Entries
<1>8. SpaceInv' BY <1>0, <1>6 DEF SpaceInv, Reserved, Committing, driver, client
<1>9. DataInv' BY <1>0 DEF DataInv, InPlace, driver, client, WordOf
<1> QED BY <1>0, <1>1, <1>5, <1>7, <1>8, <1>9, StepsRun

(* The device reads: what is unread shrinks from its front.                *)
LEMMA DeviceReadKeepsInv ==
    ASSUME Inv, DeviceRead
    PROVE  /\ Inv' /\ Unread > 0 /\ Unread' = Unread - 1
           /\ \A i \in 1 .. Unread - 1 : Forward(stop', i - 1) = Forward(stop, i)
<1> USE DEF Inv
<1>0. /\ MIN \in Nat /\ MAX \in Nat /\ MIN < MAX /\ BOUNCE \in Nat /\ Size = MAX - MIN /\ Slots = MIN .. MAX - 1
      /\ next \in MIN .. MAX - 1 /\ stop \in MIN .. MAX - 1 /\ seen \in MIN .. MAX - 1
      /\ Unread \in 0 .. Size - 1 /\ Free \in 0 .. Size - 1 /\ next # stop
      /\ stop' = Forward(stop, 1) /\ stream' = Tail(stream) /\ bytes \in Nat /\ done \in Nat
      /\ UNCHANGED <<next, resv, mem, reserveable, overrun, driver, locals, client>>
  BY FifoAssumption, Bounds DEF TypeOK, DeviceRead, Slots
<1>1. Unread > 0 /\ Unread' = Unread - 1 /\ Free' = Free + 1 /\ stop' \in Slots
  BY <1>0 DEF Unread, Free, Forward
<1>2. ASSUME NEW i \in 1 .. Unread - 1 PROVE Forward(stop', i - 1) = Forward(stop, i)
  BY <1>0 DEF Unread, Forward
<1>3. stream \in Seq(Entries) /\ Len(stream) = Unread BY DEF TypeOK, Entries, Matched
<1>4. /\ Tail(stream) \in Seq(Entries) /\ Len(Tail(stream)) = Unread - 1
      /\ \A i \in 1 .. Unread - 1 : Tail(stream)[i] = stream[i + 1]
  BY <1>0, <1>1, <1>3
<1>5. Arrive'
  <2>1. ASSUME NEW i \in 1 .. Unread - 1, stream'[i].via = "client"
        PROVE  mem[Forward(stop', i - 1)] = stream'[i].word
    <3>1. stream'[i] = stream[i + 1] /\ i + 1 \in 1 .. Len(stream) /\ (i + 1) - 1 = i BY <1>0, <1>3, <1>4
    <3>2. mem[Forward(stop, i)] = stream[i + 1].word
      BY <2>1, <3>1 DEF Arrive, Delivered
    <3> QED BY <1>2, <3>1, <3>2
  <2> QED BY <1>0, <1>4, <2>1 DEF Arrive, Delivered, Forward
<1>6. Matched' BY <1>0, <1>1, <1>4 DEF Matched
<1>7. TypeOK' BY <1>0, <1>1, <1>4 DEF TypeOK, driver, locals, client, Entries
<1>8. SpaceInv'
  <2>1. Ahead(next, seen)' = Ahead(next, seen) BY <1>0 DEF Ahead, locals
  <2>2. pc' = "decide" => Unread' <= Ahead(next, seen)'
    BY <1>0, <1>1, <2>1 DEF SpaceInv, Ahead, locals
  <2> QED BY <1>0, <1>1, <2>2 DEF SpaceInv, Reserved, Committing, driver, locals, client
<1>9. DataInv' BY <1>0 DEF DataInv, InPlace, driver, locals, client, WordOf, Bounced
<1> QED BY <1>1, <1>2, <1>5, <1>6, <1>7, <1>8, <1>9, StepsRun

-----------------------------------------------------------------------------
LEMMA InitEstablishesInv == Init => Inv
<1> SUFFICES ASSUME Init PROVE Inv OBVIOUS
<1>1. /\ MIN \in Nat /\ MAX \in Nat /\ MIN < MAX /\ BOUNCE \in Nat /\ Size = MAX - MIN /\ MIN \in Slots
      /\ reservedSize \in Nat \cup {RAGGED} /\ JUNK \in Words
  BY FifoAssumption DEF Init, Size, Slots, Words
<1>2. Unread = 0 /\ Free = Size - 1 BY <1>1 DEF Init, Unread, Free
<1>3. TypeOK BY <1>1 DEF Init, TypeOK
<1>4. Matched /\ Arrive
  BY <1>2 DEF Init, Matched, Arrive, Delivered
<1>5. SpaceInv BY <1>1, <1>2 DEF Init, SpaceInv, Reserved, Committing
<1>6. DataInv BY DEF Init, DataInv, InPlace
<1> QED BY <1>3, <1>4, <1>5, <1>6 DEF Inv, Init, OverrunInv

LEMMA QuietKeepsInv ==
    ASSUME Inv, Quiet
    PROVE  Inv' /\ UNCHANGED <<next, stop, mem>>
<1>1. UNCHANGED <<next, stop, mem>>
  BY DEF Quiet, ReserveCall, Look, ReserveInPlace, ReserveBounce, Full, FullReturns, Commit, CommitStart,
         FenceRefused, Announce, BulkCopy, ClearReservation, CopyDone, device
<1> QED BY <1>1, QuietTypeOK, QuietSpaceInv, QuietDataInv, StepsRun DEF Inv

(* The kinds of step the FIFO makes.                                       *)
LEMMA StepKinds ==
    Next => Quiet \/ Fill \/ CopyWord \/ Publish \/ Advance \/ DeviceRead \/ Checkpoint \/ RunOff \/ Lost
BY DEF Next, Driver, Client, Quiet

(* Only the ghost of what ran over may change.                             *)
Same == UNCHANGED <<device, reserveable, driver, locals, client, stream>>

LEMMA SameKeepsInv ==
    ASSUME Inv, Same, overrun' \in Nat \cup {RAGGED}, OverrunInv'
    PROVE  Inv'
<1>1. TypeOK' BY DEF Inv, Same, TypeOK, device, driver, locals, client
<1>2. Matched' /\ Arrive'
  BY DEF Inv, Same, Matched, Arrive, Delivered, Unread, Forward, device
<1>3. SpaceInv' BY DEF Inv, Same, SpaceInv, Reserved, Committing, Ahead, Free, Unread, device, driver, locals, client
<1>4. DataInv' BY DEF Inv, Same, DataInv, InPlace, WordOf, Bounced, device, driver, locals, client
<1> QED BY <1>1, <1>2, <1>3, <1>4 DEF Inv

LEMMA StutterKeepsInv ==
    ASSUME Inv, UNCHANGED vars
    PROVE  Inv'
<1>1. Same /\ overrun' = overrun BY DEF vars, Same
<1>2. overrun' \in Nat \cup {RAGGED} BY <1>1 DEF Inv, TypeOK
<1>3. OverrunInv'
  BY <1>1 DEF Inv, OverrunInv, Gone, Same, Unread, device, driver, locals, client
<1> QED BY <1>1, <1>2, <1>3, SameKeepsInv

(* What runs over was reserved by nobody, and is of a size that does not   *)
(* fit: what a client reserved takes free words of the FIFO.               *)
LEMMA RunOffKeepsInv ==
    ASSUME Inv, RunOff
    PROVE  Inv' /\ Same
<1>1. Same BY DEF RunOff, Same
<1>2. /\ RAGGED \notin Nat /\ BOUNCE \in Nat /\ bytes \in Nat /\ done \in Nat
      /\ Size \in Nat /\ Unread \in 0 .. Size - 1 /\ Free = Size - 1 - Unread
  BY FifoAssumption, Bounds DEF Inv, TypeOK, Free
<1>3. Gone /\ filled = 0 /\ ~Fits(overrun') /\ overrun' \in Nat \cup {RAGGED}
  <2>1. CASE pc = "idle" /\ reservedSize = RAGGED /\ overrun' = RAGGED
    BY <1>2, <2>1 DEF Inv, SpaceInv, Fits, Gone
  <2>2. CASE pc = "bulk" /\ bytes > BOUNCE /\ overrun' = bytes
    BY <1>2, <2>2 DEF Inv, SpaceInv, Committing, Fits, Gone
  <2>3. CASE pc = "publish" /\ Unread + bytes >= Size /\ overrun' = bytes
    BY <1>2, <2>3 DEF Inv, SpaceInv, Committing, Fits, Gone
  <2>4. CASE pc = "advance" /\ Unread + 1 >= Size /\ overrun' = done + bytes
    BY <1>2, <2>4 DEF Inv, SpaceInv, Committing, Fits, Gone
  <2> QED BY <2>1, <2>2, <2>3, <2>4 DEF RunOff
<1>4. OverrunInv'
  <2>1. Gone' /\ filled' = 0
    BY <1>1, <1>3 DEF Gone, Same, Unread, device, driver, locals, client
  <2> QED BY <1>3, <2>1 DEF OverrunInv, Fits
<1> QED BY <1>1, <1>3, <1>4, SameKeepsInv

(* The inductive invariant: the pointers match what was published, what    *)
(* the driver takes for free is free, and the words it has written in      *)
(* place survive whatever the device does before they are published.       *)
THEOREM FifoInvariance == Spec => []Inv
<1>1. Inv /\ [Next]_vars => Inv'
  BY QuietKeepsInv, FillKeepsInv, CopyWordKeepsInv, PublishKeepsInv, AdvanceKeepsInv, DeviceReadKeepsInv,
     CheckpointKeepsInv, RunOffKeepsInv, StutterKeepsInv, StepKinds DEF Lost
<1> QED BY <1>1, InitEstablishesInv, PTL DEF Spec

(* Every register, buffer and local keeps its range: NEXT_CMD and STOP     *)
(* stay on the dwords of the FIFO, whatever size reservedSize is created   *)
(* with: the commit that would take NEXT_CMD off them is RunOff.           *)
THEOREM FifoTypeCorrect == Spec => []TypeOK
BY FifoInvariance, PTL DEF Inv

(* NEXT_CMD and STOP tell the device exactly what was published and not    *)
(* read: FIFO_Reserve's tests and FIFO_Commit's wraps never fill it up.    *)
(* The one commit that can is of no client's: InsertFence's, refused while *)
(* reservedSize holds what memory held, and of a size that does not fit.   *)
THEOREM PointersAlwaysMatch == Spec => []PointersMatchStream
<1>1. Inv => PointersMatchStream BY DEF Inv, Matched, OverrunInv, PointersMatchStream
<1> QED BY <1>1, FifoInvariance, PTL

(* The pointer FIFO_Reserve returned covers room the device does not have  *)
(* to read, although STOP was read once and moves on meanwhile.            *)
THEOREM ReservationStaysFree == Spec => []ReservationIsFree
<1>1. Inv => ReservationIsFree
  <2> SUFFICES ASSUME Inv, pc = "held", ~usingBounce PROVE ReservationIsFree BY DEF ReservationIsFree
  <2>1. /\ next \in MIN .. MAX - 1 /\ MIN \in Nat /\ MAX \in Nat /\ Size = MAX - MIN /\ Free \in 0 .. Size - 1
        /\ bytes \in 0 .. BOUNCE /\ BOUNCE \in Nat /\ nextCmd = next /\ bytes <= Free /\ next + bytes <= MAX
    BY Bounds DEF Inv, SpaceInv, Reserved, Committing, TypeOK
  <2>2. ASSUME NEW a \in next .. next + bytes - 1, NEW i \in 0 .. Unread - 1 PROVE a # Forward(stop, i)
    <3>1. a - next \in Nat /\ a - next <= Free /\ Forward(next, a - next) = a BY <2>1 DEF Forward
    <3>2. TypeOK BY DEF Inv
    <3> QED BY <3>1, <3>2, FreeNotUnread
  <2>3. (next .. next + bytes - 1) \cap UnreadSlots = {} BY <2>2 DEF UnreadSlots
  <2> QED BY <2>1, <2>3 DEF ReservationIsFree
<1> QED BY <1>1, FifoInvariance, PTL

(* A word a client wrote and committed is the word the device reads, in    *)
(* place or through the bounce buffer, however the FIFO wraps.             *)
THEOREM CommittedWordsArrive == Spec => []ClientWordsDelivered
<1>1. Inv => ClientWordsDelivered BY DEF Inv, Arrive, ClientWordsDelivered
<1> QED BY <1>1, FifoInvariance, PTL

-----------------------------------------------------------------------------
(* The FIFO as the device sees it implements CommandStream.                *)
Content(i) == mem[Forward(stop, i - 1)]
View == <<Contents, overrun # 0>>

LEMMA ContentsIsSequence ==
    ASSUME Inv
    PROVE  /\ Unread \in Nat /\ Unread <= Size - 1 /\ Contents \in Seq(Words) /\ Len(Contents) = Unread
           /\ \A i \in 1 .. Unread : Contents[i] = Content(i)
<1>1. Unread \in Nat /\ Unread <= Size - 1 /\ Size \in Nat /\ stop \in Slots BY Bounds DEF Inv, TypeOK
<1>2. ASSUME NEW i \in 1 .. Unread PROVE mem[Forward(stop, i - 1)] \in Words
  <2>1. i - 1 \in 0 .. Size BY <1>1
  <2>2. Forward(stop, i - 1) \in Slots BY <1>1, <2>1, ForwardSlot
  <2> QED BY <2>2 DEF Inv, TypeOK
<1> QED BY <1>1, <1>2 DEF Contents, Content

LEMMA KeptIsStutter ==
    ASSUME Inv, UnreadKept, UNCHANGED <<next, stop>>
    PROVE  Contents' = Contents
<1>1. Unread' = Unread /\ Unread \in Nat BY ContentsIsSequence DEF Unread
<1>2. ASSUME NEW i \in 1 .. Unread PROVE mem'[Forward(stop, i - 1)] = mem[Forward(stop, i - 1)]
  <2>1. i - 1 \in 0 .. Unread - 1 BY <1>1
  <2> QED BY <2>1 DEF UnreadKept
<1>3. \A i : Forward(stop, i - 1)' = Forward(stop, i - 1) BY DEF Forward
<1> QED BY <1>1, <1>2, <1>3 DEF Contents, Forward

LEMMA PublishedAppends ==
    ASSUME Inv, Inv', NEW n \in Nat, n <= Free, next' = Forward(next, n), UNCHANGED <<stop, mem>>,
           overrun = 0, overrun' = 0
    PROVE  [Queue!Next]_View
<1>1. Unread' = Unread + n /\ Unread \in Nat BY NextMoves, ContentsIsSequence DEF Inv
<1>2. /\ Contents' \in Seq(Words) /\ Len(Contents') = Unread + n /\ Unread + n <= Size - 1
      /\ \A i \in 1 .. Unread + n : Contents'[i] = Content(i)
  <2>1. Unread + n <= Size - 1 BY <1>1, Bounds DEF Free, Inv
  <2>2. ASSUME NEW i \in 1 .. Unread + n PROVE Content(i) \in Words
    <3>1. stop \in Slots BY DEF Inv, TypeOK
    <3>3. i - 1 \in 0 .. Size
      <4>1. Size \in Nat BY Bounds DEF Inv
      <4> QED BY <4>1, <1>1, <2>1
    <3>2. Forward(stop, i - 1) \in Slots BY <3>1, <3>3, ForwardSlot
    <3> QED BY <3>2 DEF Inv, TypeOK, Content
  <2>3. Contents' = [i \in 1 .. Unread + n |-> Content(i)] BY <1>1 DEF Contents, Content, Forward
  <2> QED BY <1>1, <2>1, <2>2, <2>3
<1>3. Contents \in Seq(Words) /\ Len(Contents) = Unread /\ \A i \in 1 .. Unread : Contents[i] = Content(i)
  BY ContentsIsSequence
<1>4. CASE n = 0
  <2>1. Contents' = Contents BY <1>1, <1>2, <1>3, <1>4, SeqEqual
  <2> QED BY <2>1 DEF View
<1>5. CASE n > 0
  <2>1. SubSeq(Contents', 1, Unread) = Contents
    <3>1. /\ SubSeq(Contents', 1, Unread) \in Seq(Words) /\ Len(SubSeq(Contents', 1, Unread)) = Unread
          /\ \A i \in 1 .. Unread : SubSeq(Contents', 1, Unread)[i] = Contents'[i]
      BY <1>1, <1>2, SubSeqProperties
    <3>2. \A i \in 1 .. Unread : SubSeq(Contents', 1, Unread)[i] = Contents[i] BY <1>1, <1>2, <1>3, <3>1
    <3> QED BY <1>3, <3>1, <3>2, SeqEqual
  <2>2. Len(Contents') > Len(Contents) /\ Len(Contents') <= Size - 1 BY <1>1, <1>2, <1>3, <1>5
  <2>3. Queue!Append1Plus BY <1>3, <2>1, <2>2 DEF Queue!Append1Plus
  <2> QED BY <2>3 DEF Queue!Next
<1> QED BY <1>4, <1>5

LEMMA DeviceReadTakes ==
    ASSUME Inv, DeviceRead
    PROVE  Queue!Take
<1>1. /\ Unread > 0 /\ Unread' = Unread - 1 /\ mem' = mem
      /\ \A i \in 1 .. Unread - 1 : Forward(stop', i - 1) = Forward(stop, i)
  BY DeviceReadKeepsInv DEF DeviceRead
<1>2. Contents \in Seq(Words) /\ Len(Contents) = Unread /\ Unread \in Nat
      /\ \A i \in 1 .. Unread : Contents[i] = Content(i)
  BY ContentsIsSequence
<1>3. Inv' BY DeviceReadKeepsInv
<1>4. /\ Tail(Contents) \in Seq(Words) /\ Len(Tail(Contents)) = Unread - 1
      /\ \A i \in 1 .. Unread - 1 : Tail(Contents)[i] = Contents[i + 1]
  BY <1>1, <1>2
<1>5. ASSUME NEW i \in 1 .. Unread - 1 PROVE Contents[i + 1] = mem[Forward(stop, i)]
  <2>1. i + 1 \in 1 .. Unread /\ (i + 1) - 1 = i BY <1>2
  <2> QED BY <1>2, <2>1 DEF Content
<1>6. Contents' = [i \in 1 .. Unread - 1 |-> Tail(Contents)[i]]
  <2>1. Contents' = [i \in 1 .. Unread - 1 |-> mem[Forward(stop, i)]]
    BY <1>1, <1>2 DEF Contents, Forward
  <2>2. \A i \in 1 .. Unread - 1 : mem[Forward(stop, i)] = Tail(Contents)[i] BY <1>4, <1>5
  <2> QED BY <2>1, <2>2
<1>7. Contents' = Tail(Contents)
  <2> DEFINE t == Tail(Contents)
  <2>0. t \in Seq(Words) /\ Len(t) = Unread - 1 BY <1>4
  <2> HIDE DEF t
  <2>1. t = [i \in 1 .. Unread - 1 |-> t[i]] BY <2>0, LenProperties
  <2> QED BY <1>6, <2>1 DEF t
<1>8. Contents # << >> BY <1>1, <1>2
<1> QED BY <1>7, <1>8, StepsRun DEF Queue!Take

(* The FIFO is a queue of words for the device: FIFO_Commit adds behind    *)
(* what it has to read, by one word or many, and nothing the driver or a   *)
(* checkpoint does changes a word it has been told about.                  *)
THEOREM FifoImplementsStream == Spec => ImplementsStream
<1>1. Init => Queue!Init
  <2> SUFFICES ASSUME Init PROVE Contents = << >> /\ overrun = 0 BY DEF Queue!Init
  <2>1. Unread = 0 BY FifoAssumption DEF Init, Unread
  <2> QED BY <2>1 DEF Contents, Init
<1>2. Inv /\ Inv' /\ [Next]_vars => [Queue!Next]_View
  <2> SUFFICES ASSUME Inv, Inv', [Next]_vars PROVE [Queue!Next]_View OBVIOUS
  <2>1. ASSUME UnreadKept, UNCHANGED <<next, stop>>, (overrun # 0)' = (overrun # 0) PROVE [Queue!Next]_View
    BY <2>1, KeptIsStutter DEF View
  <2>2. CASE Quiet BY <2>1, <2>2, QuietKeepsInv, StepsRun DEF UnreadKept
  <2>3. CASE Fill BY <2>1, <2>3, FillKeepsInv, StepsRun DEF Fill
  <2>4. CASE CopyWord BY <2>1, <2>4, CopyWordKeepsInv, StepsRun DEF CopyWord
  <2>5. CASE Checkpoint BY <2>1, <2>5, CheckpointKeepsInv, StepsRun DEF Checkpoint
  <2>6. CASE UNCHANGED vars BY <2>1, <2>6 DEF UnreadKept, vars, device
  <2>10. CASE Lost BY <2>6, <2>10 DEF Lost
  <2>11. CASE RunOff
    <3>1. overrun = 0 /\ overrun' # 0
      <4>1. /\ RAGGED # 0 /\ BOUNCE \in Nat /\ bytes \in Nat /\ done \in Nat /\ Size \in Nat
            /\ Unread \in 0 .. Size - 1 /\ (pc = "advance" => bytes > 0)
        BY FifoAssumption, Bounds DEF Inv, TypeOK, SpaceInv
      <4> QED BY <2>11, <4>1 DEF RunOff
    <3>2. UnreadKept /\ UNCHANGED <<next, stop>>
      BY <2>11 DEF RunOff, UnreadKept, device
    <3>3. Contents' = Contents BY <3>2, KeptIsStutter
    <3>4. Queue!Break BY <3>1, <3>3 DEF Queue!Break
    <3> QED BY <3>4 DEF Queue!Next
  <2>7. CASE Publish
    <3>1. bytes \in Nat /\ UNCHANGED <<stop, mem>> BY <2>7, FifoAssumption DEF Inv, TypeOK, Publish
    <3> QED BY <2>7, <3>1, PublishKeepsInv, PublishedAppends, StepsRun
  <2>8. CASE Advance
    <3>1. 1 \in Nat /\ 1 <= Free /\ next' = Forward(next, 1) /\ UNCHANGED <<stop, mem>>
      <4>1. Free >= 1 /\ Free \in Int BY <2>8, AdvanceKeepsInv, Bounds DEF Inv
      <4> QED BY <2>8, <4>1, AdvanceKeepsInv
    <3> QED BY <2>8, <3>1, PublishedAppends, StepsRun
  <2>9. CASE DeviceRead BY <2>9, DeviceReadTakes DEF Queue!Next
  <2> QED BY <2>2, <2>3, <2>4, <2>5, <2>6, <2>7, <2>8, <2>9, <2>10, <2>11, StepKinds
<1> QED BY <1>1, <1>2, FifoInvariance, PTL DEF Spec, ImplementsStream, Queue!Spec, View

-----------------------------------------------------------------------------
(* What FIFO_Reserve's loop owes to the driver.                            *)
LEMMA ReservingGoesOn ==
    ASSUME Inv, Reserving, Next
    PROVE  \/ pc' = "held" /\ bytes < Size
           \/ /\ Reserving' /\ Unread' <= Unread
              /\ pc' = "full" /\ pc # "full" => seen # nextCmd \/ bytes >= Size
<1>0. /\ MIN \in Nat /\ MAX \in Nat /\ MIN < MAX /\ BOUNCE \in Nat /\ Size = MAX - MIN
      /\ next \in MIN .. MAX - 1 /\ seen \in MIN .. MAX - 1 /\ Unread \in 0 .. Size - 1
      /\ bytes \in Nat /\ nextCmd = next /\ pc \in {"look", "decide", "full"}
  BY FifoAssumption, Bounds DEF Inv, TypeOK, SpaceInv, Reserved, Reserving, Slots
<1>1. CASE Look
  BY <1>0, <1>1 DEF Look, Reserving, device, Unread
<1>2. CASE ReserveInPlace \/ ReserveBounce
  BY <1>0, <1>2 DEF ReserveInPlace, ReserveBounce, Contiguous, Split
<1>3. CASE Full
  <2>1. Unread' = Unread BY <1>3 DEF Full, device, Unread
  <2>2. seen = nextCmd => bytes >= Size BY <1>0, <1>3 DEF Full, Contiguous, Split
  <2> QED BY <1>0, <1>3, <2>1, <2>2 DEF Full, Reserving
<1>4. CASE FullReturns
  BY <1>0, <1>4 DEF FullReturns, Reserving, device, Unread
<1>5. CASE DeviceRead
  <2>1. Unread' = Unread - 1 BY <1>5, DeviceReadKeepsInv
  <2> QED BY <1>0, <1>5, <2>1 DEF DeviceRead, Reserving, locals
<1>6. CASE Checkpoint
  BY <1>0, <1>6 DEF Checkpoint, Reserving, locals, Unread
<1>7. CASE Lost
  BY <1>0, <1>7 DEF Lost, vars, device, locals, Reserving, Unread
<1> QED
  BY <1>0, <1>1, <1>2, <1>3, <1>4, <1>5, <1>6, <1>7
  DEF Next, Driver, Client, ReserveCall, Fill, Commit, FenceRefused, Announce, BulkCopy, Publish,
      ClearReservation, CopyWord, Advance, CopyDone, RunOff

(* The driver's half of ReserveReturns: what is left is for the device to  *)
(* read on while FIFO_Full makes it.  A command as large as the FIFO waits *)
(* for ever, because it is never granted (svga.cpp, FIFO_Reserve).         *)
THEOREM ReserveGetsOn == Spec => ReserveAdvances
<1>1. Inv /\ [Next]_vars
          => [Reserving =>
                 \/ pc' = "held" /\ bytes < Size
                 \/ /\ Reserving' /\ Unread' <= Unread
                    /\ pc' = "full" /\ pc # "full" => seen # nextCmd \/ bytes >= Size]_vars
  BY ReservingGoesOn
<1> QED BY <1>1, FifoInvariance, PTL DEF Spec, ReserveAdvances

-----------------------------------------------------------------------------
(* With reservedSize initialised, nothing is committed that was not        *)
(* reserved and written.                                                   *)
StrayInv ==
    /\ pc = "idle" => reservedSize = 0
    /\ pc \in {"announce", "bulk", "publish"} => bytes <= filled
    /\ pc \in {"copy", "advance"} => done + bytes <= filled
    /\ NothingStray

LEMMA StrayStutter ==
    ASSUME StrayInv, UNCHANGED <<pc, reservedSize, bytes, done, filled, stream>>
    PROVE  StrayInv'
BY DEF StrayInv, NothingStray

LEMMA AddedNotStray ==
    ASSUME stream \in Seq(Entries), NothingStray, NEW e \in Seq(Entries), stream' = stream \o e,
           \A i \in 1 .. Len(e) : e[i].via # "stray"
    PROVE  NothingStray'
<1>1. Len(stream) \in Nat /\ Len(e) \in Nat /\ Len(stream') = Len(stream) + Len(e) BY ConcatProperties
<1>2. ASSUME NEW n \in 1 .. Len(stream') PROVE stream'[n].via # "stray"
  <2>1. CASE n <= Len(stream)
    <3>1. n \in 1 .. Len(stream) /\ stream'[n] = stream[n] BY <1>1, <2>1, ConcatProperties
    <3> QED BY <3>1 DEF NothingStray
  <2>2. CASE n > Len(stream)
    <3>1. n - Len(stream) \in 1 .. Len(e) /\ stream'[n] = e[n - Len(stream)]
      BY <1>1, <2>2, ConcatProperties
    <3> QED BY <3>1
  <2> QED BY <1>1, <2>1, <2>2
<1> QED BY <1>2 DEF NothingStray

LEMMA StreamTyped ==
    ASSUME Inv
    PROVE  stream \in Seq(Entries)
BY DEF Inv, TypeOK, Entries

LEMMA NextKeepsUnstray ==
    ASSUME Inv, Inv', StrayInv, Next
    PROVE  StrayInv'
<1>0. /\ BOUNCE \in Nat /\ bytes \in Nat /\ done \in Nat /\ filled \in 0 .. BOUNCE
      /\ tag \in Tags /\ NothingStray
  BY FifoAssumption DEF Inv, TypeOK, StrayInv
<1>1. CASE Quiet
  <2>1. UNCHANGED stream
    BY <1>1 DEF Quiet, ReserveCall, Look, ReserveInPlace, ReserveBounce, Full, FullReturns, Commit, CommitStart,
                FenceRefused, Announce, BulkCopy, ClearReservation, CopyDone
  <2>2. NothingStray' BY <1>0, <2>1 DEF NothingStray
  <2>3. ASSUME NEW n \in Sizes, NEW t \in Tags, ReserveCall(n, t) PROVE StrayInv'
    BY <2>2, <2>3 DEF ReserveCall, StrayInv
  <2>4. CASE Look \/ ReserveInPlace \/ ReserveBounce \/ Full \/ FullReturns
    BY <2>2, <2>4 DEF Look, ReserveInPlace, ReserveBounce, Full, FullReturns, StrayInv
  <2>5. ASSUME NEW n \in 0 .. bytes, Commit(n) PROVE StrayInv'
    <3>1. /\ reservedSize' = 0 /\ bytes' = n /\ n <= filled /\ filled' = filled /\ done' = 0
          /\ pc' \in {"idle", "publish", "announce", "copy"}
      BY <2>5 DEF Commit, CommitStart, client, Inv, SpaceInv
    <3> QED BY <1>0, <2>2, <3>1 DEF StrayInv
  <2>6. CASE FenceRefused BY <2>6 DEF FenceRefused, StrayInv
  <2>7. CASE Announce \/ BulkCopy
    BY <2>2, <2>7 DEF Announce, BulkCopy, StrayInv, client, driver
  <2>8. CASE ClearReservation \/ CopyDone
    BY <2>2, <2>8 DEF ClearReservation, CopyDone, Return, StrayInv, driver, Inv, SpaceInv, Reserved, Committing
  <2> QED BY <1>1, <2>3, <2>4, <2>5, <2>6, <2>7, <2>8 DEF Quiet
<1>2. CASE Fill
  BY <1>0, <1>2 DEF Fill, StrayInv, NothingStray, locals
<1>3. CASE CopyWord
  BY <1>0, <1>3 DEF CopyWord, StrayInv, NothingStray, driver, client
<1>4. CASE Checkpoint
  BY <1>4, StrayStutter DEF Checkpoint, driver, locals, client
<1>5. CASE DeviceRead
  <2>1. \A n \in 1 .. Len(stream') : stream'[n].via # "stray"
    <3>1. stream \in Seq(Entries) /\ Len(stream) = Unread /\ Unread > 0 /\ Unread \in Nat
      BY <1>5, StreamTyped, Bounds, DeviceReadKeepsInv DEF Inv, Matched
    <3>2. stream # << >> /\ stream' = Tail(stream) BY <1>5, <3>1 DEF DeviceRead
    <3> QED BY <1>0, <3>1, <3>2, HeadTailProperties DEF NothingStray
  <2> QED BY <1>5, <2>1 DEF DeviceRead, StrayInv, NothingStray, driver, locals, client
<1>6. CASE Publish
  <2> DEFINE e == [i \in 1 .. bytes |-> Entry(i)]
  <2>1. pc = "publish" /\ bytes <= filled /\ stream' = stream \o e BY <1>6 DEF Publish, StrayInv
  <2>2. ASSUME NEW i \in 1 .. bytes PROVE Entry(i) \in Entries /\ Entry(i).via # "stray"
    <3>1. i <= filled /\ WordOf(i) \in Words BY <1>0, <2>1 DEF WordOf, Words
    <3> QED BY <1>0, <2>1, <3>1 DEF Entry, Entries
  <2>3. e \in Seq(Entries) /\ Len(e) = bytes /\ \A i \in 1 .. Len(e) : e[i].via # "stray" BY <1>0, <2>2
  <2>4. NothingStray'
    <3> HIDE DEF e
    <3> QED BY <1>0, <2>1, <2>3, StreamTyped, AddedNotStray
  <2> QED BY <1>6, <2>4 DEF Publish, Return, StrayInv, driver, Inv, SpaceInv, Reserved, Committing
<1>7. CASE Advance
  <2> DEFINE e == <<Entry(done + 1)>>
  <2>1. pc = "advance" /\ bytes > 0 /\ done + bytes <= filled /\ stream' = Append(stream, Entry(done + 1))
    BY <1>7 DEF Advance, StrayInv, Inv, SpaceInv
  <2>2. Entry(done + 1) \in Entries /\ Entry(done + 1).via # "stray"
    <3>1. WordOf(done + 1) \in Words BY <1>0, <2>1 DEF WordOf, Words
    <3> QED BY <1>0, <2>1, <3>1 DEF Entry, Entries
  <2>3. e \in Seq(Entries) /\ \A i \in 1 .. Len(e) : e[i].via # "stray" BY <2>2
  <2>4. stream' = stream \o e BY <2>1, <2>2, StreamTyped, AppendIsConcat
  <2>5. NothingStray'
    <3> HIDE DEF e
    <3> QED BY <1>0, <2>3, <2>4, StreamTyped, AddedNotStray
  <2>6. done' + bytes' = done + bytes /\ pc' = "copy" /\ UNCHANGED filled
    BY <1>0, <1>7 DEF Advance, client
  <2> QED BY <2>1, <2>5, <2>6 DEF StrayInv
<1>8. CASE RunOff \/ Lost
  BY <1>8, StrayStutter DEF RunOff, Lost, vars, driver, locals, client
<1> QED BY <1>1, <1>2, <1>3, <1>4, <1>5, <1>6, <1>7, <1>8, StepKinds

(* Had a constructor set reservedSize, InsertFence would never be refused: *)
(* every word published would be one a client reserved and wrote, for      *)
(* every FIFO, bounce buffer and order of the device's steps (svga.h,      *)
(* struct fifo, which nothing initialises).                                *)
THEOREM InitialisedSendsNothingStray ==
    ASSUME InitialReserved = {0}
    PROVE  Spec => []NothingStray
<1>1. Init => StrayInv BY DEF Init, StrayInv, NothingStray
<1>2. Inv /\ Inv' /\ StrayInv /\ [Next]_vars => StrayInv'
  <2>1. Inv /\ Inv' /\ StrayInv /\ UNCHANGED vars => StrayInv'
    BY StrayStutter DEF vars, driver, locals, client
  <2> QED BY <2>1, NextKeepsUnstray
<1>3. StrayInv => NothingStray BY DEF StrayInv
<1> QED BY <1>1, <1>2, <1>3, FifoInvariance, PTL DEF Spec

-----------------------------------------------------------------------------
(* The sizes the driver commits all fit, whoever reserved them.            *)
FitInv ==
    /\ overrun = 0
    /\ pc = "idle" => Fits(reservedSize)
    /\ pc \in Committing => Fits(done + bytes)

LEMMA NextKeepsFit ==
    ASSUME Inv, FitInv, [Next]_vars
    PROVE  FitInv'
<1>0. /\ RAGGED \notin Nat /\ BOUNCE \in Nat /\ bytes \in Nat /\ done \in Nat
      /\ Size \in Nat /\ Size > 0 /\ Unread \in 0 .. Size - 1 /\ Free = Size - 1 - Unread
      /\ overrun = 0 /\ Fits(0)
  BY FifoAssumption, Bounds DEF Inv, TypeOK, Free, FitInv, Fits
<1> USE DEF FitInv, Committing
<1>1. CASE Quiet
  <2>0. overrun' = 0 BY <1>1, StepsRun
  <2>1. ASSUME NEW n \in Sizes, NEW t \in Tags, ReserveCall(n, t) PROVE FitInv'
    BY <2>0, <2>1 DEF ReserveCall
  <2>2. CASE Look \/ ReserveInPlace \/ ReserveBounce \/ Full \/ FullReturns
    BY <2>0, <2>2 DEF Look, ReserveInPlace, ReserveBounce, Full, FullReturns
  <2>3. ASSUME NEW n \in 0 .. bytes, Commit(n) PROVE FitInv'
    <3>1. /\ reservedSize' = 0 /\ bytes' = n /\ n \in Nat /\ n <= Free /\ n <= BOUNCE /\ done' = 0
          /\ pc' \in {"idle", "publish", "announce", "copy"}
      BY <1>0, <2>3 DEF Commit, CommitStart, Inv, SpaceInv, Reserved
    <3> QED BY <1>0, <2>0, <3>1 DEF Fits
  <2>4. CASE FenceRefused
    <3>1. /\ reservedSize' = 0 /\ bytes' = reservedSize /\ Fits(reservedSize) /\ done' = 0
          /\ pc' \in {"idle", "publish", "announce", "copy"}
      BY <2>4 DEF FenceRefused, CommitStart, Inv, SpaceInv
    <3> QED BY <1>0, <2>0, <3>1 DEF Fits
  <2>5. CASE Announce \/ BulkCopy
    BY <2>0, <2>5 DEF Announce, BulkCopy, Fits
  <2>6. CASE ClearReservation \/ CopyDone
    BY <1>0, <2>0, <2>6 DEF ClearReservation, CopyDone, Return, driver, Inv, SpaceInv, Fits
  <2> QED BY <1>1, <2>1, <2>2, <2>3, <2>4, <2>5, <2>6 DEF Quiet
<1>2. CASE Fill \/ CopyWord \/ DeviceRead \/ Checkpoint
  <2>1. overrun' = 0 BY <1>2, StepsRun
  <2> QED BY <1>2, <2>1 DEF Fill, CopyWord, DeviceRead, Checkpoint, driver, locals, Fits
<1>3. CASE Publish
  <2>1. overrun' = 0 BY <1>3, StepsRun
  <2> QED BY <1>0, <1>3, <2>1 DEF Publish, Return, driver, Inv, SpaceInv, Fits
<1>4. CASE Advance
  <2>1. overrun' = 0 BY <1>4, StepsRun
  <2>2. done' + bytes' = done + bytes BY <1>0, <1>4 DEF Advance
  <2> QED BY <1>4, <2>1, <2>2 DEF Advance, Fits
<1>5. CASE RunOff
  <2>1. Free \in Nat /\ (pc \in {"publish", "bulk"} => done = 0) /\ (pc = "advance" => bytes > 0)
    BY <1>0 DEF Inv, SpaceInv
  <2>2. pc \in {"publish", "advance"} => bytes <= Free BY <1>0 DEF Inv, SpaceInv
  <2> QED BY <1>0, <1>5, <2>1, <2>2 DEF RunOff, Fits
<1>6. CASE Lost BY <1>0, <1>6 DEF Lost
<1>7. CASE UNCHANGED vars BY <1>7 DEF vars, driver, locals, Fits
<1> QED BY <1>1, <1>2, <1>3, <1>4, <1>5, <1>6, <1>7, StepKinds

(* The one way the FIFO is lost is the field nothing initialises: if what  *)
(* it holds is a size of less than the FIFO and within the bounce buffer,  *)
(* no order of reservations, refusals, commits, reads and checkpoints ever *)
(* runs over the device's words (svga.h, struct fifo; FIFO_Commit).       *)
THEOREM OnlyStaleSizeOverruns ==
    ASSUME \A r \in InitialReserved : Fits(r)
    PROVE  Spec => [](overrun = 0)
<1>1. Init => FitInv BY DEF Init, FitInv, Committing
<1>2. Inv /\ FitInv /\ [Next]_vars => FitInv' BY NextKeepsFit
<1>3. FitInv => overrun = 0 BY DEF FitInv
<1> QED BY <1>1, <1>2, <1>3, FifoInvariance, PTL DEF Spec
=============================================================================
