-------------------------- MODULE SvgaDeviceProofs --------------------------
(***************************************************************************)
(* Proofs about SvgaDevice: for every set of machines and every bound, no  *)
(* interrupt flag is lost, the context switch is disarmed with the frame   *)
(* of WaitForIRQ, no wake-up is lost, and the card is configured on its    *)
(* own memory only.                                                        *)
(***************************************************************************)
EXTENDS SvgaDevice, SequenceTheorems, TLAPS

(* Where the driver is, or will be when its register access is done.       *)
Location == IF pc = "access" THEN io.next ELSE pc

Searching == {"start", "absent"}
Negotiating == {"negotiate", "ask", "match"}
Preparing == Negotiating \cup
    {"sizes", "caps", "gotCaps", "mask", "clearStatus", "clearPending", "request", "map"}
Mapped == ControlPoints \ (Searching \cup Preparing \cup {"access", "lost"})

(* An access goes to the register its caller named, and only ConfigDone    *)
(* names CONFIG_DONE.                                                      *)
AccessInv ==
    /\ pc = "access" =>
          /\ index = io.reg /\ io.op \in {"read", "write"}
          /\ io.next \notin {"access", "start", "absent", "lost", "negotiate"}
          /\ io.op = "write" /\ io.reg = "configDone" =>
                io.value = 1 /\ io.next \in {"unmaskFence", "ready"}
    /\ pc # "access" => io.op = "none"

(* What the driver has established when it comes to a point of Init.       *)
OrderInv ==
    /\ Location \in Negotiating \cup {"start"} => version \in 0..2
    /\ Location \in Preparing => command = CommandFlags /\ fifoMemory = card.fifo
    /\ Location \in Mapped => command = CommandFlags /\ fifoRegs = card.fifo
    /\ Location \in Searching \cup Preparing => reg["configDone"] = 0

(* The card raises nothing before it is configured, and the handler holds  *)
(* flags only between reading and recording them.                          *)
FlagsInv ==
    /\ reg["configDone"] # 1 => owed = {}
    /\ handler.at \notin {"acknowledge", "record"} => handler.flags = {}

SafetyInv == AccessInv /\ OrderInv /\ FlagsInv /\ NoFlagLost /\ ConfiguredSafely

Inv == TypeOK /\ SafetyInv

(* What the code takes on trust: the third base address register of the    *)
(* card's function names its FIFO.                                         *)
Trusted == \A c \in Cards : c.present => FifoBar(c.function) = c.fifo

-----------------------------------------------------------------------------
(* A step that begins a register access: it stays in its phase of Init and *)
(* disturbs nothing an interrupt or the card could be in the middle of.    *)
Asks(op, r, value, next) ==
    /\ Access(op, r, value, next)
    /\ op \in {"read", "write"} /\ r \in Registers /\ value \in Int
    /\ next \in ControlPoints \ {"access", "start", "absent", "lost", "negotiate"}
    /\ op = "write" /\ r = "configDone" => value = 1 /\ next \in {"unmaskFence", "ready"}
    /\ \/ pc \in Preparing /\ next \in Preparing
       \/ pc \in Mapped /\ next \in Mapped
    /\ next \in Negotiating => pc \in Negotiating
    /\ ~Waiting
    /\ mode' \in Modes \cup {0} /\ calls' \in 0..MaxCalls
    /\ busy' \in BOOLEAN /\ wait' \in [flags : SUBSET Flags, next : {"ready", "unmask"}]
    /\ UNCHANGED <<version, capabilities, reserved, fifoMemory, fifoRegs, registered, handler>>

Asking == \E op, r, value, next : Asks(op, r, value, next)

(* The driver's steps that begin an access, and those of them that always  *)
(* do and keep every other variable.                                       *)
PlainAccess ==
    \/ OfferVersion \/ AskVersion \/ ReadSizes \/ ReadCapabilities \/ MaskAll
    \/ TurnOn \/ ConfigDone \/ UnmaskFence \/ SyncFence \/ PollBusy \/ Polled
    \/ SetHeight \/ SetBpp \/ SetEnable \/ ReadPitch \/ Full \/ AskBusy \/ Unmask

LEMMA PlainAccessAsks ==
    ASSUME Inv, PlainAccess, UNCHANGED handler
    PROVE  Asking
<1>1. \A op, r, value, next : Asks(op, r, value, next) => Asking BY DEF Asking
<1> USE DEF Asks, Preparing, Negotiating, Searching, Mapped, ControlPoints, Registers, Stored, Waiting
<1>0. /\ version \in Int /\ mode \in Int /\ mode \in Modes \cup {0} /\ calls \in 0..MaxCalls
      /\ busy \in BOOLEAN /\ wait \in [flags : SUBSET Flags, next : {"ready", "unmask"}]
      /\ ANY_FENCE \in Int /\ FIFO_PROGRESS \in Int
  BY SvgaAssumption DEF Inv, TypeOK, CardTypeOK, DriverTypeOK, IrqTypeOK, BelowID0, ANY_FENCE, FIFO_PROGRESS
<1>2. CASE OfferVersion
  <2>1. Asks("write", "id", version, "ask")
    BY <1>0, <1>2 DEF OfferVersion, WriteRegister, initVars
  <2> QED BY <2>1, <1>1
<1>3. CASE AskVersion
  <2>1. Asks("read", "id", 0, "match")
    BY <1>0, <1>3 DEF AskVersion, ReadRegister, initVars
  <2> QED BY <2>1, <1>1
<1>4. CASE ReadSizes
  <2>1. Asks("read", "memSize", 0, IF version >= 1 THEN "caps" ELSE "mask")
    BY <1>0, <1>4 DEF ReadSizes, ReadRegister, initVars
  <2> QED BY <2>1, <1>1
<1>5. CASE ReadCapabilities
  <2>1. Asks("read", "capabilities", 0, "gotCaps")
    BY <1>0, <1>5 DEF ReadCapabilities, ReadRegister, initVars
  <2> QED BY <2>1, <1>1
<1>6. CASE MaskAll
  <2>1. Asks("write", "irqmask", 0, "clearStatus")
    BY <1>0, <1>6 DEF MaskAll, WriteRegister, initVars
  <2> QED BY <2>1, <1>1
<1>7. CASE TurnOn
  <2>1. Asks("write", "enable", 1, "configure")
    BY <1>0, <1>7 DEF TurnOn, WriteRegister, initVars
  <2> QED BY <2>1, <1>1
<1>8. CASE ConfigDone
  <2>1. Asks("write", "configDone", 1, IF capabilities THEN "unmaskFence" ELSE "ready")
    BY <1>0, <1>8 DEF ConfigDone, WriteRegister, initVars
  <2> QED BY <2>1, <1>1
<1>9. CASE UnmaskFence
  <2>1. Asks("write", "irqmask", ANY_FENCE, "clearFence")
    BY <1>0, <1>9 DEF UnmaskFence, WriteRegister, initVars
  <2> QED BY <2>1, <1>1
<1>10. CASE SyncFence
  <2>1. Asks("write", "sync", 1, "poll")
    BY <1>0, <1>10 DEF SyncFence, WriteRegister, initVars
  <2> QED BY <2>1, <1>1
<1>11. CASE PollBusy
  <2>1. Asks("read", "busy", 0, "polled")
    BY <1>0, <1>11 DEF PollBusy, ReadRegister, initVars
  <2> QED BY <2>1, <1>1
<1>12. CASE Polled
  <2>1. CASE io.value # 0
    <3>1. Asks("read", "busy", 0, "polled") BY <1>0, <1>12, <2>1 DEF Polled, ReadRegister, initVars
    <3> QED BY <3>1, <1>1
  <2>2. CASE ~(io.value # 0)
    <3>1. Asks("write", "irqmask", 0, "arm") BY <1>0, <1>12, <2>2 DEF Polled, WriteRegister, initVars
    <3> QED BY <3>1, <1>1
  <2> QED BY <2>1, <2>2
<1>13. CASE SetHeight
  <2>1. Asks("write", "height", mode, "bpp")
    BY <1>0, <1>13 DEF SetHeight, WriteRegister, initVars
  <2> QED BY <2>1, <1>1
<1>14. CASE SetBpp
  <2>1. Asks("write", "bpp", mode, "reenable")
    BY <1>0, <1>14 DEF SetBpp, WriteRegister, initVars
  <2> QED BY <2>1, <1>1
<1>15. CASE SetEnable
  <2>1. Asks("write", "enable", 1, "pitch")
    BY <1>0, <1>15 DEF SetEnable, WriteRegister, initVars
  <2> QED BY <2>1, <1>1
<1>16. CASE ReadPitch
  <2>1. Asks("read", "pitch", 0, "ready")
    BY <1>0, <1>16 DEF ReadPitch, ReadRegister, initVars
  <2> QED BY <2>1, <1>1
<1>17. CASE Full
  <2>1. CASE capabilities
    <3>1. Asks("write", "irqmask", FIFO_PROGRESS, "clearProgress")
      BY <1>0, <1>17, <2>1 DEF Full, WriteRegister, initVars
    <3> QED BY <3>1, <1>1
  <2>2. CASE ~capabilities
    <3>1. Asks("write", "sync", 1, "askBusy") BY <1>0, <1>17, <2>2 DEF Full, WriteRegister, initVars
    <3> QED BY <3>1, <1>1
  <2> QED BY <2>1, <2>2
<1>18. CASE AskBusy
  <2>1. Asks("read", "busy", 0, "reserve")
    BY <1>0, <1>18 DEF AskBusy, ReadRegister, initVars
  <2> QED BY <2>1, <1>1
<1>19. CASE Unmask
  <2>1. Asks("write", "irqmask", 0, "reserve")
    BY <1>0, <1>19 DEF Unmask, WriteRegister, initVars
  <2> QED BY <2>1, <1>1
<1> QED BY <1>2, <1>3, <1>4, <1>5, <1>6, <1>7, <1>8, <1>9, <1>10, <1>11, <1>12, <1>13, <1>14, <1>15, <1>16, <1>17, <1>18, <1>19 DEF PlainAccess

(* SetMode, Disable and RingDoorbell also begin accesses, or do what the   *)
(* next lemma names.                                                       *)
LEMMA CallAsks ==
    ASSUME Inv, Call, UNCHANGED handler
    PROVE  \/ Asking
           \/ /\ pc = "ready" /\ Goto("reserve") /\ calls' \in 0..MaxCalls
              /\ UNCHANGED <<cardVars, irqVars, handler>>
              /\ UNCHANGED <<version, capabilities, mode, reserved, fifoMemory, fifoRegs, registered>>
<1>1. \A op, r, value, next : Asks(op, r, value, next) => Asking BY DEF Asking
<1> USE DEF Asks, Preparing, Negotiating, Searching, Mapped, ControlPoints, Registers, Stored, Waiting
<1>0. /\ mode \in Modes \cup {0} /\ calls + 1 \in 0..MaxCalls
      /\ busy \in BOOLEAN /\ wait \in [flags : SUBSET Flags, next : {"ready", "unmask"}]
  BY SvgaAssumption DEF Inv, TypeOK, CardTypeOK, DriverTypeOK, IrqTypeOK, Call
<1>2. CASE Goto("reserve") /\ UNCHANGED <<card, command, reg, index, status, fifo, working, irqVars, mode>>
  BY <1>0, <1>2 DEF Call, cardVars, irqVars
<1>3. CASE WriteRegister("enable", 0, "ready") /\ UNCHANGED <<mode, wait>>
  <2>1. Asks("write", "enable", 0, "ready") BY <1>0, <1>3 DEF Call, WriteRegister
  <2> QED BY <2>1, <1>1
<1>4. ASSUME NEW m \in Modes, mode' = m, WriteRegister("width", m, "height"), UNCHANGED wait
      PROVE  Asking
  <2>1. m \in Int BY SvgaAssumption
  <2>2. Asks("write", "width", m, "height") BY <1>0, <1>4, <2>1 DEF Call, WriteRegister
  <2> QED BY <2>2, <1>1
<1> QED BY <1>2, <1>3, <1>4 DEF Call

LEMMA DoorbellAsks ==
    ASSUME Inv, RingDoorbell, UNCHANGED handler
    PROVE  \/ Asking
           \/ /\ pc = "doorbell" /\ Goto("arm")
              /\ wait' \in [flags : SUBSET Flags, next : {"ready", "unmask"}]
              /\ UNCHANGED <<cardVars, initVars, pending, switchContext, owed, handler>>
<1>1. \A op, r, value, next : Asks(op, r, value, next) => Asking BY DEF Asking
<1> USE DEF Asks, Preparing, Negotiating, Searching, Mapped, ControlPoints, Registers, Stored, Waiting
<1>0. /\ mode \in Modes \cup {0} /\ calls \in 0..MaxCalls /\ busy \in BOOLEAN
      /\ wait' \in [flags : SUBSET Flags, next : {"ready", "unmask"}]
  BY DEF Inv, TypeOK, CardTypeOK, DriverTypeOK, IrqTypeOK, RingDoorbell
<1>2. CASE busy
  BY <1>0, <1>2 DEF RingDoorbell, cardVars
<1>3. CASE ~busy
  <2>1. Asks("write", "sync", 1, "arm") BY <1>0, <1>3 DEF RingDoorbell, WriteRegister, initVars
  <2> QED BY <2>1, <1>1
<1> QED BY <1>2, <1>3

LEMMA AskingKeepsInv ==
    ASSUME Inv, Asking
    PROVE  Inv'
<1>1. PICK op, r, value, next : Asks(op, r, value, next) BY DEF Asking
<1>2. TypeOK'
  BY <1>1 DEF Inv, TypeOK, CardTypeOK, DriverTypeOK, IrqTypeOK, Asks, Access, ControlPoints
<1>3. /\ pc' = "access" /\ io' = [op |-> op, reg |-> r, value |-> value, next |-> next] /\ index' = r
      /\ UNCHANGED <<card, command, reg, status, fifo, working, pending, switchContext, owed>>
      /\ UNCHANGED <<version, capabilities, reserved, fifoMemory, fifoRegs, registered, handler>>
  BY <1>1 DEF Asks, Access
<1>4. AccessInv' BY <1>1, <1>3 DEF Asks, AccessInv
<1>5. Location' = next /\ Location = pc
  BY <1>1, <1>3 DEF Location, Asks, Preparing, Negotiating, Mapped
<1>6. OrderInv'
  BY <1>1, <1>3, <1>5 DEF Inv, SafetyInv, OrderInv, Asks, Preparing, Negotiating, Searching, Mapped
<1>7. FlagsInv' /\ NoFlagLost' /\ ConfiguredSafely'
  BY <1>1, <1>3 DEF Inv, SafetyInv, FlagsInv, NoFlagLost, ConfiguredSafely, Asks, Waiting
<1> QED BY <1>2, <1>4, <1>6, <1>7 DEF Inv, SafetyInv

-----------------------------------------------------------------------------
(* The second half of an access: only the write ConfigDone asked for       *)
(* touches CONFIG_DONE, and the FIFO registers are set up by then.         *)
LEMMA ValueKeepsInv ==
    ASSUME Inv, WriteValue \/ ReadValue, UNCHANGED handler
    PROVE  Inv'
<1>0. /\ pc = "access" /\ pc' = io.next /\ Location = io.next /\ Location' = io.next
      /\ io' \in [op : {"none", "read", "write"}, reg : Registers, value : Int, next : ControlPoints]
      /\ io'.op = "none" /\ pc' \notin {"access", "start", "absent", "lost", "negotiate"}
      /\ UNCHANGED <<card, command, index, status, fifo, busy, initVars, irqVars>>
  <2>1. io.next \notin {"access", "start", "absent", "lost", "negotiate"}
    BY DEF Inv, SafetyInv, AccessInv, WriteValue, ReadValue
  <2>2. Reads(index) \in Int
    BY DEF Reads, Inv, TypeOK, CardTypeOK, Stored
  <2>3. io' \in [op : {"none", "read", "write"}, reg : Registers, value : Int, next : ControlPoints]
        /\ io'.op = "none"
    BY <2>2 DEF WriteValue, ReadValue, NoAccess, Registers, Stored, ControlPoints
  <2> QED BY <2>1, <2>3 DEF WriteValue, ReadValue, Location, cardVars
<1>1. /\ reg' \in [Stored -> Int] /\ working' \in BOOLEAN
      /\ \/ reg'["configDone"] = reg["configDone"]
         \/ io.op = "write" /\ io.reg = "configDone" /\ reg'["configDone"] = 1
  BY <1>0, ZenonT(40) DEF WriteValue, ReadValue, cardVars, Inv, TypeOK, CardTypeOK, DriverTypeOK, SafetyInv, AccessInv, Stored
<1>2. TypeOK'
  BY <1>0, <1>1 DEF Inv, TypeOK, CardTypeOK, DriverTypeOK, IrqTypeOK, initVars, irqVars
<1>3. AccessInv' BY <1>0 DEF AccessInv
<1>4. OrderInv'
  BY <1>0, <1>1 DEF Inv, SafetyInv, AccessInv, OrderInv, initVars, Preparing, Negotiating, Searching
<1>5. FlagsInv' /\ NoFlagLost'
  BY <1>0, <1>1 DEF Inv, SafetyInv, FlagsInv, NoFlagLost, irqVars
<1>6. ConfiguredSafely'
  BY <1>0, <1>1 DEF Inv, SafetyInv, AccessInv, OrderInv, ConfiguredSafely, initVars,
     Mapped, ControlPoints, Preparing, Negotiating, Searching
<1> QED BY <1>2, <1>3, <1>4, <1>5, <1>6 DEF Inv, SafetyInv

(* GetDeviceBAR answers with a number, whatever the registers hold.        *)
LEMMA BarType ==
    ASSUME NEW f \in [headerType : {0, 1}, bars : [0..5 -> Nat]], NEW i \in 0..2, NEW kept \in Int
    PROVE  GetDeviceBAR(f, i, kept) \in Int
<1>1. f.bars[i] \in Nat /\ f.bars[i + 1] \in Nat OBVIOUS
<1> DEFINE content == f.bars[i]
<1>2. /\ content % 16 \in Int /\ content % 4 \in Int
      /\ content - (content % 16) \in Int /\ content - (content % 4) \in Int
      /\ (content - (content % 16)) % Above64K \in Int
      /\ f.bars[i + 1] * UpperHalf + (content - (content % 16)) \in Int
  BY <1>1 DEF Above64K, UpperHalf
<1> HIDE DEF content
<1> QED BY <1>2 DEF GetDeviceBAR, content

InitInv == TypeOK /\ OrderInv /\ FlagsInv /\ NoFlagLost /\ ConfiguredSafely

(* The other steps of Init and Enable.                                     *)
LEMMA InitKeepsInv ==
    ASSUME Inv, Trusted, UNCHANGED handler,
           \/ Clear \/ FindDevice \/ MatchVersion \/ StoreCapabilities \/ ClearStatus
           \/ RequestIRQ \/ MapFifo \/ InsertFence
    PROVE  Inv'
<1> USE DEF Goto
<1>a. NoAccess \in [op : {"none", "read", "write"}, reg : Registers, value : Int, next : ControlPoints]
      /\ NoAccess.op = "none"
  BY DEF NoAccess, Registers, Stored, ControlPoints
<1>b. /\ pc # "access" /\ pc' \in ControlPoints \ {"access"} /\ io' = NoAccess /\ pc \notin {"arm", "test", "decided", "halt", "disarm"}
      /\ Location = pc /\ Location' = pc'
      /\ UNCHANGED <<card, reg, index, busy, working, switchContext, wait, calls, mode>>
  BY DEF Clear, ClearIRQ, FindDevice, MatchVersion, StoreCapabilities, ClearStatus, RequestIRQ, MapFifo,
         InsertFence, cardVars, initVars, irqVars, ControlPoints, Location
<1>d. SUFFICES InitInv'
  <2>1. AccessInv' BY <1>a, <1>b DEF AccessInv
  <2> QED BY <2>1 DEF InitInv, Inv, SafetyInv
<1>1. CASE FindDevice
  <2>1. fifoMemory' \in Int /\ (card.present => fifoMemory' = card.fifo)
    <3>1. card.function \in [headerType : {0, 1}, bars : [0..5 -> Nat]]
      BY SvgaAssumption DEF Inv, TypeOK, CardTypeOK, CardType
    <3>2. FifoBar(card.function) \in Int BY <3>1, BarType DEF FifoBar, Unset
    <3> QED BY <1>1, <3>2 DEF FindDevice, Trusted, Inv, TypeOK, CardTypeOK, DriverTypeOK
  <2>2. /\ \/ pc' = "negotiate" /\ command' = CommandFlags /\ fifoMemory' = card.fifo
           \/ pc' = "absent" /\ command' = command
        /\ command' \subseteq CommandFlags
        /\ UNCHANGED <<fifo, status, irqVars>>
        /\ UNCHANGED <<version, capabilities, reserved, fifoRegs, registered>>
    <3>1. command \cup CommandFlags = CommandFlags BY DEF Inv, TypeOK, CardTypeOK
    <3> QED BY <1>1, <2>1, <3>1 DEF FindDevice, SetDeviceEnabled, Inv, TypeOK, CardTypeOK
  <2>3. reg["configDone"] = 0 /\ version \in 0..2
    BY <1>1, <1>b DEF FindDevice, Inv, SafetyInv, OrderInv, Searching
  <2> QED
    BY <1>a, <1>b, <2>1, <2>2, <2>3 DEF InitInv, irqVars,
       Inv, TypeOK, CardTypeOK, DriverTypeOK, IrqTypeOK, SafetyInv, OrderInv, FlagsInv, NoFlagLost, ConfiguredSafely,
       Preparing, Negotiating, Searching, Mapped
<1>2. CASE MatchVersion
  <2>1. version \in 0..2 BY <1>2, <1>b DEF MatchVersion, Inv, SafetyInv, OrderInv, Negotiating
  <2>2. /\ version' \in BelowID0..2
        /\ pc' \in {"negotiate", "sizes"} /\ (pc' = "negotiate" => version' \in 0..2)
    BY <1>2, <2>1 DEF MatchVersion, NextVersion, StillNegotiable, BelowID0
  <2> QED
    BY <1>2, <1>a, <1>b, <2>2 DEF MatchVersion, InitInv, cardVars, irqVars,
       Inv, TypeOK, CardTypeOK, DriverTypeOK, IrqTypeOK, SafetyInv, OrderInv, FlagsInv, NoFlagLost, ConfiguredSafely,
       Preparing, Negotiating, Searching, Mapped
<1>3. CASE StoreCapabilities
  BY <1>3, <1>a, <1>b DEF StoreCapabilities, InitInv, cardVars, initVars, irqVars,
     Inv, TypeOK, CardTypeOK, DriverTypeOK, IrqTypeOK, SafetyInv, OrderInv, FlagsInv, NoFlagLost, ConfiguredSafely,
     Preparing, Negotiating, Searching, Mapped, ControlPoints
<1>4. CASE ClearStatus
  BY <1>4, <1>a, <1>b DEF ClearStatus, InitInv, cardVars, initVars, irqVars,
     Inv, TypeOK, CardTypeOK, DriverTypeOK, IrqTypeOK, SafetyInv, OrderInv, FlagsInv, NoFlagLost, ConfiguredSafely,
     Preparing, Negotiating, Searching, Mapped, ControlPoints
<1>5. CASE RequestIRQ
  BY <1>5, <1>a, <1>b DEF RequestIRQ, InitInv, cardVars, initVars, irqVars,
     Inv, TypeOK, CardTypeOK, DriverTypeOK, IrqTypeOK, SafetyInv, OrderInv, FlagsInv, NoFlagLost, ConfiguredSafely,
     Preparing, Negotiating, Searching, Mapped, ControlPoints
<1>6. CASE MapFifo
  BY <1>6, <1>a, <1>b DEF MapFifo, InitInv, cardVars, initVars, irqVars,
     Inv, TypeOK, CardTypeOK, DriverTypeOK, IrqTypeOK, SafetyInv, OrderInv, FlagsInv, NoFlagLost, ConfiguredSafely,
     Preparing, Negotiating, Searching, Mapped, ControlPoints
<1>7. CASE Clear
  BY <1>7, <1>a, <1>b DEF Clear, InitInv, cardVars, initVars, irqVars,
     Inv, TypeOK, CardTypeOK, DriverTypeOK, IrqTypeOK, SafetyInv, OrderInv, FlagsInv, NoFlagLost, ConfiguredSafely,
     Preparing, Negotiating, Searching, Mapped, ControlPoints, ClearIRQ, TakePending
<1>8. CASE InsertFence
  <2>1. fifo' \in Seq({"fence", "command", "stray"}) /\ reserved' \in BOOLEAN
    BY <1>8 DEF InsertFence, Inv, TypeOK, CardTypeOK, DriverTypeOK
  <2> QED
    BY <1>8, <1>a, <1>b, <2>1 DEF InsertFence, InitInv, irqVars,
       Inv, TypeOK, CardTypeOK, DriverTypeOK, IrqTypeOK, SafetyInv, OrderInv, FlagsInv, NoFlagLost, ConfiguredSafely,
       Preparing, Negotiating, Searching, Mapped, ControlPoints
<1> QED BY <1>1, <1>2, <1>3, <1>4, <1>5, <1>6, <1>7, <1>8

-----------------------------------------------------------------------------
(* WaitForIRQ and the calls after Init: steps within the phase in which    *)
(* the card is configured.                                                 *)
WithinMapped ==
    /\ pc \in Mapped /\ pc' \in Mapped /\ io' = NoAccess
    /\ fifo' \in Seq({"fence", "command", "stray"}) /\ calls' \in 0..MaxCalls
    /\ wait' \in [flags : SUBSET Flags, next : {"ready", "unmask"}]
    /\ pending' \subseteq Flags /\ switchContext' \in BOOLEAN
    /\ owed' \subseteq owed /\ owed' \subseteq status \cup handler.flags \cup pending'
    /\ UNCHANGED <<card, command, reg, index, status, busy, working, handler>>
    /\ UNCHANGED <<version, capabilities, mode, reserved, fifoMemory, fifoRegs, registered>>

LEMMA WithinMappedKeepsInv ==
    ASSUME Inv, WithinMapped
    PROVE  Inv'
<1>a. NoAccess \in [op : {"none", "read", "write"}, reg : Registers, value : Int, next : ControlPoints]
      /\ NoAccess.op = "none"
  BY DEF NoAccess, Registers, Stored, ControlPoints
<1>b. /\ pc # "access" /\ pc' # "access" /\ Location = pc /\ Location' = pc' /\ pc' \in ControlPoints
  BY DEF WithinMapped, Mapped, Location
<1>1. TypeOK'
  BY <1>a, <1>b DEF WithinMapped, Inv, TypeOK, CardTypeOK, DriverTypeOK, IrqTypeOK
<1>2. AccessInv'
  BY <1>a, <1>b DEF WithinMapped, AccessInv
<1>3. OrderInv' /\ ConfiguredSafely'
  BY <1>b DEF WithinMapped, Inv, SafetyInv, OrderInv, ConfiguredSafely, Mapped, Preparing, Negotiating, Searching
<1>4. FlagsInv' /\ NoFlagLost'
  BY DEF WithinMapped, Inv, SafetyInv, FlagsInv, NoFlagLost
<1> QED BY <1>1, <1>2, <1>3, <1>4 DEF Inv, SafetyInv

LEMMA WaitKeepsInv ==
    ASSUME Inv, UNCHANGED handler,
           Arm \/ TestPending \/ Halt \/ Disarm \/ Reserve \/ Call \/ RingDoorbell
    PROVE  Inv'
<1> USE DEF Goto, cardVars, initVars, irqVars, Mapped, ControlPoints, Preparing, Negotiating, Searching
<1>a. /\ fifo \in Seq({"fence", "command", "stray"}) /\ calls \in 0..MaxCalls
      /\ wait \in [flags : SUBSET Flags, next : {"ready", "unmask"}]
      /\ pending \subseteq Flags /\ switchContext \in BOOLEAN
      /\ owed \subseteq status \cup handler.flags \cup pending
  BY DEF Inv, TypeOK, CardTypeOK, DriverTypeOK, IrqTypeOK, SafetyInv, NoFlagLost
<1>b. WithinMapped => Inv' BY WithinMappedKeepsInv
<1>1. CASE Arm BY <1>1, <1>a, <1>b DEF Arm, WithinMapped
<1>2. CASE TestPending BY <1>2, <1>a, <1>b DEF TestPending, TakePending, WithinMapped
<1>3. CASE Disarm BY <1>3, <1>a, <1>b DEF Disarm, NothingSeen, WithinMapped
<1>4. CASE Reserve
  <2>1. fifo' \in Seq({"fence", "command", "stray"}) BY <1>4, <1>a DEF Reserve
  <2> QED BY <1>4, <2>1, <1>a, <1>b DEF Reserve, WithinMapped
<1>5. CASE Call
  <2>1. CASE Asking BY <2>1, AskingKeepsInv
  <2> QED BY <1>5, <2>1, <1>a, <1>b, CallAsks DEF WithinMapped
<1>6. CASE RingDoorbell
  <2>1. CASE Asking BY <2>1, AskingKeepsInv
  <2> QED BY <1>6, <2>1, <1>a, <1>b, DoorbellAsks DEF WithinMapped
<1>7. CASE Halt BY <1>7, <1>a, <1>b DEF Halt, WithinMapped
<1> QED BY <1>1, <1>2, <1>3, <1>4, <1>5, <1>6, <1>7

(* A step of the driver's thread, whichever it is.                         *)
LEMMA DriverKeepsInv ==
    ASSUME Inv, Trusted, Driver
    PROVE  Inv'
<1>1. CASE PlainAccess /\ UNCHANGED handler
  BY <1>1, PlainAccessAsks, AskingKeepsInv
<1>2. CASE (WriteValue \/ ReadValue) /\ UNCHANGED handler
  BY <1>2, ValueKeepsInv
<1>3. CASE /\ \/ Clear \/ FindDevice \/ MatchVersion \/ StoreCapabilities \/ ClearStatus
              \/ RequestIRQ \/ MapFifo \/ InsertFence
           /\ UNCHANGED handler
  BY <1>3, InitKeepsInv
<1>4. CASE (Arm \/ TestPending \/ Halt \/ Disarm \/ Reserve \/ Call \/ RingDoorbell) /\ UNCHANGED handler
  BY <1>4, WaitKeepsInv
<1> QED BY <1>1, <1>2, <1>3, <1>4 DEF Driver, Progress, InitSteps, WaitSteps, CallSteps, PlainAccess

-----------------------------------------------------------------------------
(* Interrupts come at any point of the driver, the middle of an access     *)
(* included, and leave its registers and its locals alone.                 *)
LEMMA InterruptKeepsInv ==
    ASSUME Inv, Tick \/ OtherInterrupt \/ HandleInterrupt
    PROVE  Inv'
<1> USE DEF Goto, cardVars, initVars, irqVars
<1>a. NoAccess \in [op : {"none", "read", "write"}, reg : Registers, value : Int, next : ControlPoints]
      /\ NoAccess.op = "none"
  BY DEF NoAccess, Registers, Stored, ControlPoints
<1>1. /\ UNCHANGED <<card, command, reg, index, fifo, busy, working, initVars, wait, owed>>
      /\ status' \subseteq status /\ pending' \subseteq Flags
      /\ switchContext' \in BOOLEAN /\ (switchContext' => switchContext)
      /\ handler' \in [at : {"none", "read", "acknowledge", "record", "switch"}, flags : SUBSET Flags]
      /\ handler'.at \notin {"acknowledge", "record"} => handler'.flags = {}
      /\ owed' \subseteq status' \cup handler'.flags \cup pending'
  <2>a. /\ status \subseteq Flags /\ pending \subseteq Flags /\ switchContext \in BOOLEAN
        /\ handler \in [at : {"none", "read", "acknowledge", "record", "switch"}, flags : SUBSET Flags]
        /\ handler.at \notin {"acknowledge", "record"} => handler.flags = {}
        /\ owed \subseteq status \cup handler.flags \cup pending
    BY DEF Inv, TypeOK, CardTypeOK, IrqTypeOK, SafetyInv, FlagsInv, NoFlagLost
  <2>1. CASE Tick BY <2>1, <2>a DEF Tick
  <2>2. CASE OtherInterrupt BY <2>2, <2>a DEF OtherInterrupt
  <2>3. CASE ReadStatus BY <2>3, <2>a DEF ReadStatus
  <2>4. CASE Acknowledge BY <2>4, <2>a DEF Acknowledge
  <2>5. CASE Record BY <2>5, <2>a DEF Record
  <2>6. CASE Switch BY <2>6, <2>a DEF Switch, NoHandler
  <2> QED BY <2>1, <2>2, <2>3, <2>4, <2>5, <2>6 DEF HandleInterrupt
<1>2. /\ \/ UNCHANGED <<pc, io>>
         \/ pc = "halt" /\ pc' = "disarm" /\ io' \in {io, NoAccess}
         \/ pc' = "lost" /\ io' = NoAccess
      /\ pc' = "lost" => pc = "lost" \/ ~switchContext'
  BY DEF Tick, OtherInterrupt, HandleInterrupt, ReadStatus, Acknowledge, Record, Switch
<1>3. TypeOK'
  BY <1>1, <1>2, <1>a DEF Inv, TypeOK, CardTypeOK, DriverTypeOK, IrqTypeOK, ControlPoints
<1>4. AccessInv'
  BY <1>1, <1>2, <1>a DEF Inv, SafetyInv, AccessInv
<1>5. OrderInv' /\ ConfiguredSafely'
  BY <1>1, <1>2 DEF Inv, SafetyInv, OrderInv, ConfiguredSafely, Location, Mapped, Preparing, Negotiating,
     Searching, ControlPoints
<1>6. FlagsInv' /\ NoFlagLost'
  BY <1>1 DEF Inv, SafetyInv, FlagsInv, NoFlagLost
<1> QED BY <1>3, <1>4, <1>5, <1>6 DEF Inv, SafetyInv

(* The card raises flags only once it is configured.                       *)
LEMMA DeviceKeepsInv ==
    ASSUME Inv, Device
    PROVE  Inv'
<1>1. /\ UNCHANGED <<card, command, reg, index, initVars, pending, switchContext, wait, pc, io, handler>>
      /\ busy' \in BOOLEAN /\ working' \in BOOLEAN
      /\ status \subseteq status' /\ status' \subseteq Flags
      /\ owed' \subseteq owed \cup status' /\ owed' \subseteq Flags
      /\ owed' = owed \/ reg["configDone"] = 1
  BY DEF Device, DeviceStart, DeviceTake, DeviceIdle, Configured, Raised, Flags, irqVars,
         Inv, TypeOK, CardTypeOK, IrqTypeOK
<1>2. fifo' \in Seq({"fence", "command", "stray"})
  BY HeadTailProperties DEF Device, DeviceStart, DeviceTake, DeviceIdle, Inv, TypeOK, CardTypeOK
<1>3. TypeOK'
  BY <1>1, <1>2 DEF Inv, TypeOK, CardTypeOK, DriverTypeOK, IrqTypeOK, initVars
<1>4. AccessInv' /\ OrderInv' /\ ConfiguredSafely'
  BY <1>1 DEF Inv, SafetyInv, AccessInv, OrderInv, ConfiguredSafely, Waiting, Location, initVars
<1>5. FlagsInv' /\ NoFlagLost'
  BY <1>1 DEF Inv, SafetyInv, FlagsInv, NoFlagLost
<1> QED BY <1>3, <1>4, <1>5 DEF Inv, SafetyInv

-----------------------------------------------------------------------------
LEMMA InitEstablishesInv ==
    ASSUME Init, Trusted
    PROVE  Inv
<1>1. TypeOK
  <2>1. card.first \in Int BY SvgaAssumption DEF Init, CardType
  <2>2. reg \in [Stored -> Int] BY <2>1 DEF Init
  <2>3. fifo \in Seq({"fence", "command", "stray"}) BY DEF Init
  <2>4. CardTypeOK
    BY <2>2, <2>3 DEF Init, CardTypeOK, CommandFlags, Registers, Stored
  <2>5. DriverTypeOK
    <3>1. io \in [op : {"none", "read", "write"}, reg : Registers, value : Int, next : ControlPoints]
      BY DEF Init, NoAccess, Registers, Stored, ControlPoints
    <3>2. capabilities \in BOOLEAN /\ reserved \in BOOLEAN /\ 0 \in 0..MaxCalls
      BY SvgaAssumption DEF Init
    <3>3. pc \in ControlPoints /\ mode \in Modes \cup {0} /\ calls \in 0..MaxCalls
      BY <3>2 DEF Init, ControlPoints
    <3>4. version \in BelowID0..2 /\ fifoMemory \in Int /\ fifoRegs \in Int
      BY DEF Init, BelowID0, Unset
    <3>5. registered \in BOOLEAN BY DEF Init
    <3> QED BY <3>1, <3>2, <3>3, <3>4, <3>5 DEF DriverTypeOK
  <2>6. IrqTypeOK
    BY SvgaAssumption DEF Init, IrqTypeOK, NoHandler
  <2> QED BY <2>4, <2>5, <2>6 DEF TypeOK
<1>2. /\ pc = "start" /\ io.op = "none" /\ reg["configDone"] = 0 /\ version = 2 /\ owed = {}
      /\ handler.flags = {}
  BY SvgaAssumption DEF Init, Trusted, NoAccess, NoHandler, Stored
<1>3. SafetyInv
  BY <1>2 DEF SafetyInv, AccessInv, OrderInv, FlagsInv, NoFlagLost, ConfiguredSafely,
     Location, Negotiating, Preparing, Searching, Mapped
<1> QED BY <1>1, <1>3 DEF Inv

(* The inductive invariant: types, the register access in progress, what   *)
(* each phase of Init has established, and where a raised flag is.         *)
THEOREM DeviceInvariance ==
    ASSUME Trusted
    PROVE  Spec => []Inv
<1>1. Init => Inv BY InitEstablishesInv
<1>2. Inv /\ [Next]_vars => Inv'
  <2> SUFFICES ASSUME Inv, [Next]_vars PROVE Inv'
    OBVIOUS
  <2>1. CASE Driver BY <2>1, DriverKeepsInv
  <2>2. CASE Tick \/ OtherInterrupt \/ HandleInterrupt BY <2>2, InterruptKeepsInv
  <2>3. CASE Device BY <2>3, DeviceKeepsInv
  <2>4. CASE UNCHANGED vars
    BY <2>4 DEF vars, cardVars, initVars, irqVars, Inv, TypeOK, CardTypeOK, DriverTypeOK, IrqTypeOK, SafetyInv,
       AccessInv, OrderInv, FlagsInv, NoFlagLost, ConfiguredSafely, Waiting, Location
  <2> QED BY <2>1, <2>2, <2>3, <2>4 DEF Next
<1> QED BY <1>1, <1>2, PTL DEF Spec

(* Every variable keeps its type: the version never falls below the one    *)
(* under SVGA_ID_0, and every register named exists.                       *)
THEOREM DeviceTypeCorrect ==
    ASSUME Trusted
    PROVE  Spec => []TypeOK
<1>1. Inv => TypeOK BY DEF Inv
<1> QED BY <1>1, DeviceInvariance, PTL

(* No flag the card raises is lost between its status port and pending,    *)
(* whenever the interrupt and the card come.                               *)
THEOREM FlagsAreKept ==
    ASSUME Trusted
    PROVE  Spec => []NoFlagLost
<1>1. Inv => NoFlagLost BY DEF Inv, SafetyInv
<1> QED BY <1>1, DeviceInvariance, PTL

(* The card is told to use the FIFO only after it was set up in its own    *)
(* memory and the card may reach it.                                       *)
THEOREM ConfigurationIsSafe ==
    ASSUME Trusted
    PROVE  Spec => []ConfiguredSafely
<1>1. Inv => ConfiguredSafely BY DEF Inv, SafetyInv
<1> QED BY <1>1, DeviceInvariance, PTL

-----------------------------------------------------------------------------
(* Only WaitForIRQ and the handler write switchContext, and only Arm sets  *)
(* it.                                                                     *)
DisarmedOutside ==
    /\ Waiting /\ ~Waiting' => ~switchContext'
    /\ ~switchContext /\ switchContext' => Waiting /\ Waiting'

LEMMA EveryStepDisarms ==
    ASSUME Next
    PROVE  DisarmedOutside
<1> USE DEF DisarmedOutside, Waiting, Goto, Access, WriteRegister, ReadRegister, irqVars
<1>1. CASE WriteValue \/ ReadValue \/ Clear
  BY <1>1 DEF WriteValue, ReadValue, Clear, ClearIRQ
<1>2. CASE PlainAccess
  BY <1>2 DEF PlainAccess, OfferVersion, AskVersion, ReadSizes, ReadCapabilities, MaskAll, TurnOn, ConfigDone,
     UnmaskFence, SyncFence, PollBusy, Polled, SetHeight, SetBpp, SetEnable, ReadPitch, Full, AskBusy, Unmask
<1>3. CASE FindDevice \/ MatchVersion \/ StoreCapabilities \/ ClearStatus \/ RequestIRQ \/ MapFifo
           \/ InsertFence
  <2>1. ~Waiting /\ switchContext' = switchContext
    BY <1>3 DEF FindDevice, MatchVersion, StoreCapabilities, ClearStatus, RequestIRQ, MapFifo, InsertFence
  <2> QED BY <2>1
<1>4. CASE Arm \/ TestPending \/ Halt \/ Disarm
  BY <1>4 DEF Arm, TestPending, Halt, Disarm
<1>5. CASE Reserve \/ RingDoorbell \/ Call
  BY <1>5 DEF Reserve, RingDoorbell, Call
<1>6. CASE Tick \/ OtherInterrupt \/ ReadStatus \/ Acknowledge \/ Record \/ Switch
  BY <1>6 DEF Tick, OtherInterrupt, ReadStatus, Acknowledge, Record, Switch
<1>7. CASE Device
  BY <1>7 DEF Device, DeviceStart, DeviceTake, DeviceIdle
<1> QED
  BY <1>1, <1>2, <1>3, <1>4, <1>5, <1>6, <1>7
  DEF Next, Driver, Progress, InitSteps, WaitSteps, CallSteps, PlainAccess, HandleInterrupt

(* However the frame of WaitForIRQ is left, the handler cannot switch to   *)
(* it afterwards, and nothing else arms the switch: for every machine, and *)
(* whatever switchContext held before Init (svga.cpp:57).                  *)
THEOREM SwitchStaysInFrame == Spec => FrameLeavesDisarmed
<1>1. [Next]_vars => [DisarmedOutside]_vars BY EveryStepDisarms
<1> QED BY <1>1, PTL DEF Spec, FrameLeavesDisarmed, DisarmedOutside

(* A TRUE the stack left in switchContext is the only way the handler can  *)
(* switch while WaitForIRQ is not on the stack (svga.h:49).                *)
THEOREM OnlyStaleSwitchEscapes ==
    ASSUME TRUE \notin StaleSwitch
    PROVE  Spec => []SwitchOnlyWaiting
<1>1. Init => SwitchOnlyWaiting BY SvgaAssumption DEF Init, SwitchOnlyWaiting
<1>2. SwitchOnlyWaiting /\ [Next]_vars => SwitchOnlyWaiting'
  <2>1. DisarmedOutside /\ SwitchOnlyWaiting => SwitchOnlyWaiting' BY DEF DisarmedOutside, SwitchOnlyWaiting
  <2>2. UNCHANGED vars /\ SwitchOnlyWaiting => SwitchOnlyWaiting' BY DEF vars, irqVars, SwitchOnlyWaiting, Waiting
  <2> QED BY <2>1, <2>2, EveryStepDisarms
<1> QED BY <1>1, <1>2, PTL DEF Spec

-----------------------------------------------------------------------------
(* The way to the hlt: the switch is armed before pending is tested.  From *)
(* the test on an interrupt may come at any point: before the hlt it takes *)
(* the driver to newContext when it is done, at the hlt it ends it.        *)
SleepInv ==
    /\ pc \in {"test", "decided", "halt"} => switchContext
    /\ pc \in {"decided", "halt"} /\ handler.at = "none" => pending = {}
    /\ pc = "halt" => handler.at = "none"
    /\ pc = "access" => io.next \notin {"test", "decided", "halt"}
    /\ wait = [flags |-> wait.flags, next |-> wait.next] /\ wait.next \in {"ready", "unmask"}

(* Steps that lead nowhere near the hlt.                                   *)
Elsewhere ==
    /\ pc' \notin {"test", "decided", "halt"}
    /\ pc' = "access" => io'.next \notin {"test", "decided", "halt"}
    /\ wait' = [flags |-> wait'.flags, next |-> wait'.next] /\ wait'.next \in {"ready", "unmask"}

LEMMA DriverSleeps ==
    ASSUME SleepInv, Driver
    PROVE  SleepInv'
<1> USE DEF Goto, Access, WriteRegister, ReadRegister, irqVars
<1>0. handler' = handler /\ handler.at = "none" BY DEF Driver, Progress, Interrupted
<1>a. wait = [flags |-> wait.flags, next |-> wait.next] /\ wait.next \in {"ready", "unmask"} BY DEF SleepInv
<1>b. Elsewhere => SleepInv' BY DEF Elsewhere, SleepInv
<1>1. CASE WriteValue \/ ReadValue
  <2>1. pc' = io.next /\ pc = "access" /\ wait' = wait BY <1>1 DEF WriteValue, ReadValue
  <2>2. io'.next = "start" BY <1>1 DEF WriteValue, ReadValue, NoAccess
  <2> QED BY <2>1, <2>2, <1>a, <1>b DEF SleepInv, Elsewhere
<1>2. CASE Clear
  BY <1>2, <1>a, <1>b DEF Clear, ClearIRQ, Elsewhere
<1>3. CASE PlainAccess
  BY <1>3, <1>a, <1>b DEF Elsewhere, PlainAccess, OfferVersion, AskVersion, ReadSizes, ReadCapabilities,
     MaskAll, TurnOn, ConfigDone, UnmaskFence, SyncFence, PollBusy, Polled, SetHeight, SetBpp,
     SetEnable, ReadPitch, Full, AskBusy, Unmask
<1>4. CASE FindDevice \/ MatchVersion \/ StoreCapabilities \/ ClearStatus \/ RequestIRQ \/ MapFifo
           \/ InsertFence
  BY <1>4, <1>a, <1>b DEF Elsewhere, FindDevice, MatchVersion, StoreCapabilities, ClearStatus,
     RequestIRQ, MapFifo, InsertFence
<1>5. CASE Arm BY <1>5, <1>a DEF SleepInv, Arm
<1>6. CASE TestPending BY <1>0, <1>6, <1>a DEF SleepInv, TestPending, TakePending
<1>7. CASE Halt \/ Disarm BY <1>0, <1>7, <1>a, <1>b DEF Elsewhere, SleepInv, Halt, Disarm
<1>8. CASE Reserve \/ RingDoorbell BY <1>8, <1>a, <1>b DEF Elsewhere, Reserve, RingDoorbell
<1>9. CASE Call BY <1>9, <1>a, <1>b DEF Elsewhere, Call
<1> QED
  BY <1>1, <1>2, <1>3, <1>4, <1>5, <1>6, <1>7, <1>8, <1>9
  DEF Driver, Progress, InitSteps, WaitSteps, CallSteps, PlainAccess

(* Interrupts: one at the hlt ends it; one between the test and the hlt    *)
(* disarms the switch only when it takes control away.                     *)
LEMMA InterruptSleeps ==
    ASSUME SleepInv, Tick \/ OtherInterrupt \/ HandleInterrupt
    PROVE  SleepInv'
<1> USE DEF Goto, initVars, irqVars, SleepInv
<1>1. CASE Tick BY <1>1 DEF Tick
<1>2. CASE OtherInterrupt BY <1>2 DEF OtherInterrupt
<1>3. CASE ReadStatus BY <1>3 DEF ReadStatus
<1>4. CASE Acknowledge BY <1>4 DEF Acknowledge
<1>5. CASE Record BY <1>5 DEF Record
<1>6. CASE Switch BY <1>6 DEF Switch, NoHandler
<1> QED BY <1>1, <1>2, <1>3, <1>4, <1>5, <1>6 DEF HandleInterrupt

(* WaitForIRQ never sleeps on a flag: what was recorded before the test    *)
(* was seen by it, what is recorded after the test keeps the driver from   *)
(* the hlt, and what is recorded at the hlt ends it (svga.cpp:32-36).      *)
THEOREM NoWakeUpIsLost == Spec => []SleepsOnNothing
<1>1. Init => SleepInv BY DEF Init, SleepInv
<1>2. SleepInv /\ [Next]_vars => SleepInv'
  <2> SUFFICES ASSUME SleepInv, [Next]_vars PROVE SleepInv'
    OBVIOUS
  <2>1. CASE Device BY <2>1 DEF Device, DeviceStart, DeviceTake, DeviceIdle, irqVars, SleepInv
  <2>2. CASE UNCHANGED vars BY <2>2 DEF vars, irqVars, SleepInv
  <2> QED BY <2>1, <2>2, DriverSleeps, InterruptSleeps DEF Next
<1>3. SleepInv => SleepsOnNothing BY DEF SleepInv, SleepsOnNothing
<1> QED BY <1>1, <1>2, <1>3, PTL DEF Spec
=============================================================================
