----------------------------- MODULE SvgaDevice -----------------------------
(***************************************************************************)
(* Bring-up and interrupts of the SVGA driver (drivers/svga/svga.cpp):     *)
(* Init, Enable, SetMode and Disable, the register ports, ClearIRQ,        *)
(* WaitForIRQ, RingDoorbell, FIFO_Full and HandleInterrupt.                *)
(*                                                                         *)
(* A register is reached through two ports, first its index and then its   *)
(* value, so interrupts and the device come between the two.  The words of *)
(* the FIFO are in SvgaFifo; here it is a sequence of commands, fences     *)
(* told apart from the others.  The card and the interrupts are external.  *)
(***************************************************************************)
EXTENDS Bars, Sequences

CONSTANTS
    Cards,          \* the machines: see CardType
    Modes,          \* display modes SetMode is called with
    Room,           \* bound: commands in the FIFO when it is full
    MaxCalls,       \* bound: calls made after Init
    StaleSwitch,    \* what the uninitialised switchContext may hold
    StaleMembers    \* what reservedSize # 0 and the IRQMASK capability bit may hold

ANY_FENCE == 1                  \* SVGA_IRQFLAG_ANY_FENCE
FIFO_PROGRESS == 2              \* SVGA_IRQFLAG_FIFO_PROGRESS
Flags == {ANY_FENCE, FIFO_PROGRESS}
Versions == 0..2                \* SVGA_ID_0 .. SVGA_ID_2
Lines == {"timer", "taken", "free"}     \* interruptLine: 0, 1 or 12, any other

(* supports, first: the versions the card knows and the one it starts in;  *)
(* irqmask, fences: its capabilities; fifo: where its FIFO really is;      *)
(* spare: Paging::Map has the tables it needs.                             *)
CardType ==
    [present : BOOLEAN, supports : SUBSET Versions, first : Nat, irqmask : BOOLEAN,
     fences : BOOLEAN, line : Lines, spare : BOOLEAN, fifo : Nat,
     function : [headerType : {0, 1}, bars : [0..5 -> Nat]]]

ASSUME SvgaAssumption ==
    /\ Cards \subseteq CardType
    /\ Modes \subseteq Nat
    /\ Room \in Nat \ {0} /\ MaxCalls \in Nat
    /\ StaleSwitch \subseteq BOOLEAN /\ StaleMembers \subseteq BOOLEAN

VARIABLES
    card, command,  \* the machine, and the card's PCI command register
    reg, index,     \* the card's registers, and the index port
    status,         \* IRQSTATUS
    fifo, busy,     \* commands in the FIFO, FIFO register BUSY
    working,        \* the card processes commands
    pc, io,         \* the driver: control, the register access it is in
    version, capabilities, mode, reserved,
    fifoMemory,     \* physical address behind svga.fifoMemory
    fifoRegs,       \* where FIFO registers MIN, MAX, NEXT_CMD, STOP were set up
    pending, switchContext,
    wait,           \* WaitForIRQ: its flags, and where it returns to
    registered,     \* the handler table has an entry for the card's line
    handler,        \* HandleInterrupt: where it is, and its irqFlags
    calls,          \* calls made after Init
    owed            \* history: flags raised that no exchange has taken yet

cardVars == <<card, command, reg, index, status, fifo, busy, working>>
initVars == <<version, capabilities, mode, reserved, fifoMemory, fifoRegs, registered, calls>>
irqVars == <<pending, switchContext, wait, owed>>
vars == <<cardVars, initVars, irqVars, pc, io, handler>>

Unset == -1             \* an address nothing has written
BelowID0 == -1          \* the version negotiation ends with when none matches
NoAccess == [op |-> "none", reg |-> "id", value |-> 0, next |-> "start"]
NoHandler == [at |-> "none", flags |-> {}]

Stored == {"id", "irqmask", "enable", "configDone", "width", "height", "bpp"}
Registers == Stored \cup {"sync", "busy", "capabilities", "memSize", "pitch"}

Configured == reg["enable"] = 1 /\ reg["configDone"] = 1 /\ command = CommandFlags

(* `SVGA svga' in kernelMain is an automatic object nothing initialises.   *)
Init ==
    /\ card \in Cards /\ command \in {{}, {"io", "memory"}}
    /\ reg = [r \in Stored |-> IF r = "id" THEN card.first ELSE 0]
    /\ index = "id" /\ status \in SUBSET Flags
    /\ fifo = <<>> /\ busy = FALSE /\ working = FALSE
    /\ pc = "start" /\ io = NoAccess
    /\ version = 2 /\ capabilities \in StaleMembers /\ reserved \in StaleMembers
    /\ mode = 0 /\ fifoMemory = Unset /\ fifoRegs = Unset
    /\ pending \in SUBSET Flags /\ switchContext \in StaleSwitch
    /\ wait = [flags |-> {}, next |-> "ready"]
    /\ registered = FALSE
    /\ handler = NoHandler
    /\ calls = 0
    /\ owed = {}

-----------------------------------------------------------------------------
(* ReadRegister and WriteRegister: the index port, then the value port.    *)
Access(op, r, value, next) ==
    /\ index' = r
    /\ io' = [op |-> op, reg |-> r, value |-> value, next |-> next]
    /\ pc' = "access"
    /\ UNCHANGED <<card, command, reg, status, fifo, working, pending, switchContext, owed>>

WriteRegister(r, value, next) == Access("write", r, value, next)
ReadRegister(r, next) == Access("read", r, 0, next)

(* The value goes to the register the index port names at that moment.  A  *)
(* version the card does not know leaves its ID alone; SYNC starts it.     *)
WriteValue ==
    /\ pc = "access" /\ io.op = "write"
    /\ reg' = IF index \notin Stored \/ (index = "id" /\ io.value \notin card.supports) THEN reg
              ELSE [reg EXCEPT ![index] = io.value]
    /\ working' = (working \/ index = "sync")
    /\ pc' = io.next /\ io' = NoAccess
    /\ UNCHANGED <<card, command, index, status, fifo, busy, initVars, irqVars>>

Reads(r) ==
    CASE r = "busy" -> IF working THEN 1 ELSE 0
      [] r = "capabilities" -> IF card.irqmask THEN 1 ELSE 0
      [] r \in Stored -> reg[r]
      [] OTHER -> 0

ReadValue ==
    /\ pc = "access" /\ io.op = "read"
    /\ pc' = io.next /\ io' = [NoAccess EXCEPT !.value = Reads(index)]
    /\ UNCHANGED <<cardVars, initVars, irqVars>>

Goto(next) == pc' = next /\ io' = NoAccess

(* Atomic_Exchange(svga.irq.pending, 0).                                   *)
TakePending == pending' = {} /\ owed' = owed \ pending

ClearIRQ(next) ==
    /\ TakePending
    /\ Goto(next)
    /\ UNCHANGED <<cardVars, initVars, switchContext, wait>>

-----------------------------------------------------------------------------
(* Init: the card is found and enabled and its BARs are read into one bar  *)
(* object, so a register that is not there repeats the one before it.      *)
FifoBar(f) == GetDeviceBAR(f, 2, GetDeviceBAR(f, 1, GetDeviceBAR(f, 0, Unset)))

FindDevice ==
    /\ pc = "start"
    /\ IF card.present
       THEN /\ command' = SetDeviceEnabled(command, TRUE)
            /\ fifoMemory' = FifoBar(card.function)
            /\ Goto("negotiate")
       ELSE Goto("absent") /\ UNCHANGED <<command, fifoMemory>>
    /\ UNCHANGED <<card, reg, index, status, fifo, busy, working, irqVars>>
    /\ UNCHANGED <<version, capabilities, mode, reserved, fifoRegs, registered, calls>>

OfferVersion ==
    /\ pc = "negotiate"
    /\ WriteRegister("id", version, "ask")
    /\ UNCHANGED <<busy, initVars, wait>>

AskVersion ==
    /\ pc = "ask"
    /\ ReadRegister("id", "match")
    /\ UNCHANGED <<busy, initVars, wait>>

(* Mutation: a refused version is offered again.                          *)
OfferAgain(v) == v

NextVersion(v) == v - 1

(* Mutation: the loop has no lower bound.                                  *)
NoLowerBound(v) == TRUE

StillNegotiable(v) == v >= 0

(* The loop leaves on a match or below SVGA_ID_0.                          *)
MatchVersion ==
    /\ pc = "match"
    /\ version' = IF io.value = version THEN version ELSE NextVersion(version)
    /\ Goto(IF io.value # version /\ StillNegotiable(version') THEN "negotiate" ELSE "sizes")
    /\ UNCHANGED <<cardVars, irqVars>>
    /\ UNCHANGED <<capabilities, mode, reserved, fifoMemory, fifoRegs, registered, calls>>

(* The reads of the VRAM, framebuffer and FIFO sizes, as one access.       *)
ReadSizes ==
    /\ pc = "sizes"
    /\ ReadRegister("memSize", IF version >= 1 THEN "caps" ELSE "mask")
    /\ UNCHANGED <<busy, initVars, wait>>

ReadCapabilities ==
    /\ pc = "caps"
    /\ ReadRegister("capabilities", "gotCaps")
    /\ UNCHANGED <<busy, initVars, wait>>

StoreCapabilities ==
    /\ pc = "gotCaps"
    /\ capabilities' = (io.value = 1)
    /\ Goto("mask")
    /\ UNCHANGED <<cardVars, irqVars>>
    /\ UNCHANGED <<version, mode, reserved, fifoMemory, fifoRegs, registered, calls>>

MaskAll ==
    /\ pc = "mask"
    /\ WriteRegister("irqmask", 0, "clearStatus")
    /\ UNCHANGED <<busy, initVars, wait>>

ClearStatus ==
    /\ pc = "clearStatus"
    /\ status' = {}
    /\ Goto("clearPending")
    /\ UNCHANGED <<card, command, reg, index, fifo, busy, working, initVars, irqVars>>

(* RequestIRQ refuses a line that is taken and nobody looks at its answer. *)
RequestIRQ ==
    /\ pc = "request"
    /\ registered' = (card.line # "taken")
    /\ Goto("map")
    /\ UNCHANGED <<cardVars, irqVars>>
    /\ UNCHANGED <<version, capabilities, mode, reserved, fifoMemory, fifoRegs, calls>>

-----------------------------------------------------------------------------
(* Enable.  Map's answer is not looked at: what it did not map faults at   *)
(* the first FIFO register, and the exception stub never comes back.  The  *)
(* register the 3D guard may write is not read by anything modelled.       *)
MapFifo ==
    /\ pc = "map"
    /\ fifoRegs' = IF card.spare THEN fifoMemory ELSE fifoRegs
    /\ Goto(IF card.spare THEN "turnOn" ELSE "lost")
    /\ UNCHANGED <<cardVars, irqVars>>
    /\ UNCHANGED <<version, capabilities, mode, reserved, fifoMemory, registered, calls>>

TurnOn ==
    /\ pc = "turnOn"
    /\ WriteRegister("enable", 1, "configure")
    /\ UNCHANGED <<busy, initVars, wait>>

ConfigDone ==
    /\ pc = "configure"
    /\ WriteRegister("configDone", 1, IF capabilities THEN "unmaskFence" ELSE "ready")
    /\ UNCHANGED <<busy, initVars, wait>>

UnmaskFence ==
    /\ pc = "unmaskFence"
    /\ WriteRegister("irqmask", ANY_FENCE, "clearFence")
    /\ UNCHANGED <<busy, initVars, wait>>

(* InsertFence gives up on a card without fences; refused by FIFO_Reserve, *)
(* it commits the stale reservation (see SvgaFifo).                        *)
InsertFence ==
    /\ pc = "fence"
    /\ fifo' = IF card.fences THEN Append(fifo, IF reserved THEN "stray" ELSE "fence") ELSE fifo
    /\ reserved' = (reserved /\ ~card.fences)
    /\ Goto("sync")
    /\ UNCHANGED <<card, command, reg, index, status, busy, working, irqVars>>
    /\ UNCHANGED <<version, capabilities, mode, fifoMemory, fifoRegs, registered, calls>>

SyncFence ==
    /\ pc = "sync"
    /\ WriteRegister("sync", 1, "poll")
    /\ UNCHANGED <<busy, initVars, wait>>

PollBusy ==
    /\ pc = "poll"
    /\ ReadRegister("busy", "polled")
    /\ UNCHANGED <<busy, initVars, wait>>

Polled ==
    /\ pc = "polled"
    /\ IF io.value # 0 THEN ReadRegister("busy", "polled") ELSE WriteRegister("irqmask", 0, "arm")
    /\ UNCHANGED <<busy, initVars, wait>>

-----------------------------------------------------------------------------
(* WaitForIRQ: newContext is saved once, above the loop.  The exchange is  *)
(* the test; between the decision to halt and the hlt interrupts may come. *)
Arm ==
    /\ pc = "arm"
    /\ switchContext' = TRUE
    /\ wait' = [wait EXCEPT !.flags = {}]
    /\ Goto("test")
    /\ UNCHANGED <<cardVars, initVars, pending, owed>>

TestPending ==
    /\ pc = "test"
    /\ TakePending
    /\ wait' = [wait EXCEPT !.flags = pending]
    /\ Goto(IF pending = {} THEN "decided" ELSE "disarm")
    /\ UNCHANGED <<cardVars, initVars, switchContext>>

Halt ==
    /\ pc = "decided"
    /\ Goto("halt")
    /\ UNCHANGED <<cardVars, initVars, irqVars>>

NothingSeen == wait.flags = {}

(* Mutation: the switch stays armed when the frame is left.                *)
DisarmKeepsSwitch ==
    /\ pc = "disarm"
    /\ wait' = IF NothingSeen THEN wait ELSE [flags |-> {}, next |-> "ready"]
    /\ Goto(IF NothingSeen THEN "arm" ELSE wait.next)
    /\ UNCHANGED <<cardVars, initVars, pending, switchContext, owed>>

Disarm ==
    /\ pc = "disarm"
    /\ switchContext' = FALSE
    /\ wait' = IF NothingSeen THEN wait ELSE [flags |-> {}, next |-> "ready"]
    /\ Goto(IF NothingSeen THEN "arm" ELSE wait.next)
    /\ UNCHANGED <<cardVars, initVars, pending, owed>>

(* The frame of WaitForIRQ is on the stack.                                *)
Waiting == pc \in {"arm", "test", "decided", "halt", "disarm"}

-----------------------------------------------------------------------------
(* After Init: FIFO_Reserve with its commit, SetMode and Disable.          *)
Call ==
    /\ pc = "ready" /\ calls < MaxCalls
    /\ calls' = calls + 1
    /\ UNCHANGED <<busy, version, capabilities, reserved, fifoMemory, fifoRegs, registered>>
    /\ \/ /\ Goto("reserve")
          /\ UNCHANGED <<card, command, reg, index, status, fifo, working, irqVars, mode>>
       \/ /\ WriteRegister("enable", 0, "ready")
          /\ UNCHANGED <<mode, wait>>
       \/ \E m \in Modes :
             /\ mode' = m
             /\ WriteRegister("width", m, "height")
             /\ UNCHANGED wait

SetHeight ==
    /\ pc = "height"
    /\ WriteRegister("height", mode, "bpp")
    /\ UNCHANGED <<busy, initVars, wait>>

SetBpp ==
    /\ pc = "bpp"
    /\ WriteRegister("bpp", mode, "reenable")
    /\ UNCHANGED <<busy, initVars, wait>>

SetEnable ==
    /\ pc = "reenable"
    /\ WriteRegister("enable", 1, "pitch")
    /\ UNCHANGED <<busy, initVars, wait>>

ReadPitch ==
    /\ pc = "pitch"
    /\ ReadRegister("pitch", "ready")
    /\ UNCHANGED <<busy, initVars, wait>>

Reserve ==
    /\ pc = "reserve" /\ Len(fifo) < Room
    /\ fifo' = Append(fifo, "command")
    /\ Goto("ready")
    /\ UNCHANGED <<card, command, reg, index, status, busy, working, initVars, irqVars>>

(* FIFO_Full: sleep until FIFO_PROGRESS, or synchronise a little.          *)
Full ==
    /\ pc = "reserve" /\ Len(fifo) >= Room
    /\ IF capabilities THEN WriteRegister("irqmask", FIFO_PROGRESS, "clearProgress")
                       ELSE WriteRegister("sync", 1, "askBusy")
    /\ UNCHANGED <<busy, initVars, wait>>

AskBusy ==
    /\ pc = "askBusy"
    /\ ReadRegister("busy", "reserve")
    /\ UNCHANGED <<busy, initVars, wait>>

RingDoorbell ==
    /\ pc = "doorbell"
    /\ wait' = [wait EXCEPT !.next = "unmask"]
    /\ busy' = TRUE
    /\ IF busy THEN /\ Goto("arm")
                    /\ UNCHANGED <<card, command, reg, index, status, fifo, working>>
                    /\ UNCHANGED <<pending, switchContext, owed>>
               ELSE WriteRegister("sync", 1, "arm")
    /\ UNCHANGED initVars

Unmask ==
    /\ pc = "unmask"
    /\ WriteRegister("irqmask", 0, "reserve")
    /\ UNCHANGED <<busy, initVars, wait>>

-----------------------------------------------------------------------------
(* Interrupts, external.  Only on the timer's line does an entry of the    *)
(* handler table have a stub that calls it; every tick comes there then.   *)
(* Any other interrupt does no more than end a hlt, if one is executing:   *)
(* one that comes before the hlt does not keep the driver from halting.    *)
Handled == registered /\ card.line = "timer"

Tick ==
    /\ handler.at = "none" /\ pc # "lost" /\ Handled
    /\ handler' = [at |-> "read", flags |-> {}]
    /\ pc' = IF pc = "halt" THEN "disarm" ELSE pc
    /\ UNCHANGED <<cardVars, initVars, irqVars, io>>

OtherInterrupt ==
    /\ handler.at = "none" /\ pc = "halt"
    /\ Goto("disarm")
    /\ UNCHANGED <<cardVars, initVars, irqVars, handler>>

ReadStatus ==
    /\ handler.at = "read"
    /\ handler' = [at |-> "acknowledge", flags |-> status]
    /\ UNCHANGED <<cardVars, initVars, irqVars, pc, io>>

(* Mutation: every flag is cleared, those raised since the read too.       *)
AcknowledgeAll ==
    /\ handler.at = "acknowledge"
    /\ status' = {}
    /\ handler' = [handler EXCEPT !.at = "record"]
    /\ UNCHANGED <<card, command, reg, index, fifo, busy, working, initVars, irqVars, pc, io>>

(* Writing the flags back clears those and no others.                      *)
Acknowledge ==
    /\ handler.at = "acknowledge"
    /\ status' = status \ handler.flags
    /\ handler' = [handler EXCEPT !.at = "record"]
    /\ UNCHANGED <<card, command, reg, index, fifo, busy, working, initVars, irqVars, pc, io>>

Record ==
    /\ handler.at = "record"
    /\ pending' = pending \cup handler.flags
    /\ handler' = [at |-> "switch", flags |-> {}]
    /\ UNCHANGED <<cardVars, initVars, switchContext, wait, owed, pc, io>>

(* Mutation: the handler returns where it interrupted, between the test    *)
(* and the hlt too.                                                        *)
SwitchReturns ==
    /\ handler.at = "switch"
    /\ handler' = NoHandler
    /\ UNCHANGED <<cardVars, initVars, irqVars, pc, io>>

(* The two memcpys have their arguments swapped: they copy over the frame  *)
(* of the handler, which then returns to no instruction of the driver.     *)
Switch ==
    /\ handler.at = "switch"
    /\ switchContext' = FALSE
    /\ handler' = NoHandler
    /\ IF switchContext THEN Goto("lost") ELSE UNCHANGED <<pc, io>>
    /\ UNCHANGED <<cardVars, initVars, pending, wait, owed>>

HandleInterrupt == ReadStatus \/ Acknowledge \/ Record \/ Switch

-----------------------------------------------------------------------------
(* The card, external: it starts on its own or when told to, takes         *)
(* commands, raises the flags that are not masked, and falls asleep.       *)
DeviceStart ==
    /\ Configured /\ fifo # <<>> /\ ~working
    /\ working' = TRUE
    /\ UNCHANGED <<card, command, reg, index, status, fifo, busy, initVars, irqVars, pc, io, handler>>

Raised ==
    {f \in {IF Head(fifo) = "fence" THEN ANY_FENCE ELSE FIFO_PROGRESS, FIFO_PROGRESS} :
        card.irqmask /\ reg["irqmask"] = f}

DeviceTake ==
    /\ Configured /\ fifo # <<>> /\ working
    /\ fifo' = Tail(fifo)
    /\ status' = status \cup Raised
    /\ owed' = owed \cup Raised
    /\ UNCHANGED <<card, command, reg, index, busy, working, initVars>>
    /\ UNCHANGED <<pending, switchContext, wait, pc, io, handler>>

DeviceIdle ==
    /\ working /\ ~(Configured /\ fifo # <<>>)
    /\ working' = FALSE /\ busy' = FALSE
    /\ UNCHANGED <<card, command, reg, index, status, fifo, initVars, irqVars, pc, io, handler>>

Device == DeviceStart \/ DeviceTake \/ DeviceIdle

-----------------------------------------------------------------------------
Clear ==
    \/ pc = "clearPending" /\ ClearIRQ("request")
    \/ pc = "clearFence" /\ ClearIRQ("fence")
    \/ pc = "clearProgress" /\ ClearIRQ("doorbell")

InitSteps ==
    \/ FindDevice \/ OfferVersion \/ AskVersion \/ MatchVersion \/ ReadSizes
    \/ ReadCapabilities \/ StoreCapabilities \/ MaskAll \/ ClearStatus \/ RequestIRQ
    \/ MapFifo \/ TurnOn \/ ConfigDone \/ UnmaskFence \/ InsertFence \/ SyncFence
    \/ PollBusy \/ Polled

WaitSteps == Arm \/ TestPending \/ Halt \/ Disarm

CallSteps ==
    \/ SetHeight \/ SetBpp \/ SetEnable \/ ReadPitch
    \/ Reserve \/ Full \/ AskBusy \/ RingDoorbell \/ Unmask

(* While the handler runs, the driver it interrupted does not.             *)
Interrupted == handler.at # "none"

Progress ==
    /\ ~Interrupted
    /\ WriteValue \/ ReadValue \/ Clear \/ InitSteps \/ WaitSteps \/ CallSteps
    /\ UNCHANGED handler

Driver == Progress \/ (~Interrupted /\ Call /\ UNCHANGED handler)

Next == Driver \/ Tick \/ OtherInterrupt \/ HandleInterrupt \/ Device

(* A tick leaves the driver time to go on; the handler runs with           *)
(* interrupts off; some interrupt comes; a card at work goes on.           *)
Fairness ==
    /\ SF_vars(Progress)
    /\ WF_vars(HandleInterrupt)
    /\ WF_vars(OtherInterrupt)
    /\ WF_vars(DeviceTake \/ DeviceIdle)

Spec == Init /\ [][Next]_vars /\ Fairness

-----------------------------------------------------------------------------
ControlPoints ==
    {"start", "absent", "negotiate", "ask", "match", "sizes", "caps", "gotCaps", "mask",
     "clearStatus", "clearPending", "request", "map", "turnOn", "configure", "unmaskFence",
     "clearFence", "fence", "sync", "poll", "polled", "arm", "test", "decided", "halt", "disarm", "ready",
     "height", "bpp", "reenable", "pitch", "reserve", "clearProgress", "askBusy", "doorbell",
     "unmask", "access", "lost"}

CardTypeOK ==
    /\ card \in Cards /\ command \subseteq CommandFlags
    /\ reg \in [Stored -> Int] /\ index \in Registers
    /\ status \subseteq Flags
    /\ fifo \in Seq({"fence", "command", "stray"})
    /\ busy \in BOOLEAN /\ working \in BOOLEAN

DriverTypeOK ==
    /\ pc \in ControlPoints
    /\ io \in [op : {"none", "read", "write"}, reg : Registers, value : Int, next : ControlPoints]
    /\ version \in BelowID0..2 /\ mode \in Modes \cup {0}
    /\ fifoMemory \in Int /\ fifoRegs \in Int
    /\ capabilities \in BOOLEAN /\ reserved \in BOOLEAN /\ registered \in BOOLEAN
    /\ calls \in 0..MaxCalls

IrqTypeOK ==
    /\ pending \subseteq Flags /\ owed \subseteq Flags /\ switchContext \in BOOLEAN
    /\ wait \in [flags : SUBSET Flags, next : {"ready", "unmask"}]
    /\ handler \in [at : {"none", "read", "acknowledge", "record", "switch"}, flags : SUBSET Flags]

TypeOK == CardTypeOK /\ DriverTypeOK /\ IrqTypeOK

(* HandleInterrupt "reads then clears all flags" (svga.cpp:377): a flag    *)
(* raised at any moment, also between its read and its clear, is in the    *)
(* card, in the handler or in pending until an exchange takes it.          *)
NoFlagLost == owed \subseteq status \cup handler.flags \cup pending

(* "Must set switchContext to FALSE before this stack frame is             *)
(* deallocated" (svga.cpp:57): however the frame of WaitForIRQ is left, by *)
(* a flag or by the handler, the handler cannot switch to it afterwards,   *)
(* and the switch is armed nowhere else.  (Until WaitForIRQ first arms it, *)
(* it holds what the stack did: svga.h:49.)                                *)
FrameLeavesDisarmed ==
    [][/\ Waiting /\ ~Waiting' => ~switchContext'
       /\ ~switchContext /\ switchContext' => Waiting /\ Waiting']_vars

(* What a constructor that clears switchContext would give: the handler    *)
(* switches to newContext only while the frame it was saved in is alive.   *)
SwitchOnlyWaiting == switchContext => Waiting

(* Once CONFIG_DONE is written the card uses the FIFO: it may use the bus, *)
(* and the FIFO registers were set up in its FIFO memory and nowhere else. *)
ConfiguredSafely ==
    reg["configDone"] = 1 => command = CommandFlags /\ fifoRegs = card.fifo

(* "we could deadlock if an IRQ comes in before we actually halt but after *)
(* we've decided to halt" (svga.cpp:32-36): the driver is in its hlt only  *)
(* with nothing recorded, no handler half way through recording and the    *)
(* switch armed.  An interrupt that records between the test and the hlt   *)
(* therefore never lets the driver reach it.                               *)
SleepsOnNothing ==
    pc = "halt" => pending = {} /\ handler.at = "none" /\ switchContext

(* A stale switch takes control on the first tick the driver is handed.    *)
TakenByTick == switchContext /\ card.line = "timer"

(* Init ends, whatever version is negotiated, on a card with an ID of 1 or *)
(* more and no interrupts, if no stale switch is sprung on the way.        *)
Plain(c) == c.present /\ c.spare /\ ~c.irqmask /\ c.supports \cap {1, 2} # {}

InitReturns == (pc = "start" /\ Plain(card) /\ ~TakenByTick) ~> pc = "ready"
=============================================================================
