-------------------------------- MODULE Ps2 --------------------------------
(***************************************************************************)
(* The keyboard and the mouse driver: their Load sequences on the shared   *)
(* 8042 controller, run by the main program with interrupts already on,    *)
(* and their interrupt handlers.  A handler runs with interrupts off and   *)
(* reads at most one byte, so it is one step; Load is one step per port    *)
(* access that another party can come before.  The controller has a single *)
(* output buffer for both devices and for its own reply.                   *)
(*                                                                         *)
(* Bytes are numbers, for what a byte means depends on who reads it.  The  *)
(* tables from scan codes to characters and virtual keys are left out, and *)
(* so is the alt modifier, whose code is that of control.                  *)
(***************************************************************************)
EXTENDS Naturals, Sequences, SequencesExt

CONSTANTS
    CommandBytes,   \* what the controller's command byte may be at boot
    Leftovers,      \* bytes the BIOS may have left unread
    EarlyInput,     \* may the user type before the drivers are loaded?
    MaxInputs       \* bound: keys pressed and packets the mouse sends

ASSUME Ps2Assumption ==
    /\ CommandBytes \subseteq 0..255 /\ Leftovers \subseteq 0..255
    /\ EarlyInput \in BOOLEAN /\ MaxInputs \in Nat

SC_LSHIFT == 42
SC_RSHIFT == 54
SC_LCTRL == 29
SC_A == 30
SC_RELEASE == 128
Keys == {SC_LSHIFT, SC_RSHIFT, SC_LCTRL, SC_A}      \* the keys the user has
Shifts == {SC_LSHIFT, SC_RSHIFT}

MOUSE_BUFFER_SIZE == 3
Motions == {<<0, 0>>, <<1, 2>>}                     \* the user's (dx, dy)

HasBit(v, b) == (v \div b) % 2 = 1
SetBit(v, b) == IF HasBit(v, b) THEN v ELSE v + b
ClearBit(v, b) == IF HasBit(v, b) THEN v - b ELSE v

VARIABLES
    out,            \* the controller's output buffer: [full, source, value]
    reply,          \* the command byte the controller still has to hand out
    cmd,            \* the command byte
    kbdQueue, auxQueue,                 \* bytes in the two devices
    streaming,                          \* has the mouse been told to send?
    latched,                            \* of lines 1 and 12
    pc, status,                         \* the main program in Load
    kbdHandles, auxHandles,             \* has RequestIRQ registered the driver?
    mods, reported,                     \* keyboard: modifiers, keyDown calls
    buffer, offset, buttons,            \* mouse: the packet, the buttons
    clicked, moved,                     \* mouse: calls of its callbacks
    held, typed, bothShifts,            \* the user: keys down, keys pressed
    pressed, clicks, moves,             \* the user: buttons down, what was done
    atBoot                              \* the command byte at boot

controller == <<out, reply, cmd, latched>>
devices == <<kbdQueue, auxQueue, streaming>>
load == <<pc, status, kbdHandles, auxHandles>>
keyboard == <<mods, reported>>
mouse == <<buffer, offset, buttons, clicked, moved>>
user == <<held, typed, bothShifts, pressed, clicks, moves, atBoot>>
vars == <<controller, devices, load, keyboard, mouse, user>>

Empty == [full |-> FALSE, source |-> "none", value |-> 0]
Byte(source, value) == [full |-> TRUE, source |-> source, value |-> value]

Init ==
    /\ out \in {Empty} \cup {Byte("kbd", v) : v \in Leftovers}
    /\ reply = <<>> /\ cmd \in CommandBytes /\ atBoot = cmd
    /\ kbdQueue = <<>> /\ auxQueue = <<>> /\ streaming = FALSE
    /\ latched = {}
    /\ pc = "drain" /\ status = 0
    /\ kbdHandles = FALSE /\ auxHandles = FALSE
    /\ mods = {} /\ reported = <<>>
    /\ \E garbage \in {0, 1} : buffer = [n \in 0..MOUSE_BUFFER_SIZE - 1 |-> garbage]
    /\ offset = 0 /\ buttons = 0 /\ clicked = <<>> /\ moved = <<>>
    /\ held = {} /\ typed = <<>> /\ bothShifts = FALSE
    /\ pressed = {} /\ clicks = <<>> /\ moves = <<>>

-----------------------------------------------------------------------------
(* The controller and the devices (external).                              *)

(* The line a full buffer raises: bits 0 and 1 of the command byte enable them. *)
LineOf(o, c) ==
    CASE ~o.full -> {}
      [] o.full /\ o.source = "aux" -> IF HasBit(c, 2) THEN {12} ELSE {}
      [] OTHER -> IF HasBit(c, 1) THEN {1} ELSE {}

KbdWaits == kbdQueue # <<>> /\ ~HasBit(cmd, 16)
AuxWaits == auxQueue # <<>> /\ ~HasBit(cmd, 32)

Output(b) ==
    /\ ~out.full
    /\ out' = b
    /\ latched' = latched \cup LineOf(b, cmd)
    /\ UNCHANGED <<cmd, streaming, load, keyboard, mouse, user>>

Controller ==
    \/ /\ reply # <<>> /\ Output(Byte("ctl", Head(reply)))
       /\ reply' = Tail(reply) /\ UNCHANGED <<kbdQueue, auxQueue>>
    \/ /\ reply = <<>> /\ KbdWaits /\ Output(Byte("kbd", Head(kbdQueue)))
       /\ kbdQueue' = Tail(kbdQueue) /\ UNCHANGED <<reply, auxQueue>>
    \/ /\ reply = <<>> /\ AuxWaits /\ Output(Byte("aux", Head(auxQueue)))
       /\ auxQueue' = Tail(auxQueue) /\ UNCHANGED <<reply, kbdQueue>>

(* What Load relies on, for it polls nothing: a byte that is ready to come out *)
(* has come out before the program's next read of the data port.           *)
Prompt == out.full \/ (reply = <<>> /\ ~KbdWaits /\ ~AuxWaits)

(* The user starts once the drivers are loaded and no interrupt is on its way. *)
UserActs == EarlyInput \/ (pc = "done" /\ (latched # {} => out.full))
More == Len(typed) + Len(moves) < MaxInputs

ModsOf(keys) ==
    {m \in {"ctrl", "shift"} : \/ m = "ctrl" /\ SC_LCTRL \in keys
                               \/ m = "shift" /\ Shifts \cap keys # {}}

(* History: both shift keys have been down at once since both were up.    *)
BothAfter(keys, both) == Shifts \cap keys # {} /\ (both \/ Shifts \subseteq keys)

(* The modifiers that are down and that the driver has to know of: not     *)
(* shift, after both shift keys were down at once.                         *)
Sure(keys, both) == ModsOf(keys) \ (IF both THEN {"shift"} ELSE {})

Press(k) ==
    /\ UserActs /\ More /\ k \notin held
    /\ held' = held \cup {k}
    /\ bothShifts' = BothAfter(held', bothShifts)
    /\ typed' = Append(typed, [key |-> k, down |-> ModsOf(held'),
                               sure |-> Sure(held', bothShifts')])
    /\ kbdQueue' = Append(kbdQueue, k)
    /\ UNCHANGED <<controller, auxQueue, streaming, load, keyboard, mouse,
                   pressed, clicks, moves, atBoot>>

Release(k) ==
    /\ UserActs /\ k \in held
    /\ held' = held \ {k}
    /\ bothShifts' = BothAfter(held', bothShifts)
    /\ kbdQueue' = Append(kbdQueue, k + SC_RELEASE)
    /\ UNCHANGED <<controller, auxQueue, streaming, load, keyboard, mouse,
                   typed, pressed, clicks, moves, atBoot>>

(* A packet: the buttons after at most one of them changed, and the motion. *)
Info(down) == (IF 1 \in down THEN 1 ELSE 0) + (IF 2 \in down THEN 2 ELSE 0)

MousePacket(b, m) ==
    /\ UserActs /\ More /\ streaming
    /\ LET down == IF b \in pressed THEN pressed \ {b} ELSE pressed \cup ({b} \ {0})
       IN  /\ pressed' = down
           /\ clicks' = IF b = 0 THEN clicks
                        ELSE Append(clicks, [button |-> b, down |-> b \in down])
           /\ auxQueue' = auxQueue \o <<Info(down), m[1], m[2]>>
    /\ moves' = Append(moves, m)
    /\ UNCHANGED <<controller, kbdQueue, streaming, load, keyboard, mouse,
                   held, typed, bothShifts, atBoot>>

User ==
    \/ \E k \in Keys : Press(k) \/ Release(k)
    \/ \E b \in {0, 1, 2}, m \in Motions : MousePacket(b, m)

-----------------------------------------------------------------------------
(* Load, of the keyboard and then of the mouse.                            *)

ReadData == out' = [out EXCEPT !.full = FALSE]

At(here, next) == pc = here /\ pc' = next
Elsewhere == UNCHANGED <<devices, keyboard, mouse, user>>

(* Mutation: whatever the BIOS left is not read.                           *)
SkipDrain == FALSE

HasData == out.full

Drain ==
    /\ pc = "drain"
    /\ IF HasData THEN ReadData /\ pc' = pc ELSE pc' = "kbdOn" /\ UNCHANGED out
    /\ UNCHANGED <<reply, cmd, latched, status, kbdHandles, auxHandles>> /\ Elsewhere

(* Commands 0xAE and 0xA8 clear the bits that disable the two interfaces.  *)
EnableInterface(here, next, bit) ==
    /\ At(here, next)
    /\ cmd' = ClearBit(cmd, bit)
    /\ UNCHANGED <<out, reply, latched, status, kbdHandles, auxHandles>> /\ Elsewhere

(* Command 0x20.                                                           *)
AskCommandByte(here, next) ==
    /\ At(here, next)
    /\ reply' = Append(reply, cmd)
    /\ UNCHANGED <<out, cmd, latched, status, kbdHandles, auxHandles>> /\ Elsewhere

ReadCommandByte(here, next, changed) ==
    /\ At(here, next) /\ Prompt
    /\ status' = changed
    /\ ReadData
    /\ UNCHANGED <<reply, cmd, latched, kbdHandles, auxHandles>> /\ Elsewhere

(* Command 0x60 and its data byte.                                         *)
WriteCommandByte(here, next) ==
    /\ At(here, next)
    /\ cmd' = status
    /\ latched' = latched \cup (LineOf(out, status) \ LineOf(out, cmd))
    /\ UNCHANGED <<out, reply, status, kbdHandles, auxHandles>> /\ Elsewhere

KbdStatus(v) == ClearBit(SetBit(v, 1), 16)

(* Mutation: the byte that was read is forgotten.                          *)
FreshStatus(v) == 2

AuxStatus(v) == SetBit(v, 2)

KbdRequest ==
    /\ At("kbdRequest", "auxOn")
    /\ kbdHandles' = TRUE
    /\ UNCHANGED <<controller, status, auxHandles>> /\ Elsewhere

(* 0xD4 0xF4: the mouse acknowledges (0xFA) and starts to send packets.    *)
Stream ==
    /\ At("stream", "ack")
    /\ streaming' = TRUE
    /\ auxQueue' = Append(auxQueue, 250)
    /\ UNCHANGED <<controller, kbdQueue, status, kbdHandles, auxHandles,
                   keyboard, mouse, user>>

ReadAck ==
    /\ At("ack", "auxRequest") /\ Prompt
    /\ ReadData
    /\ UNCHANGED <<reply, cmd, latched, status, kbdHandles, auxHandles>> /\ Elsewhere

AuxRequest ==
    /\ At("auxRequest", "done")
    /\ auxHandles' = TRUE
    /\ UNCHANGED <<controller, status, kbdHandles>> /\ Elsewhere

Load ==
    \/ Drain
    \/ EnableInterface("kbdOn", "kbdAsk", 16)
    \/ AskCommandByte("kbdAsk", "kbdRead")
    \/ ReadCommandByte("kbdRead", "kbdWrite", KbdStatus(out.value))
    \/ WriteCommandByte("kbdWrite", "kbdRequest")
    \/ KbdRequest
    \/ EnableInterface("auxOn", "auxAsk", 32)
    \/ AskCommandByte("auxAsk", "auxRead")
    \/ ReadCommandByte("auxRead", "auxWrite", AuxStatus(out.value))
    \/ WriteCommandByte("auxWrite", "stream")
    \/ Stream
    \/ ReadAck
    \/ AuxRequest

-----------------------------------------------------------------------------
(* The interrupt handlers.                                                 *)

(* Mutation: a released shift key stays down.                              *)
ModsStick(m, key) ==
    CASE key \in Shifts -> m \cup {"shift"}
      [] key = SC_LCTRL -> m \cup {"ctrl"}
      [] key = SC_LCTRL + SC_RELEASE -> m \ {"ctrl"}
      [] OTHER -> m

ModsAfter(m, key) ==
    CASE key \in Shifts -> m \cup {"shift"}
      [] key = SC_LCTRL -> m \cup {"ctrl"}
      [] key - SC_RELEASE \in Shifts -> m \ {"shift"}
      [] key = SC_LCTRL + SC_RELEASE -> m \ {"ctrl"}
      [] OTHER -> m

(* keyDown is called for a key of the table; keyUp is never set.  The      *)
(* branch on SC_ESCAPE_CODE tests a key whose release bit was just cleared,*)
(* and is never taken.                                                     *)
KeyboardHandler ==
    LET key == out.value IN
    /\ ReadData
    /\ mods' = ModsAfter(mods, key)
    /\ reported' = IF key \in Keys
                   THEN Append(reported, [key |-> key, mods |-> mods'])
                   ELSE reported
    /\ UNCHANGED mouse

(* Mutation: the status port is not looked at.                             *)
TrustsInterrupt == TRUE

AuxData == out.full /\ out.source = "aux"

(* Mutation: the offset runs off the buffer before it wraps.               *)
LateWrap(o) == (o + 1) % (MOUSE_BUFFER_SIZE + 1)

NextOffset(o) == (o + 1) % MOUSE_BUFFER_SIZE

(* After this byte the handler does not go on to call the callbacks.       *)
Incomplete(o) == o = 0

(* A button whose bit differs, with its new state; lowest button first.    *)
ButtonEvent(info, b) ==
    IF HasBit(info, b) # HasBit(buttons, b)
    THEN <<[button |-> b, down |-> HasBit(info, b)]>> ELSE <<>>

ButtonEvents(info) == ButtonEvent(info, 1) \o ButtonEvent(info, 2) \o ButtonEvent(info, 4)

MouseHandler ==
    IF ~AuxData THEN UNCHANGED <<out, keyboard, mouse>> ELSE
    /\ ReadData
    /\ buffer' = [buffer EXCEPT ![offset] = out.value]
    /\ offset' = NextOffset(offset)
    /\ IF Incomplete(offset') THEN UNCHANGED <<buttons, clicked, moved>> ELSE
       /\ moved' = IF buffer'[1] # 0 \/ buffer'[2] # 0
                   THEN Append(moved, <<buffer'[1], buffer'[2]>>) ELSE moved
       /\ clicked' = clicked \o ButtonEvents(buffer'[0])
       /\ buttons' = buffer'[0] % 8
    /\ UNCHANGED keyboard

(* An interrupt without a handler is acknowledged and leaves the byte there. *)
Interrupt(line, handles, Handler) ==
    /\ line \in latched
    /\ latched' = latched \ {line}
    /\ IF handles THEN Handler ELSE UNCHANGED <<out, keyboard, mouse>>
    /\ UNCHANGED <<reply, cmd, devices, load, user>>

Interrupts ==
    \/ Interrupt(1, kbdHandles, KeyboardHandler)
    \/ Interrupt(12, auxHandles, MouseHandler)

Next == User \/ Controller \/ Load \/ Interrupts

(* The controller hands out what it has, interrupts are taken, Load goes on. *)
Spec == Init /\ [][Next]_vars /\ WF_vars(Controller) /\ WF_vars(Load) /\ WF_vars(Interrupts)

-----------------------------------------------------------------------------
(* Properties.                                                             *)

Key == [key : Keys, mods : SUBSET {"ctrl", "shift"}]
Typed == [key : Keys, down : SUBSET {"ctrl", "shift"}, sure : SUBSET {"ctrl", "shift"}]
Click == [button : {1, 2, 4}, down : BOOLEAN]

LoadPoints ==
    {"drain", "kbdOn", "kbdAsk", "kbdRead", "kbdWrite", "kbdRequest",
     "auxOn", "auxAsk", "auxRead", "auxWrite", "stream", "ack", "auxRequest", "done"}

(* Every variable has its type; the packet offset stays inside the buffer. *)
TypeOK ==
    /\ out \in [full : BOOLEAN, source : {"none", "ctl", "kbd", "aux"}, value : 0..255]
    /\ reply \in Seq(0..255) /\ cmd \in 0..255 /\ atBoot \in 0..255
    /\ kbdQueue \in Seq(0..255) /\ auxQueue \in Seq(0..255)
    /\ streaming \in BOOLEAN /\ latched \subseteq {1, 12}
    /\ pc \in LoadPoints /\ status \in 0..255
    /\ kbdHandles \in BOOLEAN /\ auxHandles \in BOOLEAN
    /\ mods \in SUBSET {"ctrl", "shift"} /\ reported \in Seq(Key) /\ typed \in Seq(Typed)
    /\ buffer \in [0..MOUSE_BUFFER_SIZE - 1 -> 0..255]
    /\ offset \in 0..MOUSE_BUFFER_SIZE - 1 /\ buttons \in 0..7
    /\ clicked \in Seq(Click) /\ clicks \in Seq(Click)
    /\ moved \in Seq((0..255) \X (0..255)) /\ moves \in Seq(Motions)
    /\ held \subseteq Keys /\ bothShifts \in BOOLEAN /\ pressed \subseteq {1, 2}

(* keyDown is called for the keys the user pressed, in that order, each once, *)
(* whatever the mouse sends through the same buffer and whatever Load left *)
(* behind.  Control is right, and shift is reported only when it was down; *)
(* it is missing from a key only if both shift keys were down at once before,*)
(* for releasing either of them clears the modifier (keyboard.cpp:50-51).  *)
Agrees(m, down, sure) == sure \subseteq m /\ m \subseteq down
Reports(call, act) == call.key = act.key /\ Agrees(call.mods, act.down, act.sure)
KeysInOrder ==
    /\ Len(reported) <= Len(typed)
    /\ \A n \in 1..Len(reported) : Reports(reported[n], typed[n])

(* The button callbacks follow the buttons: no click is lost, repeated or made *)
(* up, so the packets and the driver's offset never drift apart.           *)
ButtonsInOrder == IsPrefix(clicked, clicks)

(* The two Loads edit one command byte in turn; when both are done it enables *)
(* both interfaces and both interrupts and is otherwise what it was at boot. *)
CommandByteMerged ==
    pc = "done" =>
        cmd = ClearBit(ClearBit(SetBit(SetBit(atBoot, 1), 2), 16), 32)

(* No byte stays in the shared buffer for good, for that would silence both *)
(* devices: everything the devices send is read in the end.                *)
EverythingRead == <>[](~out.full /\ kbdQueue = <<>> /\ auxQueue = <<>>)

(* The safety half of EverythingRead: after Load a byte in the shared buffer *)
(* has its interrupt latched and its driver registered for it, and a device *)
(* with bytes is not cut off, so somebody can always take the next byte.   *)
EveryByteFetched ==
    pc = "done" =>
        /\ reply = <<>>
        /\ out.full => /\ out.source = "kbd" => 1 \in latched /\ kbdHandles
                       /\ out.source = "aux" => 12 \in latched /\ auxHandles
                       /\ out.source \in {"kbd", "aux"}
        /\ kbdQueue # <<>> => KbdWaits
        /\ auxQueue # <<>> => AuxWaits

One(p) == IF p THEN 1 ELSE 0
StepsToRead ==
    3 * (Len(kbdQueue) + Len(auxQueue)) + One(out.full) + One(1 \in latched) + One(12 \in latched)

(* And each time somebody does, there is less to do: after Load no handler *)
(* returns with its byte still there, so only the user adds to what is left. *)
ReadingAdvances ==
    [][pc = "done" /\ UNCHANGED user => StepsToRead' < StepsToRead]_vars

(* The other direction of KeysInOrder and ButtonsInOrder: when no byte of a *)
(* device is on its way, everything the user did was reported, and the     *)
(* drivers know which buttons and modifiers are down, except for a shift   *)
(* held on after the other one was released (keyboard.cpp:50-51).          *)
NothingLost ==
    /\ pc = "done" /\ kbdQueue = <<>> /\ (out.full => out.source # "kbd") =>
           /\ Len(reported) = Len(typed) /\ KeysInOrder
           /\ Agrees(mods, ModsOf(held), Sure(held, bothShifts))
    /\ pc = "done" /\ auxQueue = <<>> /\ (out.full => out.source # "aux") =>
           clicked = clicks /\ buttons = Info(pressed)

(* "If no handlers or we have not read all 3 bytes, return" (mouse.cpp:48): the *)
(* motions reported are motions of whole packets.                          *)
WholePackets ==
    \A n \in DOMAIN moved : \E k \in DOMAIN moves : moved[n] = moves[k]

(* What is reported instead: the handler calls back at a packet's first and *)
(* second byte, so dx may be of the packet after that of dy; before a first *)
(* packet (k = 0) it is whatever the buffer was created with.              *)
HalfOf(k, i) == IF k = 0 THEN {0, 1} ELSE {moves[k][i]}

MotionsOfNeighbours ==
    \A n \in DOMAIN moved : \E k \in 0..Len(moves), l \in 0..Len(moves) :
        l \in {k, k + 1} /\ moved[n][1] \in HalfOf(l, 1) /\ moved[n][2] \in HalfOf(k, 2)
=============================================================================
