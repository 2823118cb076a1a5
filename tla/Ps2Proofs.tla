------------------------------ MODULE Ps2Proofs -----------------------------
(***************************************************************************)
(* Proofs about Ps2: for every command byte at boot and every leftover     *)
(* byte, the two Loads merge their edits of the command byte, and after    *)
(* them keys and clicks are reported once and in order.                    *)
(***************************************************************************)
EXTENDS Ps2, SequenceTheorems, TLAPS

-----------------------------------------------------------------------------
(* A byte and the four bits the drivers edit.                              *)
LEMMA BitsOfByte ==
    ASSUME NEW v \in 0..255
    PROVE  \E a \in 0..1, b \in 0..1, m \in 0..3, c \in 0..1, d \in 0..1, h \in 0..3 :
               v = a + 2 * b + 4 * m + 16 * c + 32 * d + 64 * h
<1> DEFINE a == v % 2
           b == (v \div 2) % 2
           m == (v \div 4) % 4
           c == (v \div 16) % 2
           d == (v \div 32) % 2
           h == v \div 64
<1>1. a \in 0..1 /\ b \in 0..1 /\ m \in 0..3 /\ c \in 0..1 /\ d \in 0..1 /\ h \in 0..3 OBVIOUS
<1>2. v = a + 2 * b + 4 * m + 16 * c + 32 * d + 64 * h OBVIOUS
<1> QED BY <1>1, <1>2

LEMMA EditsOfByte ==
    ASSUME NEW a \in 0..1, NEW b \in 0..1, NEW m \in 0..3, NEW c \in 0..1, NEW d \in 0..1,
           NEW h \in 0..3, NEW v, v = a + 2 * b + 4 * m + 16 * c + 32 * d + 64 * h
    PROVE  /\ HasBit(v, 1) <=> a = 1
           /\ HasBit(v, 2) <=> b = 1
           /\ HasBit(v, 16) <=> c = 1
           /\ HasBit(v, 32) <=> d = 1
           /\ SetBit(v, 1) = 1 + 2 * b + 4 * m + 16 * c + 32 * d + 64 * h
           /\ SetBit(v, 2) = a + 2 + 4 * m + 16 * c + 32 * d + 64 * h
           /\ ClearBit(v, 16) = a + 2 * b + 4 * m + 32 * d + 64 * h
           /\ ClearBit(v, 32) = a + 2 * b + 4 * m + 16 * c + 64 * h
<1>1. HasBit(v, 1) <=> a = 1 BY DEF HasBit
<1>2. HasBit(v, 2) <=> b = 1 BY DEF HasBit
<1>3. HasBit(v, 16) <=> c = 1 BY DEF HasBit
<1>4. HasBit(v, 32) <=> d = 1 BY DEF HasBit
<1> QED BY <1>1, <1>2, <1>3, <1>4 DEF SetBit, ClearBit

LEMMA EditsStayBytes ==
    ASSUME NEW v \in 0..255
    PROVE  /\ SetBit(v, 1) \in 0..255 /\ SetBit(v, 2) \in 0..255
           /\ ClearBit(v, 16) \in 0..255 /\ ClearBit(v, 32) \in 0..255
BY BitsOfByte, EditsOfByte

-----------------------------------------------------------------------------
(* Types, action by action.                                                *)
OutputType == [full : BOOLEAN, source : {"none", "ctl", "kbd", "aux"}, value : 0..255]

ControllerTypeOK ==
    /\ out \in OutputType
    /\ reply \in Seq(0..255) /\ cmd \in 0..255 /\ latched \subseteq {1, 12}

DevicesTypeOK == kbdQueue \in Seq(0..255) /\ auxQueue \in Seq(0..255) /\ streaming \in BOOLEAN

LoadTypeOK == pc \in LoadPoints /\ status \in 0..255 /\ kbdHandles \in BOOLEAN /\ auxHandles \in BOOLEAN

KeyboardTypeOK == mods \in SUBSET {"ctrl", "shift"} /\ reported \in Seq(Key)

MouseTypeOK ==
    /\ buffer \in [0..MOUSE_BUFFER_SIZE - 1 -> 0..255]
    /\ offset \in 0..MOUSE_BUFFER_SIZE - 1 /\ buttons \in 0..7
    /\ clicked \in Seq(Click) /\ moved \in Seq((0..255) \X (0..255))

UserTypeOK ==
    /\ typed \in Seq(Typed) /\ clicks \in Seq(Click) /\ moves \in Seq(Motions)
    /\ held \subseteq Keys /\ bothShifts \in BOOLEAN /\ pressed \subseteq {1, 2} /\ atBoot \in 0..255

Types ==
    /\ ControllerTypeOK /\ DevicesTypeOK /\ LoadTypeOK
    /\ KeyboardTypeOK /\ MouseTypeOK /\ UserTypeOK

LEMMA TypeParts == (TypeOK <=> Types) /\ (TypeOK' <=> Types')
<1>1. TypeOK <=> Types
  BY ZenonT(40) DEF Types, TypeOK, OutputType, ControllerTypeOK, DevicesTypeOK, LoadTypeOK, KeyboardTypeOK,
     MouseTypeOK, UserTypeOK
<1>2. TypeOK' <=> Types'
  BY ZenonT(40) DEF Types, TypeOK, OutputType, ControllerTypeOK, DevicesTypeOK, LoadTypeOK, KeyboardTypeOK,
     MouseTypeOK, UserTypeOK
<1> QED BY <1>1, <1>2

LEMMA UnchangedTypes ==
    /\ ControllerTypeOK /\ UNCHANGED controller => ControllerTypeOK'
    /\ DevicesTypeOK /\ UNCHANGED devices => DevicesTypeOK'
    /\ LoadTypeOK /\ UNCHANGED load => LoadTypeOK'
    /\ KeyboardTypeOK /\ UNCHANGED keyboard => KeyboardTypeOK'
    /\ MouseTypeOK /\ UNCHANGED mouse => MouseTypeOK'
    /\ UserTypeOK /\ UNCHANGED user => UserTypeOK'
<1>1. ControllerTypeOK /\ UNCHANGED controller => ControllerTypeOK' BY DEF ControllerTypeOK, controller
<1>2. DevicesTypeOK /\ UNCHANGED devices => DevicesTypeOK' BY DEF DevicesTypeOK, devices
<1>3. LoadTypeOK /\ UNCHANGED load => LoadTypeOK' BY DEF LoadTypeOK, load
<1>4. KeyboardTypeOK /\ UNCHANGED keyboard => KeyboardTypeOK' BY DEF KeyboardTypeOK, keyboard
<1>5. MouseTypeOK /\ UNCHANGED mouse => MouseTypeOK' BY DEF MouseTypeOK, mouse
<1>6. UserTypeOK /\ UNCHANGED user => UserTypeOK' BY DEF UserTypeOK, user
<1> QED BY <1>1, <1>2, <1>3, <1>4, <1>5, <1>6

LEMMA LinesAreLines ==
    ASSUME NEW o, NEW c
    PROVE  LineOf(o, c) \subseteq {1, 12}
BY DEF LineOf

LEMMA ReadKeepsOut ==
    ASSUME ControllerTypeOK, ReadData
    PROVE  out' \in OutputType /\ ~out'.full /\ out'.value = out.value /\ out'.source = out.source
BY DEF ControllerTypeOK, ReadData, OutputType

LEMMA InitTypes == Init => TypeOK
<1> SUFFICES ASSUME Init PROVE TypeOK OBVIOUS
<1>1. ControllerTypeOK
  <2>1. Empty \in OutputType BY DEF Empty, OutputType
  <2>2. ASSUME NEW v \in Leftovers PROVE Byte("kbd", v) \in OutputType
    BY Ps2Assumption DEF Byte, OutputType
  <2>3. out = Empty \/ \E v \in Leftovers : out = Byte("kbd", v) BY DEF Init
  <2>4. out \in OutputType BY <2>1, <2>2, <2>3
  <2> QED BY <2>4, EmptySeq, Ps2Assumption DEF Init, ControllerTypeOK
<1>2. DevicesTypeOK /\ KeyboardTypeOK BY EmptySeq DEF Init, DevicesTypeOK, KeyboardTypeOK
<1>3. LoadTypeOK
  <2>1. pc = "drain" /\ status = 0 /\ kbdHandles = FALSE /\ auxHandles = FALSE BY DEF Init
  <2>2. pc \in LoadPoints BY <2>1 DEF LoadPoints
  <2>3. kbdHandles \in BOOLEAN /\ auxHandles \in BOOLEAN BY <2>1
  <2> QED BY <2>1, <2>2, <2>3 DEF LoadTypeOK
<1>4. MouseTypeOK BY DEF Init, MouseTypeOK, MOUSE_BUFFER_SIZE
<1>5. UserTypeOK
  <2>1. typed = <<>> /\ clicks = <<>> /\ moves = <<>> /\ held = {} /\ pressed = {} BY DEF Init
  <2>2. bothShifts \in BOOLEAN /\ atBoot \in 0..255 BY Ps2Assumption DEF Init
  <2>3. typed \in Seq(Typed) /\ clicks \in Seq(Click) /\ moves \in Seq(Motions) BY <2>1, EmptySeq
  <2> QED BY <2>1, <2>2, <2>3 DEF UserTypeOK
<1> QED BY <1>1, <1>2, <1>3, <1>4, <1>5, TypeParts DEF Types

LEMMA ControllerKeepsTypes ==
    ASSUME TypeOK, Controller
    PROVE  TypeOK'
<1>1. ControllerTypeOK /\ DevicesTypeOK /\ LoadTypeOK /\ KeyboardTypeOK /\ MouseTypeOK /\ UserTypeOK
  BY TypeParts DEF Types
<1>2. UNCHANGED cmd /\ UNCHANGED streaming /\ UNCHANGED load
      /\ UNCHANGED keyboard /\ UNCHANGED mouse /\ UNCHANGED user
  BY DEF Controller, Output
<1>3. /\ reply' \in Seq(0..255) /\ kbdQueue' \in Seq(0..255) /\ auxQueue' \in Seq(0..255)
      /\ \E source \in {"ctl", "kbd", "aux"}, v \in 0..255 : out' = Byte(source, v)
  <2>1. reply # <<>> => Head(reply) \in 0..255 /\ Tail(reply) \in Seq(0..255) BY <1>1, HeadTailProperties DEF ControllerTypeOK
  <2>2. kbdQueue # <<>> => Head(kbdQueue) \in 0..255 /\ Tail(kbdQueue) \in Seq(0..255)
    BY <1>1, HeadTailProperties DEF DevicesTypeOK
  <2>3. auxQueue # <<>> => Head(auxQueue) \in 0..255 /\ Tail(auxQueue) \in Seq(0..255)
    BY <1>1, HeadTailProperties DEF DevicesTypeOK
  <2>4. CASE /\ reply # <<>> /\ Output(Byte("ctl", Head(reply)))
            /\ reply' = Tail(reply) /\ UNCHANGED <<kbdQueue, auxQueue>>
    BY <1>1, <2>1, <2>4 DEF Output, ControllerTypeOK, DevicesTypeOK
  <2>5. CASE /\ kbdQueue # <<>> /\ Output(Byte("kbd", Head(kbdQueue)))
            /\ kbdQueue' = Tail(kbdQueue) /\ UNCHANGED <<reply, auxQueue>>
    BY <1>1, <2>2, <2>5 DEF Output, ControllerTypeOK, DevicesTypeOK
  <2>6. CASE /\ auxQueue # <<>> /\ Output(Byte("aux", Head(auxQueue)))
            /\ auxQueue' = Tail(auxQueue) /\ UNCHANGED <<reply, kbdQueue>>
    BY <1>1, <2>3, <2>6 DEF Output, ControllerTypeOK, DevicesTypeOK
  <2> QED BY <2>4, <2>5, <2>6 DEF Controller, KbdWaits, AuxWaits
<1>4. out' \in OutputType
  BY <1>3 DEF Byte, OutputType
<1>5. latched' \subseteq {1, 12}
  <2>1. \E b : latched' = latched \cup LineOf(b, cmd) BY DEF Controller, Output
  <2> QED BY <2>1, <1>1, LinesAreLines DEF ControllerTypeOK
<1>6. ControllerTypeOK' BY <1>1, <1>2, <1>3, <1>4, <1>5 DEF ControllerTypeOK
<1>7. DevicesTypeOK' BY <1>1, <1>2, <1>3 DEF DevicesTypeOK
<1> QED BY <1>1, <1>2, <1>6, <1>7, TypeParts, UnchangedTypes DEF Types

LEMMA UserKeepsTypes ==
    ASSUME TypeOK, User
    PROVE  TypeOK'
<1>1. ControllerTypeOK /\ DevicesTypeOK /\ LoadTypeOK /\ KeyboardTypeOK /\ MouseTypeOK /\ UserTypeOK
  BY TypeParts DEF Types
<1>2. UNCHANGED controller /\ UNCHANGED streaming /\ UNCHANGED load
      /\ UNCHANGED keyboard /\ UNCHANGED mouse /\ UNCHANGED atBoot
  BY DEF User, Press, Release, MousePacket
<1>3. DevicesTypeOK' /\ UserTypeOK'
  <2>1. ASSUME NEW k \in Keys, Press(k) PROVE DevicesTypeOK' /\ UserTypeOK'
    <3>1. k \in 0..255 BY DEF Keys, SC_LSHIFT, SC_RSHIFT, SC_LCTRL, SC_A
    <3>2. ModsOf(held') \in SUBSET {"ctrl", "shift"} BY DEF ModsOf
    <3>3. [key |-> k, down |-> ModsOf(held'), sure |-> Sure(held', bothShifts')] \in Typed
      BY <3>2 DEF Typed, Sure
    <3>4. bothShifts' \in BOOLEAN BY <2>1 DEF Press, BothAfter
    <3> QED BY <1>1, <1>2, <2>1, <3>1, <3>3, <3>4 DEF Press, DevicesTypeOK, UserTypeOK
  <2>2. ASSUME NEW k \in Keys, Release(k) PROVE DevicesTypeOK' /\ UserTypeOK'
    <3>1. k + SC_RELEASE \in 0..255 BY DEF Keys, SC_LSHIFT, SC_RSHIFT, SC_LCTRL, SC_A, SC_RELEASE
    <3>2. bothShifts' \in BOOLEAN BY <2>2 DEF Release, BothAfter
    <3> QED BY <1>1, <1>2, <2>2, <3>1, <3>2 DEF Release, DevicesTypeOK, UserTypeOK
  <2>3. ASSUME NEW b \in {0, 1, 2}, NEW m \in Motions, MousePacket(b, m)
        PROVE  DevicesTypeOK' /\ UserTypeOK'
    <3>1. pressed' \subseteq {1, 2} BY <1>1, <2>3 DEF MousePacket, UserTypeOK
    <3>2. clicks' \in Seq(Click)
      <4>1. b # 0 => [button |-> b, down |-> b \in pressed'] \in Click BY DEF Click
      <4> QED BY <1>1, <2>3, <4>1 DEF MousePacket, UserTypeOK
    <3>3. Info(pressed') \in 0..255 /\ m[1] \in 0..255 /\ m[2] \in 0..255 BY DEF Info, Motions
    <3>4. auxQueue' \in Seq(0..255)
      <4>1. <<Info(pressed'), m[1], m[2]>> \in Seq(0..255) BY <3>3
      <4>2. auxQueue' = auxQueue \o <<Info(pressed'), m[1], m[2]>> BY <2>3 DEF MousePacket
      <4> QED BY <1>1, <4>1, <4>2 DEF DevicesTypeOK
    <3>5. moves' \in Seq(Motions) BY <1>1, <2>3 DEF MousePacket, UserTypeOK
    <3>6. UNCHANGED <<kbdQueue, held, typed, bothShifts>> BY <2>3 DEF MousePacket
    <3> QED BY <1>1, <1>2, <3>1, <3>2, <3>4, <3>5, <3>6 DEF DevicesTypeOK, UserTypeOK
  <2> QED BY <2>1, <2>2, <2>3 DEF User
<1> QED BY <1>1, <1>2, <1>3, TypeParts, UnchangedTypes DEF Types

LEMMA LoadKeepsTypes ==
    ASSUME TypeOK, Load
    PROVE  TypeOK'
<1>1. ControllerTypeOK /\ DevicesTypeOK /\ LoadTypeOK /\ KeyboardTypeOK /\ MouseTypeOK /\ UserTypeOK
  BY TypeParts DEF Types
<1>2. UNCHANGED keyboard /\ UNCHANGED mouse /\ UNCHANGED user
  BY DEF Load, Drain, EnableInterface, AskCommandByte, ReadCommandByte, WriteCommandByte, KbdRequest,
     Stream, ReadAck, AuxRequest, Elsewhere
<1>3. UNCHANGED devices \/ Stream
  BY DEF Load, Drain, EnableInterface, AskCommandByte, ReadCommandByte, WriteCommandByte, KbdRequest,
     ReadAck, AuxRequest, Elsewhere
<1>4. DevicesTypeOK'
  <2>1. ASSUME Stream PROVE DevicesTypeOK'
    <3>1. auxQueue' = Append(auxQueue, 250) /\ UNCHANGED kbdQueue /\ streaming' = TRUE
      BY <2>1 DEF Stream
    <3> QED BY <3>1, <1>1 DEF DevicesTypeOK
  <2> QED BY <2>1, <1>1, <1>3, UnchangedTypes
<1>5. out' \in OutputType
  <2>1. out' = out \/ ReadData
    BY DEF Load, Drain, EnableInterface, AskCommandByte, ReadCommandByte, WriteCommandByte, KbdRequest,
       Stream, ReadAck, AuxRequest, controller
  <2> QED BY <1>1, <2>1, ReadKeepsOut DEF ControllerTypeOK
<1>6. KbdStatus(out.value) \in 0..255 /\ AuxStatus(out.value) \in 0..255
      /\ ClearBit(cmd, 16) \in 0..255 /\ ClearBit(cmd, 32) \in 0..255
  <2>1. out.value \in 0..255 /\ cmd \in 0..255 BY <1>1 DEF ControllerTypeOK, OutputType
  <2>2. SetBit(out.value, 1) \in 0..255 BY <2>1, EditsStayBytes
  <2>3. AuxStatus(out.value) \in 0..255 BY <2>1, EditsStayBytes DEF AuxStatus
  <2>4. KbdStatus(out.value) \in 0..255 BY <2>2, EditsStayBytes DEF KbdStatus
  <2>5. ClearBit(cmd, 16) \in 0..255 /\ ClearBit(cmd, 32) \in 0..255 BY <2>1, EditsStayBytes, ZenonT(60)
  <2> QED BY <2>3, <2>4, <2>5
<1>7. reply' \in Seq(0..255) /\ cmd' \in 0..255 /\ status' \in 0..255
  <2>1. reply' \in {reply, Append(reply, cmd)}
    BY DEF Load, Drain, EnableInterface, AskCommandByte, ReadCommandByte, WriteCommandByte,
       KbdRequest, Stream, ReadAck, AuxRequest, controller
  <2>2. cmd' \in {cmd, status, ClearBit(cmd, 16), ClearBit(cmd, 32)}
    BY DEF Load, Drain, EnableInterface, AskCommandByte, ReadCommandByte, WriteCommandByte,
       KbdRequest, Stream, ReadAck, AuxRequest, controller
  <2>3. status' \in {status, KbdStatus(out.value), AuxStatus(out.value)}
    BY DEF Load, Drain, EnableInterface, AskCommandByte, ReadCommandByte, WriteCommandByte,
       KbdRequest, Stream, ReadAck, AuxRequest
  <2>4. reply \in Seq(0..255) /\ cmd \in 0..255 BY <1>1 DEF ControllerTypeOK
  <2>5. Append(reply, cmd) \in Seq(0..255) BY <2>4
  <2>6. reply' \in Seq(0..255) BY <2>1, <2>4, <2>5
  <2>7. cmd \in 0..255 /\ status \in 0..255 BY <1>1 DEF ControllerTypeOK, LoadTypeOK
  <2>8. cmd' \in 0..255 BY <1>6, <2>2, <2>7
  <2>9. status' \in 0..255 BY <1>6, <2>3, <2>7
  <2> QED BY <2>6, <2>8, <2>9
<1>8. latched' \subseteq {1, 12}
  <2>1. latched' = latched \/ latched' = latched \cup (LineOf(out, status) \ LineOf(out, cmd))
    BY DEF Load, Drain, EnableInterface, AskCommandByte, ReadCommandByte, WriteCommandByte, KbdRequest,
       Stream, ReadAck, AuxRequest, controller
  <2> QED BY <1>1, <2>1, LinesAreLines DEF ControllerTypeOK
<1>9. pc' \in LoadPoints /\ kbdHandles' \in BOOLEAN /\ auxHandles' \in BOOLEAN
  BY <1>1 DEF Load, Drain, EnableInterface, AskCommandByte, ReadCommandByte, WriteCommandByte,
     KbdRequest, Stream, ReadAck, AuxRequest, At, LoadTypeOK, LoadPoints
<1>10. ControllerTypeOK' /\ LoadTypeOK' BY <1>5, <1>7, <1>8, <1>9 DEF ControllerTypeOK, LoadTypeOK
<1> QED BY <1>1, <1>2, <1>4, <1>10, TypeParts, UnchangedTypes DEF Types

LEMMA InterruptsKeepTypes ==
    ASSUME TypeOK, Interrupts
    PROVE  TypeOK'
<1>1. ControllerTypeOK /\ DevicesTypeOK /\ LoadTypeOK /\ KeyboardTypeOK /\ MouseTypeOK /\ UserTypeOK
  BY TypeParts DEF Types
<1>2. /\ UNCHANGED reply /\ UNCHANGED cmd /\ latched' \subseteq latched
      /\ UNCHANGED devices /\ UNCHANGED load /\ UNCHANGED user
  BY DEF Interrupts, Interrupt
<1>3. \/ UNCHANGED <<out, keyboard, mouse>>
      \/ KeyboardHandler
      \/ AuxData /\ MouseHandler
  BY DEF Interrupts, Interrupt, MouseHandler
<1>4. ASSUME KeyboardHandler PROVE out' \in OutputType /\ KeyboardTypeOK' /\ MouseTypeOK'
  <2>1. out' \in OutputType BY <1>1, <1>4, ReadKeepsOut DEF KeyboardHandler
  <2>2. mods' \in SUBSET {"ctrl", "shift"}
    BY <1>1, <1>4 DEF KeyboardHandler, ModsAfter, KeyboardTypeOK
  <2>3. reported' \in Seq(Key)
    <3>1. ASSUME out.value \in Keys PROVE [key |-> out.value, mods |-> mods'] \in Key
      BY <3>1, <2>2 DEF Key
    <3>2. reported \in Seq(Key) BY <1>1 DEF KeyboardTypeOK
    <3>3. CASE out.value \in Keys
      <4>1. reported' = Append(reported, [key |-> out.value, mods |-> mods'])
        BY <1>4, <3>3 DEF KeyboardHandler
      <4> QED BY <4>1, <3>1, <3>2, <3>3
    <3>4. CASE out.value \notin Keys BY <1>4, <3>2, <3>4 DEF KeyboardHandler
    <3> QED BY <3>3, <3>4
  <2>4. MouseTypeOK' BY <1>1, <1>4, UnchangedTypes DEF KeyboardHandler
  <2> QED BY <2>1, <2>2, <2>3, <2>4 DEF KeyboardTypeOK
<1>5. ASSUME AuxData, MouseHandler PROVE out' \in OutputType /\ KeyboardTypeOK' /\ MouseTypeOK'
  <2>1. out' \in OutputType BY <1>1, <1>5, ReadKeepsOut DEF MouseHandler
  <2>2. KeyboardTypeOK' BY <1>1, <1>5, UnchangedTypes DEF MouseHandler
  <2>3. buffer' \in [0..2 -> 0..255]
    <3>1. buffer \in [0..2 -> 0..255] BY <1>1 DEF MouseTypeOK, MOUSE_BUFFER_SIZE
    <3>2. out.value \in 0..255 BY <1>1 DEF ControllerTypeOK, OutputType
    <3>3. buffer' = [buffer EXCEPT ![offset] = out.value] BY <1>5 DEF MouseHandler
    <3> QED BY <3>1, <3>2, <3>3
  <2>4. offset' \in 0..2
    BY <1>1, <1>5 DEF MouseHandler, NextOffset, MouseTypeOK, MOUSE_BUFFER_SIZE
  <2>5. buttons' \in 0..7
    <3>1. CASE UNCHANGED buttons BY <1>1, <3>1 DEF MouseTypeOK
    <3>2. CASE buttons' = buffer'[0] % 8 BY <2>3, <3>2
    <3> QED BY <1>5, <3>1, <3>2 DEF MouseHandler
  <2>6. clicked' \in Seq(Click)
    <3>1. clicked \in Seq(Click) BY <1>1 DEF MouseTypeOK
    <3>2. ASSUME NEW info, NEW b \in {1, 2, 4} PROVE ButtonEvent(info, b) \in Seq(Click)
      <4>1. [button |-> b, down |-> HasBit(info, b)] \in Click BY DEF Click, HasBit
      <4> QED BY <4>1 DEF ButtonEvent
    <3>3. ButtonEvents(buffer'[0]) \in Seq(Click) BY <3>2 DEF ButtonEvents
    <3>4. clicked' = clicked \/ clicked' = clicked \o ButtonEvents(buffer'[0])
      BY <1>5 DEF MouseHandler
    <3>5. CASE clicked' = clicked BY <3>1, <3>5
    <3>6. CASE clicked' = clicked \o ButtonEvents(buffer'[0])
      BY <3>1, <3>3, <3>6, ConcatProperties
    <3> QED BY <3>4, <3>5, <3>6
  <2>7. moved' \in Seq((0..255) \X (0..255))
    <3>1. moved \in Seq((0..255) \X (0..255)) BY <1>1 DEF MouseTypeOK
    <3>2. <<buffer'[1], buffer'[2]>> \in (0..255) \X (0..255) BY <2>3
    <3>3. moved' = moved \/ moved' = Append(moved, <<buffer'[1], buffer'[2]>>)
      BY <1>5 DEF MouseHandler
    <3>4. Append(moved, <<buffer'[1], buffer'[2]>>) \in Seq((0..255) \X (0..255))
      BY <3>1, <3>2, AppendProperties
    <3> QED BY <3>1, <3>3, <3>4
  <2> QED BY <2>1, <2>2, <2>3, <2>4, <2>5, <2>6, <2>7 DEF MouseTypeOK, MOUSE_BUFFER_SIZE
<1>6. out' \in OutputType /\ KeyboardTypeOK' /\ MouseTypeOK'
  <2>1. CASE UNCHANGED <<out, keyboard, mouse>>
    BY <1>1, <2>1, UnchangedTypes DEF ControllerTypeOK
  <2> QED BY <1>3, <1>4, <1>5, <2>1
<1>7. ControllerTypeOK' BY <1>1, <1>2, <1>6 DEF ControllerTypeOK
<1> QED BY <1>1, <1>2, <1>6, <1>7, TypeParts, UnchangedTypes DEF Types

LEMMA StepKeepsTypes ==
    ASSUME TypeOK, [Next]_vars
    PROVE  TypeOK'
<1>1. CASE UNCHANGED vars
  <2>1. /\ UNCHANGED controller /\ UNCHANGED devices /\ UNCHANGED load
        /\ UNCHANGED keyboard /\ UNCHANGED mouse /\ UNCHANGED user
    BY <1>1 DEF vars
  <2> QED BY <2>1, TypeParts, UnchangedTypes DEF Types
<1> QED BY <1>1, UserKeepsTypes, ControllerKeepsTypes, LoadKeepsTypes, InterruptsKeepTypes DEF Next

(* Every variable has its type in every state, and the packet offset stays *)
(* inside the buffer: mouse.cpp:33 to 60 cannot write behind it.           *)
THEOREM Ps2TypeCorrect == Spec => []TypeOK
<1>1. TypeOK /\ [Next]_vars => TypeOK' BY StepKeepsTypes
<1> QED BY <1>1, InitTypes, PTL DEF Spec
-----------------------------------------------------------------------------
(* Without early input.  The command byte at every point of Load.          *)
AfterKbdOn == ClearBit(atBoot, 16)
AfterKbdWrite == KbdStatus(AfterKbdOn)
AfterAuxOn == ClearBit(AfterKbdWrite, 32)
AfterAuxWrite == AuxStatus(AfterAuxOn)

CommandInv ==
    /\ pc \in {"drain", "kbdOn"} => cmd = atBoot
    /\ pc \in {"kbdAsk", "kbdRead", "kbdWrite"} => cmd = AfterKbdOn
    /\ pc = "kbdWrite" => status = AfterKbdWrite
    /\ pc \in {"kbdRequest", "auxOn"} => cmd = AfterKbdWrite
    /\ pc \in {"auxAsk", "auxRead", "auxWrite"} => cmd = AfterAuxOn
    /\ pc = "auxWrite" => status = AfterAuxWrite
    /\ pc \in {"stream", "ack", "auxRequest", "done"} => cmd = AfterAuxWrite

(* The byte a Load reads is the command byte, even when an interrupt came first. *)
ReplyInv ==
    /\ pc \in {"kbdRead", "auxRead"} =>
           \/ reply = <<cmd>> /\ ~out.full
           \/ reply = <<>> /\ out.value = cmd
    /\ pc \notin {"kbdRead", "auxRead"} => reply = <<>>

(* Nothing but the leftover, the command byte and the acknowledgement is on its way. *)
QuietInv ==
    /\ kbdQueue = <<>>
    /\ IF pc = "ack" THEN auxQueue = <<>> \/ (auxQueue = <<250>> /\ ~out.full)
                     ELSE auxQueue = <<>>
    /\ pc \notin {"drain", "kbdRead", "auxRead", "ack"} => ~out.full

(* What a handler would find behind a latched line 1 is no key.            *)
StaleInv == 1 \in latched => HasBit(cmd, 1) /\ out.value \notin Keys

Handling ==
    /\ auxHandles <=> pc = "done"
    /\ pc \in {"auxOn", "auxAsk", "auxRead", "auxWrite", "stream", "ack", "auxRequest", "done"}
           => kbdHandles

(* Neither the user nor a driver has done anything yet.                    *)
Untouched ==
    /\ mods = {} /\ reported = <<>>
    /\ offset = 0 /\ buttons = 0 /\ clicked = <<>>
    /\ held = {} /\ typed = <<>> /\ bothShifts = FALSE /\ pressed = {} /\ clicks = <<>>

Loading == QuietInv /\ StaleInv /\ Untouched

LoadInv ==
    /\ TypeOK /\ CommandInv /\ ReplyInv /\ Handling
    /\ pc # "done" => Loading

(* Facts about the bytes that are written.                                 *)
LEMMA CommandBits ==
    ASSUME atBoot \in 0..255
    PROVE  /\ ~HasBit(AfterKbdOn, 16)
           /\ HasBit(AfterKbdWrite, 1) /\ ~HasBit(AfterKbdWrite, 16)
           /\ HasBit(AfterAuxOn, 1) /\ ~HasBit(AfterAuxOn, 16) /\ ~HasBit(AfterAuxOn, 32)
           /\ HasBit(AfterAuxWrite, 1) /\ HasBit(AfterAuxWrite, 2)
           /\ ~HasBit(AfterAuxWrite, 16) /\ ~HasBit(AfterAuxWrite, 32)
           /\ AfterAuxWrite = ClearBit(ClearBit(SetBit(SetBit(atBoot, 1), 2), 16), 32)
           /\ AfterKbdOn \in 0..255 /\ AfterKbdWrite \in 0..255
           /\ AfterAuxOn \in 0..255 /\ AfterAuxWrite \in 0..255
           /\ HasBit(atBoot, 1) => HasBit(AfterKbdOn, 1)
<1>1. PICK a \in 0..1, b \in 0..1, m \in 0..3, c \in 0..1, d \in 0..1, h \in 0..3 :
          atBoot = a + 2 * b + 4 * m + 16 * c + 32 * d + 64 * h
  BY BitsOfByte
<1>2. AfterKbdOn = a + 2 * b + 4 * m + 16 * 0 + 32 * d + 64 * h
  BY <1>1, EditsOfByte DEF AfterKbdOn
<1>3. AfterKbdWrite = 1 + 2 * b + 4 * m + 16 * 0 + 32 * d + 64 * h
  <2>1. SetBit(AfterKbdOn, 1) = 1 + 2 * b + 4 * m + 16 * 0 + 32 * d + 64 * h BY <1>2, EditsOfByte
  <2>2. ClearBit(SetBit(AfterKbdOn, 1), 16) = 1 + 2 * b + 4 * m + 16 * 0 + 32 * d + 64 * h
    BY <2>1, EditsOfByte
  <2> QED BY <2>2 DEF AfterKbdWrite, KbdStatus
<1>4. AfterAuxOn = 1 + 2 * b + 4 * m + 16 * 0 + 32 * 0 + 64 * h
  BY <1>3, EditsOfByte DEF AfterAuxOn
<1>5. AfterAuxWrite = 1 + 2 * 1 + 4 * m + 16 * 0 + 32 * 0 + 64 * h
  BY <1>4, EditsOfByte DEF AfterAuxWrite, AuxStatus
<1>6. ClearBit(ClearBit(SetBit(SetBit(atBoot, 1), 2), 16), 32) = AfterAuxWrite
  <2>1. SetBit(atBoot, 1) = 1 + 2 * b + 4 * m + 16 * c + 32 * d + 64 * h BY <1>1, EditsOfByte
  <2>2. SetBit(SetBit(atBoot, 1), 2) = 1 + 2 * 1 + 4 * m + 16 * c + 32 * d + 64 * h BY <2>1, EditsOfByte
  <2>3. ClearBit(SetBit(SetBit(atBoot, 1), 2), 16) = 1 + 2 * 1 + 4 * m + 16 * 0 + 32 * d + 64 * h
    BY <2>2, EditsOfByte
  <2>4. ClearBit(ClearBit(SetBit(SetBit(atBoot, 1), 2), 16), 32)
            = 1 + 2 * 1 + 4 * m + 16 * 0 + 32 * 0 + 64 * h
    BY <2>3, EditsOfByte
  <2> QED BY <2>4, <1>5
<1>7. ~HasBit(AfterKbdOn, 16) /\ (HasBit(AfterKbdOn, 1) <=> a = 1) BY <1>2, EditsOfByte
<1>8. HasBit(AfterKbdWrite, 1) /\ ~HasBit(AfterKbdWrite, 16) BY <1>3, EditsOfByte
<1>9. HasBit(AfterAuxOn, 1) /\ ~HasBit(AfterAuxOn, 16) /\ ~HasBit(AfterAuxOn, 32) BY <1>4, EditsOfByte
<1>10. HasBit(AfterAuxWrite, 1) /\ HasBit(AfterAuxWrite, 2)
       /\ ~HasBit(AfterAuxWrite, 16) /\ ~HasBit(AfterAuxWrite, 32)
  BY <1>5, EditsOfByte
<1>11. HasBit(atBoot, 1) <=> a = 1 BY <1>1, EditsOfByte
<1>12. AfterKbdOn \in 0..255 /\ AfterKbdWrite \in 0..255 /\ AfterAuxOn \in 0..255 /\ AfterAuxWrite \in 0..255
  <2>1. AfterKbdOn \in 0..255 BY EditsStayBytes DEF AfterKbdOn
  <2>2. SetBit(AfterKbdOn, 1) \in 0..255 BY <2>1, EditsStayBytes
  <2>3. AfterKbdWrite \in 0..255 BY <2>2, EditsStayBytes DEF AfterKbdWrite, KbdStatus
  <2>4. AfterAuxOn \in 0..255 BY <2>3, EditsStayBytes DEF AfterAuxOn
  <2>5. AfterAuxWrite \in 0..255 BY <2>4, EditsStayBytes DEF AfterAuxWrite, AuxStatus
  <2> QED BY <2>1, <2>3, <2>4, <2>5
<1> QED BY <1>6, <1>7, <1>8, <1>9, <1>10, <1>11, <1>12

(* A key is even or has bit 16: no command byte a handler can meet is one. *)
LEMMA CommandIsNoKey ==
    ASSUME NEW v \in 0..255, HasBit(v, 1), ~HasBit(v, 16)
    PROVE  v \notin Keys
BY DEF HasBit, Keys, SC_LSHIFT, SC_RSHIFT, SC_LCTRL, SC_A
LEMMA InitLoadInv == Init => LoadInv
<1> SUFFICES ASSUME Init PROVE LoadInv OBVIOUS
<1>1. pc = "drain" /\ cmd = atBoot /\ reply = <<>> /\ latched = {} /\ auxHandles = FALSE
  BY DEF Init
<1>2. CommandInv /\ ReplyInv /\ Handling BY <1>1 DEF CommandInv, ReplyInv, Handling
<1>3. QuietInv /\ StaleInv /\ Untouched BY <1>1 DEF Init, QuietInv, StaleInv, Untouched
<1> QED BY <1>2, <1>3, InitTypes DEF LoadInv, Loading

(* Nothing but Load changes where Load is, what it has read and the command byte. *)
LEMMA OthersKeepCommand ==
    ASSUME LoadInv, User \/ Controller \/ Interrupts
    PROVE  /\ UNCHANGED <<cmd, status, pc, kbdHandles, auxHandles, atBoot>>
           /\ CommandInv' /\ Handling'
<1>1. UNCHANGED <<cmd, status, pc, kbdHandles, auxHandles, atBoot>>
  BY DEF User, Press, Release, MousePacket, Controller, Output, Interrupts, Interrupt, load, controller, user
<1>2. CommandInv' BY <1>1 DEF LoadInv, CommandInv, AfterKbdOn, AfterKbdWrite, AfterAuxOn, AfterAuxWrite
<1>3. Handling' BY <1>1 DEF LoadInv, Handling
<1> QED BY <1>1, <1>2, <1>3

LEMMA UserLoadInv ==
    ASSUME EarlyInput = FALSE, LoadInv, User
    PROVE  LoadInv'
<1>1. pc = "done" BY DEF User, Press, Release, MousePacket, UserActs
<1>2. UNCHANGED controller BY DEF User, Press, Release, MousePacket
<1>3. TypeOK' BY UserKeepsTypes DEF LoadInv
<1>4. ReplyInv' BY <1>1, <1>2, OthersKeepCommand DEF LoadInv, ReplyInv, controller
<1> QED BY <1>1, <1>3, <1>4, OthersKeepCommand DEF LoadInv

LEMMA ControllerLoadInv ==
    ASSUME EarlyInput = FALSE, LoadInv, Controller
    PROVE  LoadInv'
<1>1. TypeOK' BY ControllerKeepsTypes DEF LoadInv
<1>2. atBoot \in 0..255 /\ cmd \in 0..255 BY DEF LoadInv, TypeOK
<1>3. UNCHANGED <<pc, cmd, keyboard, mouse, user>> /\ ~out.full BY DEF Controller, Output, load
<1>4. CASE reply # <<>>
  <2>1. pc \in {"kbdRead", "auxRead"} /\ reply = <<cmd>> BY <1>4 DEF LoadInv, ReplyInv
  <2>2. reply' = <<>> /\ out'.value = cmd /\ UNCHANGED <<kbdQueue, auxQueue>>
    BY <1>4, <2>1 DEF Controller, Output, Byte
  <2>3. latched' = latched \cup LineOf(Byte("ctl", cmd), cmd) BY <1>4, <2>1 DEF Controller, Output
  <2>4. ~HasBit(cmd, 16)
    BY <1>2, <2>1, CommandBits DEF LoadInv, CommandInv
  <2>5. ReplyInv' BY <1>3, <2>1, <2>2 DEF ReplyInv
  <2>6. QuietInv' BY <1>3, <2>1, <2>2 DEF LoadInv, Loading, QuietInv
  <2>7. StaleInv'
    <3>1. SUFFICES ASSUME 1 \in latched' PROVE HasBit(cmd, 1) BY <1>2, <1>3, <2>2, <2>4, CommandIsNoKey DEF StaleInv
    <3>2. CASE 1 \in latched BY <2>1, <3>2 DEF LoadInv, Loading, StaleInv
    <3>3. CASE 1 \in LineOf(Byte("ctl", cmd), cmd) BY <3>3 DEF LineOf, Byte
    <3> QED BY <3>1, <3>2, <3>3, <2>3
  <2>8. Untouched' BY <1>3, <2>1 DEF LoadInv, Loading, Untouched, keyboard, mouse, user
  <2> QED BY <1>1, <2>5, <2>6, <2>7, <2>8, OthersKeepCommand DEF LoadInv, Loading
<1>5. CASE reply = <<>>
  <2>1. UNCHANGED reply BY <1>5 DEF Controller
  <2>2. CASE pc = "done" BY <1>1, <1>3, <2>1, <2>2, OthersKeepCommand DEF LoadInv, ReplyInv
  <2>3. CASE pc # "done"
    <3>1. kbdQueue = <<>> BY <2>3 DEF LoadInv, Loading, QuietInv
    <3>2. auxQueue # <<>> /\ out' = Byte("aux", Head(auxQueue)) /\ auxQueue' = Tail(auxQueue)
          /\ latched' = latched \cup LineOf(Byte("aux", Head(auxQueue)), cmd) /\ UNCHANGED kbdQueue
      BY <1>5, <3>1 DEF Controller, Output, KbdWaits, AuxWaits
    <3>3. pc = "ack" /\ auxQueue = <<250>> BY <2>3, <3>2 DEF LoadInv, Loading, QuietInv
    <3>4. auxQueue' = <<>> /\ out'.value = 250 BY <3>2, <3>3 DEF Byte
    <3>5. ReplyInv' BY <1>3, <1>5, <2>1, <3>3 DEF ReplyInv
    <3>6. QuietInv' BY <1>3, <3>1, <3>2, <3>3, <3>4 DEF QuietInv
    <3>7. StaleInv'
      <4>1. 250 \notin Keys BY DEF Keys, SC_LSHIFT, SC_RSHIFT, SC_LCTRL, SC_A
      <4>2. HasBit(cmd, 1) BY <1>2, <3>3, CommandBits DEF LoadInv, CommandInv
      <4> QED BY <1>3, <3>4, <4>1, <4>2 DEF StaleInv
    <3>8. Untouched' BY <1>3, <2>3 DEF LoadInv, Loading, Untouched, keyboard, mouse, user
    <3> QED BY <1>1, <3>5, <3>6, <3>7, <3>8, OthersKeepCommand DEF LoadInv, Loading
  <2> QED BY <2>2, <2>3
<1> QED BY <1>4, <1>5

(* A handler that finds a stale byte changes nothing but the full flag.    *)
LEMMA StaleInterrupt ==
    ASSUME TypeOK, Interrupts, Untouched, StaleInv, ~auxHandles \/ ~out.full
    PROVE  /\ Untouched' /\ out'.value = out.value /\ (out'.full => out.full)
           /\ latched' \subseteq latched /\ UNCHANGED <<reply, cmd, devices, load>>
<1>1. latched' \subseteq latched /\ UNCHANGED <<reply, cmd, devices, load, user>>
  BY DEF Interrupts, Interrupt
<1>2. CASE UNCHANGED <<out, keyboard, mouse>>
  BY <1>1, <1>2 DEF Untouched, keyboard, mouse, user
<1>3. CASE 1 \in latched /\ KeyboardHandler
  <2>1. out.value \notin Keys BY <1>3 DEF StaleInv
  <2>2. reported' = reported /\ UNCHANGED mouse /\ mods' = ModsAfter(mods, out.value) /\ ReadData
    BY <1>3, <2>1 DEF KeyboardHandler
  <2>3. ModsAfter({}, out.value) = {}
    BY <2>1 DEF ModsAfter, Keys, Shifts
  <2>4. Untouched' BY <1>1, <2>2, <2>3 DEF Untouched, mouse, user
  <2>5. ControllerTypeOK BY TypeParts DEF Types
  <2> QED BY <1>1, <2>2, <2>4, <2>5, ReadKeepsOut
<1> QED BY <1>1, <1>2, <1>3 DEF Interrupts, Interrupt, MouseHandler, AuxData

LEMMA InterruptsLoadInv ==
    ASSUME EarlyInput = FALSE, LoadInv, Interrupts
    PROVE  LoadInv'
<1>1. TypeOK' BY InterruptsKeepTypes DEF LoadInv
<1>2. CASE pc = "done"
  <2>1. UNCHANGED <<reply, pc>> BY DEF Interrupts, Interrupt, load
  <2>2. ReplyInv' BY <1>2, <2>1 DEF LoadInv, ReplyInv
  <2> QED BY <1>1, <1>2, <2>1, <2>2, OthersKeepCommand DEF LoadInv
<1>3. CASE pc # "done"
  <2>1. ~auxHandles BY <1>3 DEF LoadInv, Handling
  <2>2. /\ Untouched' /\ out'.value = out.value /\ (out'.full => out.full)
        /\ latched' \subseteq latched /\ UNCHANGED <<reply, cmd, devices, load>>
    BY <1>3, <2>1, StaleInterrupt DEF LoadInv, Loading
  <2>3. out.full \in BOOLEAN /\ out'.full \in BOOLEAN BY <1>1 DEF LoadInv, TypeOK
  <2>4. ReplyInv' BY <2>2, <2>3 DEF LoadInv, ReplyInv, load
  <2>5. QuietInv' BY <1>3, <2>2, <2>3 DEF LoadInv, Loading, QuietInv, load, devices
  <2>6. StaleInv' BY <1>3, <2>2 DEF LoadInv, Loading, StaleInv
  <2> QED BY <1>1, <2>2, <2>4, <2>5, <2>6, OthersKeepCommand DEF LoadInv, Loading
<1> QED BY <1>2, <1>3
LEMMA LoadKeepsLoadInv ==
    ASSUME EarlyInput = FALSE, LoadInv, Load
    PROVE  LoadInv'
<1>1. TypeOK' BY LoadKeepsTypes DEF LoadInv
<1>2. UNCHANGED <<keyboard, mouse, user>>
  BY DEF Load, Drain, EnableInterface, AskCommandByte, ReadCommandByte, WriteCommandByte, KbdRequest,
     Stream, ReadAck, AuxRequest, Elsewhere
<1>3. pc # "done"
  BY DEF Load, Drain, EnableInterface, AskCommandByte, ReadCommandByte, WriteCommandByte, KbdRequest,
     Stream, ReadAck, AuxRequest, At
<1>4. QuietInv /\ StaleInv /\ Untouched BY <1>3 DEF LoadInv, Loading
<1>5. Untouched' BY <1>2, <1>4 DEF Untouched, keyboard, mouse, user
<1>6. UNCHANGED atBoot BY <1>2 DEF user
<1>7. atBoot \in 0..255 BY DEF LoadInv, TypeOK
<1>8. /\ AfterKbdOn' = AfterKbdOn /\ AfterKbdWrite' = AfterKbdWrite
      /\ AfterAuxOn' = AfterAuxOn /\ AfterAuxWrite' = AfterAuxWrite
  BY <1>6 DEF AfterKbdOn, AfterKbdWrite, AfterAuxOn, AfterAuxWrite
<1> SUFFICES CommandInv' /\ ReplyInv' /\ Handling' /\ QuietInv' /\ StaleInv'
  BY <1>1, <1>5 DEF LoadInv, Loading
<1>9. ASSUME ReadData PROVE ~out'.full /\ out'.value = out.value
  BY <1>9, ReadKeepsOut, TypeParts DEF LoadInv, Types
<1>10. CASE Drain
  <2>1. /\ pc = "drain" /\ pc' \in {"drain", "kbdOn"} /\ (pc' = "kbdOn" => ~out'.full)
        /\ out'.value = out.value
        /\ UNCHANGED <<reply, cmd, latched, status, kbdHandles, auxHandles, devices>>
    BY <1>9, <1>10 DEF Drain, HasData, Elsewhere
  <2>2. CommandInv' BY <2>1, <1>6 DEF LoadInv, CommandInv
  <2>3. ReplyInv' /\ Handling' BY <2>1 DEF LoadInv, ReplyInv, Handling
  <2>4. QuietInv' /\ StaleInv' BY <2>1, <1>4 DEF QuietInv, StaleInv, devices
  <2> QED BY <2>2, <2>3, <2>4
<1>11. CASE EnableInterface("kbdOn", "kbdAsk", 16)
  <2>1. /\ pc = "kbdOn" /\ pc' = "kbdAsk" /\ cmd' = ClearBit(cmd, 16)
        /\ UNCHANGED <<out, reply, latched, status, kbdHandles, auxHandles, devices>>
    BY <1>11 DEF EnableInterface, At, Elsewhere
  <2>2. cmd = atBoot /\ cmd' = AfterKbdOn BY <2>1 DEF LoadInv, CommandInv, AfterKbdOn
  <2>3. CommandInv' BY <2>1, <2>2, <1>8 DEF CommandInv
  <2>4. ReplyInv' /\ Handling' BY <2>1 DEF LoadInv, ReplyInv, Handling
  <2>5. QuietInv' /\ StaleInv' BY <1>4, <1>7, <2>1, <2>2, CommandBits DEF QuietInv, StaleInv, devices
  <2> QED BY <2>3, <2>4, <2>5
<1>12. CASE AskCommandByte("kbdAsk", "kbdRead")
  <2>1. /\ pc = "kbdAsk" /\ pc' = "kbdRead" /\ reply' = Append(reply, cmd)
        /\ UNCHANGED <<out, cmd, latched, status, kbdHandles, auxHandles, devices>>
    BY <1>12 DEF AskCommandByte, At, Elsewhere
  <2>2. reply = <<>> /\ ~out.full BY <1>4, <2>1 DEF LoadInv, ReplyInv, QuietInv
  <2>3. reply' = <<cmd'>> BY <2>1, <2>2
  <2>4. CommandInv' BY <2>1, <1>8 DEF LoadInv, CommandInv
  <2>5. ReplyInv' /\ Handling' BY <2>1, <2>2, <2>3 DEF LoadInv, ReplyInv, Handling
  <2>6. QuietInv' /\ StaleInv' BY <1>4, <2>1, <2>2 DEF QuietInv, StaleInv, devices
  <2> QED BY <2>4, <2>5, <2>6
<1>13. CASE ReadCommandByte("kbdRead", "kbdWrite", KbdStatus(out.value))
  <2>1. /\ pc = "kbdRead" /\ pc' = "kbdWrite" /\ status' = KbdStatus(out.value) /\ Prompt
        /\ ~out'.full /\ out'.value = out.value
        /\ UNCHANGED <<reply, cmd, latched, kbdHandles, auxHandles, devices>>
    BY <1>9, <1>13 DEF ReadCommandByte, At, Elsewhere
  <2>2. reply = <<>> /\ out.value = cmd BY <2>1 DEF LoadInv, ReplyInv, Prompt
  <2>3. status' = AfterKbdWrite BY <2>1, <2>2 DEF LoadInv, CommandInv, AfterKbdWrite
  <2>4. CommandInv' BY <2>1, <2>3, <1>8 DEF LoadInv, CommandInv
  <2>5. ReplyInv' /\ Handling' BY <2>1, <2>2 DEF LoadInv, ReplyInv, Handling
  <2>6. QuietInv' /\ StaleInv' BY <1>4, <2>1 DEF QuietInv, StaleInv, devices
  <2> QED BY <2>4, <2>5, <2>6
<1>14. CASE WriteCommandByte("kbdWrite", "kbdRequest")
  <2>1. /\ pc = "kbdWrite" /\ pc' = "kbdRequest" /\ cmd' = status
        /\ latched' = latched \cup (LineOf(out, status) \ LineOf(out, cmd))
        /\ UNCHANGED <<out, reply, status, kbdHandles, auxHandles, devices>>
    BY <1>14 DEF WriteCommandByte, At, Elsewhere
  <2>2. ~out.full BY <1>4, <2>1 DEF QuietInv
  <2>3. latched' = latched BY <2>1, <2>2 DEF LineOf
  <2>4. cmd' = AfterKbdWrite BY <2>1 DEF LoadInv, CommandInv
  <2>5. CommandInv' BY <2>1, <2>4, <1>8 DEF CommandInv
  <2>6. ReplyInv' /\ Handling' BY <2>1 DEF LoadInv, ReplyInv, Handling
  <2>7. QuietInv' /\ StaleInv'
    BY <1>4, <1>7, <2>1, <2>2, <2>3, <2>4, CommandBits DEF QuietInv, StaleInv, devices
  <2> QED BY <2>5, <2>6, <2>7
<1>15. CASE KbdRequest
  <2>1. /\ pc = "kbdRequest" /\ pc' = "auxOn" /\ kbdHandles' = TRUE
        /\ UNCHANGED <<out, reply, cmd, latched, status, auxHandles, devices>>
    BY <1>15 DEF KbdRequest, At, Elsewhere, controller
  <2>2. CommandInv' BY <2>1, <1>8 DEF LoadInv, CommandInv
  <2>3. ReplyInv' /\ Handling' BY <2>1 DEF LoadInv, ReplyInv, Handling
  <2>4. QuietInv' /\ StaleInv' BY <1>4, <2>1 DEF QuietInv, StaleInv, devices
  <2> QED BY <2>2, <2>3, <2>4
<1>16. CASE EnableInterface("auxOn", "auxAsk", 32)
  <2>1. /\ pc = "auxOn" /\ pc' = "auxAsk" /\ cmd' = ClearBit(cmd, 32)
        /\ UNCHANGED <<out, reply, latched, status, kbdHandles, auxHandles, devices>>
    BY <1>16 DEF EnableInterface, At, Elsewhere
  <2>2. cmd' = AfterAuxOn BY <2>1 DEF LoadInv, CommandInv, AfterAuxOn
  <2>3. CommandInv' BY <2>1, <2>2, <1>8 DEF CommandInv
  <2>4. ReplyInv' /\ Handling' BY <2>1 DEF LoadInv, ReplyInv, Handling
  <2>5. QuietInv' /\ StaleInv' BY <1>4, <1>7, <2>1, <2>2, CommandBits DEF QuietInv, StaleInv, devices
  <2> QED BY <2>3, <2>4, <2>5
<1>17. CASE AskCommandByte("auxAsk", "auxRead")
  <2>1. /\ pc = "auxAsk" /\ pc' = "auxRead" /\ reply' = Append(reply, cmd)
        /\ UNCHANGED <<out, cmd, latched, status, kbdHandles, auxHandles, devices>>
    BY <1>17 DEF AskCommandByte, At, Elsewhere
  <2>2. reply = <<>> /\ ~out.full BY <1>4, <2>1 DEF LoadInv, ReplyInv, QuietInv
  <2>3. reply' = <<cmd'>> BY <2>1, <2>2
  <2>4. CommandInv' BY <2>1, <1>8 DEF LoadInv, CommandInv
  <2>5. ReplyInv' /\ Handling' BY <2>1, <2>2, <2>3 DEF LoadInv, ReplyInv, Handling
  <2>6. QuietInv' /\ StaleInv' BY <1>4, <2>1, <2>2 DEF QuietInv, StaleInv, devices
  <2> QED BY <2>4, <2>5, <2>6
<1>18. CASE ReadCommandByte("auxRead", "auxWrite", AuxStatus(out.value))
  <2>1. /\ pc = "auxRead" /\ pc' = "auxWrite" /\ status' = AuxStatus(out.value) /\ Prompt
        /\ ~out'.full /\ out'.value = out.value
        /\ UNCHANGED <<reply, cmd, latched, kbdHandles, auxHandles, devices>>
    BY <1>9, <1>18 DEF ReadCommandByte, At, Elsewhere
  <2>2. reply = <<>> /\ out.value = cmd BY <2>1 DEF LoadInv, ReplyInv, Prompt
  <2>3. status' = AfterAuxWrite BY <2>1, <2>2 DEF LoadInv, CommandInv, AfterAuxWrite
  <2>4. CommandInv' BY <2>1, <2>3, <1>8 DEF LoadInv, CommandInv
  <2>5. ReplyInv' /\ Handling' BY <2>1, <2>2 DEF LoadInv, ReplyInv, Handling
  <2>6. QuietInv' /\ StaleInv' BY <1>4, <2>1 DEF QuietInv, StaleInv, devices
  <2> QED BY <2>4, <2>5, <2>6
<1>19. CASE WriteCommandByte("auxWrite", "stream")
  <2>1. /\ pc = "auxWrite" /\ pc' = "stream" /\ cmd' = status
        /\ latched' = latched \cup (LineOf(out, status) \ LineOf(out, cmd))
        /\ UNCHANGED <<out, reply, status, kbdHandles, auxHandles, devices>>
    BY <1>19 DEF WriteCommandByte, At, Elsewhere
  <2>2. ~out.full BY <1>4, <2>1 DEF QuietInv
  <2>3. latched' = latched BY <2>1, <2>2 DEF LineOf
  <2>4. cmd' = AfterAuxWrite BY <2>1 DEF LoadInv, CommandInv
  <2>5. CommandInv' BY <2>1, <2>4, <1>8 DEF CommandInv
  <2>6. ReplyInv' /\ Handling' BY <2>1 DEF LoadInv, ReplyInv, Handling
  <2>7. QuietInv' /\ StaleInv'
    BY <1>4, <1>7, <2>1, <2>2, <2>3, <2>4, CommandBits DEF QuietInv, StaleInv, devices
  <2> QED BY <2>5, <2>6, <2>7
<1>20. CASE Stream
  <2>1. /\ pc = "stream" /\ pc' = "ack" /\ auxQueue' = Append(auxQueue, 250)
        /\ UNCHANGED <<out, reply, cmd, latched, status, kbdHandles, auxHandles, kbdQueue>>
    BY <1>20 DEF Stream, At, controller
  <2>2. auxQueue' = <<250>> /\ ~out'.full BY <1>4, <2>1 DEF QuietInv
  <2>3. CommandInv' BY <2>1, <1>8 DEF LoadInv, CommandInv
  <2>4. ReplyInv' /\ Handling' BY <2>1 DEF LoadInv, ReplyInv, Handling
  <2>5. QuietInv' /\ StaleInv' BY <1>4, <2>1, <2>2 DEF QuietInv, StaleInv
  <2> QED BY <2>3, <2>4, <2>5
<1>21. CASE ReadAck
  <2>1. /\ pc = "ack" /\ pc' = "auxRequest" /\ Prompt /\ ~out'.full /\ out'.value = out.value
        /\ UNCHANGED <<reply, cmd, latched, status, kbdHandles, auxHandles, devices>>
    BY <1>9, <1>21 DEF ReadAck, At, Elsewhere
  <2>2. cmd = AfterAuxWrite BY <2>1 DEF LoadInv, CommandInv
  <2>3. auxQueue = <<>>
    BY <1>4, <1>7, <2>1, <2>2, CommandBits DEF QuietInv, Prompt, AuxWaits
  <2>4. CommandInv' BY <2>1, <1>8 DEF LoadInv, CommandInv
  <2>5. ReplyInv' /\ Handling' BY <2>1 DEF LoadInv, ReplyInv, Handling
  <2>6. QuietInv' /\ StaleInv' BY <1>4, <2>1, <2>3 DEF QuietInv, StaleInv, devices
  <2> QED BY <2>4, <2>5, <2>6
<1>22. CASE AuxRequest
  <2>1. /\ pc = "auxRequest" /\ pc' = "done" /\ auxHandles' = TRUE
        /\ UNCHANGED <<out, reply, cmd, latched, status, kbdHandles, devices>>
    BY <1>22 DEF AuxRequest, At, Elsewhere, controller
  <2>2. CommandInv' BY <2>1, <1>8 DEF LoadInv, CommandInv
  <2>3. ReplyInv' /\ Handling' BY <2>1 DEF LoadInv, ReplyInv, Handling
  <2>4. QuietInv' /\ StaleInv' BY <1>4, <2>1 DEF QuietInv, StaleInv, devices
  <2> QED BY <2>2, <2>3, <2>4
<1> QED BY <1>10, <1>11, <1>12, <1>13, <1>14, <1>15, <1>16, <1>17, <1>18, <1>19, <1>20, <1>21, <1>22 DEF Load

LEMMA StepKeepsLoadInv ==
    ASSUME EarlyInput = FALSE, LoadInv, [Next]_vars
    PROVE  LoadInv'
<1>1. CASE UNCHANGED vars
  <2>1. UNCHANGED <<controller, devices, load, keyboard, mouse, user>> BY <1>1 DEF vars
  <2>2. TypeOK' BY <1>1, StepKeepsTypes DEF LoadInv
  <2>3. CommandInv' /\ ReplyInv' /\ Handling'
    BY <2>1 DEF LoadInv, CommandInv, ReplyInv, Handling, controller, load, user,
       AfterKbdOn, AfterKbdWrite, AfterAuxOn, AfterAuxWrite
  <2>4. (pc # "done" => Loading)'
    BY <2>1 DEF LoadInv, Loading, QuietInv, StaleInv, Untouched,
       controller, devices, load, keyboard, mouse, user
  <2> QED BY <2>2, <2>3, <2>4 DEF LoadInv
<1> QED BY <1>1, UserLoadInv, ControllerLoadInv, LoadKeepsLoadInv, InterruptsLoadInv DEF Next

(* The read-modify-write of the command byte in the two Loads is not torn: *)
(* for every command byte at boot it ends up with both interfaces and both *)
(* interrupts enabled and nothing else changed (keyboard.cpp:14 to 26,     *)
(* mouse.cpp:8 to 19), though interrupts are on between the two ports.    *)
THEOREM CommandByteIsMerged ==
    ASSUME EarlyInput = FALSE
    PROVE  Spec => []CommandByteMerged
<1>1. LoadInv /\ [Next]_vars => LoadInv' BY StepKeepsLoadInv
<1>2. LoadInv => CommandByteMerged
  BY CommandBits DEF LoadInv, TypeOK, CommandInv, CommandByteMerged
<1> QED BY <1>1, <1>2, InitLoadInv, PTL DEF Spec
-----------------------------------------------------------------------------
(* The keys: the bytes still to be read lead from what the driver knows (m, *)
(* the modifiers, and r, what it reported) to what the user did (H, what is *)
(* held now, and t, the keys typed), by way of what was held, h, and the   *)
(* counts c of typed keys after each of them.                              *)
Hands == [held : SUBSET Keys, both : BOOLEAN]
OneShift(g) == Shifts \subseteq g.held => g.both

PressTo(g, k) == [held |-> g.held \cup {k}, both |-> BothAfter(g.held \cup {k}, g.both)]
ReleaseTo(g, k) == [held |-> g.held \ {k}, both |-> BothAfter(g.held \ {k}, g.both)]
TypedAs(k, g) == [key |-> k, down |-> ModsOf(g.held), sure |-> Sure(g.held, g.both)]
Knows(m, g) == Agrees(m, ModsOf(g.held), Sure(g.held, g.both))

PressStep(v, g1, g2, c1, c2, t) ==
    /\ v \in Keys /\ v \notin g1.held /\ g2 = PressTo(g1, v)
    /\ c2 = c1 + 1 /\ c2 <= Len(t) /\ t[c2] = TypedAs(v, g2)

ReleaseStep(v, g1, g2, c1, c2) ==
    /\ c2 = c1
    /\ \E k \in g1.held : v = k + SC_RELEASE /\ g2 = ReleaseTo(g1, k)

KeyRun(P, h, c, t) ==
    /\ h \in [0..Len(P) -> Hands] /\ c \in [0..Len(P) -> Nat]
    /\ \A j \in 0..Len(P) : OneShift(h[j])
    /\ \A j \in 1..Len(P) : \/ PressStep(P[j], h[j - 1], h[j], c[j - 1], c[j], t)
                           \/ ReleaseStep(P[j], h[j - 1], h[j], c[j - 1], c[j])

KeyEnds(P, m, r, H, t, h, c) ==
    Knows(m, h[0]) /\ c[0] = Len(r) /\ h[Len(P)] = H /\ c[Len(P)] = Len(t)

Follows(r, t) == \A i \in 1..Len(r) : i <= Len(t) /\ r[i] = t[i]
Tells(r, t) == \A i \in 1..Len(r) : i <= Len(t) /\ Reports(r[i], t[i])

KeysFollow(P, m, r, H, t) ==
    /\ m \in SUBSET {"ctrl", "shift"}
    /\ \E h, c : KeyRun(P, h, c, t) /\ KeyEnds(P, m, r, H, t, h, c)
    /\ Tells(r, t)

Holding == [held |-> held, both |-> bothShifts]

LEMMA FollowsIsPrefix ==
    ASSUME NEW S, NEW r \in Seq(S), NEW t \in Seq(S), Follows(r, t)
    PROVE  IsPrefix(r, t)
<1>1. Len(r) \in Nat /\ Len(t) \in Nat BY LenProperties
<1>2. Len(r) <= Len(t)
  <2>1. CASE Len(r) = 0 BY <1>1, <2>1
  <2>2. CASE Len(r) > 0 BY <1>1, <2>2 DEF Follows
  <2> QED BY <1>1, <2>1, <2>2
<1>3. SubSeq(r, 1, Len(r)) = r BY SubSeqFull
<1>4. SubSeq(t, 1, Len(r)) = r
  <2>1. \A i \in 1..Len(r) : t[i] \in S BY <1>1, <1>2, ElementOfSeq
  <2>2. /\ SubSeq(t, 1, Len(r)) \in Seq(S)
        /\ Len(SubSeq(t, 1, Len(r))) = Len(r)
        /\ \A i \in 1..Len(r) : SubSeq(t, 1, Len(r))[i] = t[i]
    BY <1>1, <2>1, SubSeqProperties
  <2> QED BY <2>2, SeqEqual DEF Follows
<1> QED BY <1>2, <1>3, <1>4 DEF IsPrefix

LEMMA TellsInOrder ==
    ASSUME reported \in Seq(Key), typed \in Seq(Typed), Tells(reported, typed)
    PROVE  KeysInOrder
<1>1. Len(reported) \in Nat /\ Len(typed) \in Nat BY LenProperties
<1>2. Len(reported) <= Len(typed)
  <2>1. CASE Len(reported) = 0 BY <1>1, <2>1
  <2>2. CASE Len(reported) > 0 BY <1>1, <2>2 DEF Tells
  <2> QED BY <1>1, <2>1, <2>2
<1> QED BY <1>2 DEF KeysInOrder, Tells

(* What the driver makes of a byte is what follows from what it knew.      *)
LEMMA HandsMove ==
    ASSUME NEW g \in Hands
    PROVE  /\ \A k \in Keys : PressTo(g, k) \in Hands /\ OneShift(PressTo(g, k))
           /\ \A k \in Keys : ReleaseTo(g, k) \in Hands /\ OneShift(ReleaseTo(g, k))
<1>1. \A keys \in SUBSET Keys : \A b \in BOOLEAN :
          /\ BothAfter(keys, b) \in BOOLEAN
          /\ Shifts \subseteq keys => BothAfter(keys, b)
  BY DEF BothAfter, Shifts
<1>2. \A k \in Keys : g.held \cup {k} \in SUBSET Keys /\ g.held \ {k} \in SUBSET Keys BY DEF Hands
<1>3. g.both \in BOOLEAN BY DEF Hands
<1> QED BY <1>1, <1>2, <1>3 DEF Hands, OneShift, PressTo, ReleaseTo

Scancodes ==
    /\ Keys = {42, 54, 29, 30} /\ Shifts = {42, 54} /\ SC_LCTRL = 29 /\ SC_RELEASE = 128

LEMMA ModsFollow ==
    ASSUME NEW g \in Hands, OneShift(g), NEW m \in SUBSET {"ctrl", "shift"}, Knows(m, g)
    PROVE  /\ \A k \in Keys : Knows(ModsAfter(m, k), PressTo(g, k))
           /\ \A k \in g.held : /\ Knows(ModsAfter(m, k + SC_RELEASE), ReleaseTo(g, k))
                               /\ k + SC_RELEASE \notin Keys
           /\ \A v \in 0..255 : ModsAfter(m, v) \in SUBSET {"ctrl", "shift"}
<1>0. Scancodes /\ g.held \in SUBSET Keys /\ g.both \in BOOLEAN
  BY DEF Scancodes, Keys, Shifts, SC_A, SC_LCTRL, SC_LSHIFT, SC_RSHIFT, SC_RELEASE, Hands
<1>1. ASSUME NEW h \in SUBSET Keys, NEW b \in BOOLEAN, NEW x \in SUBSET {"ctrl", "shift"}
      PROVE  Agrees(x, ModsOf(h), Sure(h, b)) <=>
                /\ "ctrl" \in x <=> SC_LCTRL \in h
                /\ "shift" \in x => Shifts \cap h # {}
                /\ Shifts \cap h # {} /\ ~b => "shift" \in x
  BY DEF Agrees, ModsOf, Sure
<1>2. ASSUME NEW v \in 0..255
      PROVE  /\ ModsAfter(m, v) \in SUBSET {"ctrl", "shift"}
             /\ v \in Shifts => ModsAfter(m, v) = m \cup {"shift"}
             /\ v = SC_LCTRL => ModsAfter(m, v) = m \cup {"ctrl"}
             /\ v - SC_RELEASE \in Shifts => ModsAfter(m, v) = m \ {"shift"}
             /\ v = SC_LCTRL + SC_RELEASE => ModsAfter(m, v) = m \ {"ctrl"}
             /\ v \notin Shifts /\ v # SC_LCTRL /\ v - SC_RELEASE \notin Shifts
                /\ v # SC_LCTRL + SC_RELEASE => ModsAfter(m, v) = m
  <2>1. CASE v \in Shifts
    <3>1. v # SC_LCTRL /\ v - SC_RELEASE \notin Shifts /\ v # SC_LCTRL + SC_RELEASE BY <1>0, <2>1 DEF Scancodes
    <3>2. ModsAfter(m, v) = m \cup {"shift"} BY <2>1, <3>1 DEF ModsAfter
    <3> QED BY <2>1, <3>1, <3>2
  <2>2. CASE v = SC_LCTRL
    <3>1. v \notin Shifts /\ v - SC_RELEASE \notin Shifts /\ v # SC_LCTRL + SC_RELEASE BY <1>0, <2>2 DEF Scancodes
    <3>2. ModsAfter(m, v) = m \cup {"ctrl"} BY <2>2, <3>1 DEF ModsAfter
    <3> QED BY <2>2, <3>1, <3>2
  <2>3. CASE v - SC_RELEASE \in Shifts
    <3>1. v \notin Shifts /\ v # SC_LCTRL /\ v # SC_LCTRL + SC_RELEASE BY <1>0, <2>3 DEF Scancodes
    <3>2. ModsAfter(m, v) = m \ {"shift"} BY <2>3, <3>1 DEF ModsAfter
    <3> QED BY <2>3, <3>1, <3>2
  <2>4. CASE v = SC_LCTRL + SC_RELEASE
    <3>1. v \notin Shifts /\ v # SC_LCTRL /\ v - SC_RELEASE \notin Shifts BY <1>0, <2>4 DEF Scancodes
    <3>2. ModsAfter(m, v) = m \ {"ctrl"} BY <2>4, <3>1 DEF ModsAfter
    <3> QED BY <2>4, <3>1, <3>2
  <2>5. CASE v \notin Shifts /\ v # SC_LCTRL /\ v - SC_RELEASE \notin Shifts /\ v # SC_LCTRL + SC_RELEASE
    <3>1. ModsAfter(m, v) = m BY <2>5 DEF ModsAfter
    <3> QED BY <2>5, <3>1
  <2> QED BY <2>1, <2>2, <2>3, <2>4, <2>5
<1>3. ASSUME NEW k \in Keys PROVE Knows(ModsAfter(m, k), PressTo(g, k))
  <2> DEFINE h == g.held \cup {k}
             x == ModsAfter(m, k)
             b == BothAfter(h, g.both)
  <2>0. k \in 0..255 BY <1>0 DEF Scancodes
  <2>1. h \in SUBSET Keys /\ b \in BOOLEAN BY <1>0 DEF BothAfter
  <2>2. x \in SUBSET {"ctrl", "shift"} BY <1>2, <2>0
  <2>3. CASE k \in Shifts
    <3>1. x = m \cup {"shift"} /\ k # SC_LCTRL BY <2>0, <1>0, <1>2, <2>3 DEF Scancodes
    <3> QED BY <1>0, <1>1, <2>1, <2>2, <2>3, <3>1 DEF Knows, PressTo
  <2>4. CASE k = SC_LCTRL
    <3>1. x = m \cup {"ctrl"} /\ k \notin Shifts BY <1>0, <1>2, <2>0, <2>4 DEF Scancodes
    <3>2. Shifts \cap h = Shifts \cap g.held BY <3>1
    <3>3. Shifts \cap h # {} /\ ~b => ~g.both BY <3>2 DEF BothAfter
    <3> QED BY <1>0, <1>1, <2>1, <2>2, <2>4, <3>1, <3>2, <3>3 DEF Knows, PressTo
  <2>5. CASE k \notin Shifts /\ k # SC_LCTRL
    <3>1. x = m BY <1>0, <1>2, <2>0, <2>5 DEF Scancodes
    <3>2. Shifts \cap h = Shifts \cap g.held BY <2>5
    <3>3. Shifts \cap h # {} /\ ~b => ~g.both BY <3>2 DEF BothAfter
    <3> QED BY <1>0, <1>1, <2>1, <2>2, <2>5, <3>1, <3>2, <3>3 DEF Knows, PressTo
  <2> QED BY <2>3, <2>4, <2>5
<1>4. ASSUME NEW k \in g.held PROVE Knows(ModsAfter(m, k + SC_RELEASE), ReleaseTo(g, k))
  <2> DEFINE h == g.held \ {k}
             x == ModsAfter(m, k + SC_RELEASE)
             b == BothAfter(h, g.both)
  <2>0. k \in Keys /\ k + SC_RELEASE \in 0..255 /\ (k + SC_RELEASE) - SC_RELEASE = k BY <1>0 DEF Scancodes
  <2>1. h \in SUBSET Keys /\ b \in BOOLEAN BY <1>0 DEF BothAfter
  <2>2. x \in SUBSET {"ctrl", "shift"} BY <1>2, <2>0
  <2>3. CASE k \in Shifts
    <3>1. x = m \ {"shift"} /\ k # SC_LCTRL
      BY <1>0, <1>2, <2>0, <2>3 DEF Scancodes
    <3>2. Shifts \cap h # {} => Shifts \subseteq g.held BY <1>0, <2>3 DEF Scancodes
    <3>3. Shifts \cap h # {} => b BY <3>2 DEF OneShift, BothAfter
    <3> QED BY <1>0, <1>1, <2>1, <2>2, <3>1, <3>3 DEF Knows, ReleaseTo
  <2>4. CASE k = SC_LCTRL
    <3>1. x = m \ {"ctrl"} /\ k \notin Shifts BY <1>0, <1>2, <2>0, <2>4 DEF Scancodes
    <3>2. Shifts \cap h = Shifts \cap g.held BY <3>1
    <3>3. Shifts \cap h # {} /\ ~b => ~g.both BY <3>2 DEF BothAfter
    <3> QED BY <1>0, <1>1, <2>1, <2>2, <2>4, <3>1, <3>2, <3>3 DEF Knows, ReleaseTo
  <2>5. CASE k \notin Shifts /\ k # SC_LCTRL
    <3>1. x = m BY <1>0, <1>2, <2>0, <2>5 DEF Scancodes
    <3>2. Shifts \cap h = Shifts \cap g.held BY <2>5
    <3>3. Shifts \cap h # {} /\ ~b => ~g.both BY <3>2 DEF BothAfter
    <3> QED BY <1>0, <1>1, <2>1, <2>2, <2>5, <3>1, <3>2, <3>3 DEF Knows, ReleaseTo
  <2> QED BY <2>3, <2>4, <2>5
<1>5. ASSUME NEW k \in g.held PROVE k + SC_RELEASE \notin Keys
  BY <1>0 DEF Scancodes
<1> QED BY <1>2, <1>3, <1>4, <1>5

NoHands == [held |-> {}, both |-> FALSE]
LEMMA NoKeys == KeysFollow(<<>>, {}, <<>>, NoHands, <<>>)
<1> DEFINE h == [j \in 0..0 |-> NoHands]
           c == [j \in 0..0 |-> 0]
<1>0. NoHands \in Hands /\ OneShift(NoHands) /\ Knows({}, NoHands)
  BY DEF NoHands, Hands, OneShift, Knows, Agrees, Sure, ModsOf, Shifts
<1>1. KeyRun(<<>>, h, c, <<>>)
  <2> HIDE DEF NoHands
  <2> QED BY <1>0 DEF KeyRun
<1>2. KeyEnds(<<>>, {}, <<>>, NoHands, <<>>, h, c)
  <2> HIDE DEF NoHands
  <2> QED BY <1>0 DEF KeyEnds
<1>3. Tells(<<>>, <<>>) BY DEF Tells
<1> HIDE DEF h, c
<1> QED BY <1>1, <1>2, <1>3 DEF KeysFollow

LEMMA PressFollows ==
    ASSUME NEW P \in Seq(0..255), NEW m, NEW r \in Seq(Key), NEW H \in Hands, NEW t \in Seq(Typed),
           KeysFollow(P, m, r, H, t),
           NEW k \in Keys, k \notin H.held
    PROVE  KeysFollow(Append(P, k), m, r, PressTo(H, k), Append(t, TypedAs(k, PressTo(H, k))))
<1> DEFINE n == Len(P)
           Q == Append(P, k)
           u == Append(t, TypedAs(k, PressTo(H, k)))
<1>1. PICK h, c : KeyRun(P, h, c, t) /\ KeyEnds(P, m, r, H, t, h, c) BY DEF KeysFollow
<1> DEFINE h2 == [j \in 0..n + 1 |-> IF j <= n THEN h[j] ELSE PressTo(H, k)]
           c2 == [j \in 0..n + 1 |-> IF j <= n THEN c[j] ELSE Len(t) + 1]
<1>0. k \in Keys OBVIOUS
<1>2. n \in Nat /\ Len(t) \in Nat /\ Len(r) \in Nat BY LenProperties
<1>3. k \in 0..255 BY DEF Keys, SC_LSHIFT, SC_RSHIFT, SC_LCTRL, SC_A
<1>4. Len(Q) = n + 1 /\ Q[n + 1] = k /\ \A j \in 1..n : Q[j] = P[j] BY <1>3, AppendProperties
<1>5. TypedAs(k, PressTo(H, k)) \in Typed
  BY DEF TypedAs, Typed, ModsOf, Sure
<1>6. /\ Len(u) = Len(t) + 1 /\ u[Len(t) + 1] = TypedAs(k, PressTo(H, k))
      /\ \A j \in 1..Len(t) : u[j] = t[j]
  BY <1>5, AppendProperties
<1> HIDE DEF Q, u
<1>7. h2 \in [0..n + 1 -> Hands] /\ c2 \in [0..n + 1 -> Nat] BY <1>1, <1>2, <1>0, HandsMove DEF KeyRun
<1>8. \A j \in 0..n + 1 : OneShift(h2[j])
  <2>1. \A j \in 0..n : h2[j] = h[j] BY <1>2
  <2>2. h2[n + 1] = PressTo(H, k) BY <1>2
  <2>4. OneShift(PressTo(H, k)) BY HandsMove
  <2> QED BY <1>1, <1>2, <2>1, <2>2, <2>4 DEF KeyRun
<1>9. \A j \in 1..n + 1 : \/ PressStep(Q[j], h2[j - 1], h2[j], c2[j - 1], c2[j], u)
                         \/ ReleaseStep(Q[j], h2[j - 1], h2[j], c2[j - 1], c2[j])
  <2>1. ASSUME NEW j \in 1..n
        PROVE \/ PressStep(Q[j], h2[j - 1], h2[j], c2[j - 1], c2[j], u)
              \/ ReleaseStep(Q[j], h2[j - 1], h2[j], c2[j - 1], c2[j])
    <3>1. h2[j] = h[j] /\ h2[j - 1] = h[j - 1] /\ c2[j] = c[j] /\ c2[j - 1] = c[j - 1] /\ Q[j] = P[j]
      BY <1>2, <1>4
    <3>2. CASE PressStep(P[j], h[j - 1], h[j], c[j - 1], c[j], t)
      <4>1. c[j - 1] \in Nat
        <5>1. c \in [0..n -> Nat] /\ j - 1 \in 0..n BY <1>1, <1>2 DEF KeyRun
        <5> QED BY <5>1
      <4>2. c[j] \in 1..Len(t) BY <1>2, <3>2, <4>1 DEF PressStep
      <4>3. u[c[j]] = t[c[j]] /\ c[j] <= Len(u) BY <1>2, <1>6, <4>2
      <4>4. PressStep(P[j], h[j - 1], h[j], c[j - 1], c[j], u)
        <5> HIDE DEF n, h2, c2
        <5> QED BY <3>2, <4>3 DEF PressStep
      <4> HIDE DEF h2, c2
      <4> QED BY <3>1, <4>4
    <3>3. CASE ReleaseStep(P[j], h[j - 1], h[j], c[j - 1], c[j]) BY <3>1, <3>3
    <3> QED BY <1>1, <3>2, <3>3 DEF KeyRun
  <2>2. PressStep(Q[n + 1], h2[n], h2[n + 1], c2[n], c2[n + 1], u)
    <3>1. h2[n] = H /\ h2[n + 1] = PressTo(H, k) /\ c2[n] = Len(t) /\ c2[n + 1] = Len(t) + 1
      BY <1>1, <1>2 DEF KeyEnds
    <3> QED BY <1>2, <1>4, <1>6, <3>1 DEF PressStep
  <2>3. (n + 1) - 1 = n BY <1>2
  <2>4. \A j \in 1..n + 1 : j \in 1..n \/ j = n + 1 BY <1>2
  <2> HIDE DEF h2, c2
  <2> QED BY <2>1, <2>2, <2>3, <2>4
<1>10. KeyRun(Q, h2, c2, u) BY <1>4, <1>7, <1>8, <1>9 DEF KeyRun
<1>11. KeyEnds(Q, m, r, PressTo(H, k), u, h2, c2) BY <1>1, <1>2, <1>4, <1>6 DEF KeyEnds
<1>12. Tells(r, u) BY <1>2, <1>6 DEF KeysFollow, Tells
<1> QED BY <1>10, <1>11, <1>12 DEF KeysFollow, Q, u

LEMMA ReleaseFollows ==
    ASSUME NEW P \in Seq(0..255), NEW m, NEW r \in Seq(Key), NEW H \in Hands, NEW t \in Seq(Typed),
           KeysFollow(P, m, r, H, t), NEW k \in H.held
    PROVE  KeysFollow(Append(P, k + SC_RELEASE), m, r, ReleaseTo(H, k), t)
<1> DEFINE n == Len(P)
           Q == Append(P, k + SC_RELEASE)
<1>1. PICK h, c : KeyRun(P, h, c, t) /\ KeyEnds(P, m, r, H, t, h, c) BY DEF KeysFollow
<1> DEFINE h2 == [j \in 0..n + 1 |-> IF j <= n THEN h[j] ELSE ReleaseTo(H, k)]
           c2 == [j \in 0..n + 1 |-> IF j <= n THEN c[j] ELSE Len(t)]
<1>0. k \in Keys BY DEF Hands
<1>2. n \in Nat /\ Len(t) \in Nat BY LenProperties
<1>3. k + SC_RELEASE \in 0..255
  <2> QED BY <1>0 DEF Keys, SC_LSHIFT, SC_RSHIFT, SC_LCTRL, SC_A, SC_RELEASE
<1>4. Len(Q) = n + 1 /\ Q[n + 1] = k + SC_RELEASE /\ \A j \in 1..n : Q[j] = P[j]
  BY <1>3, AppendProperties
<1> HIDE DEF Q
<1>7. h2 \in [0..n + 1 -> Hands] /\ c2 \in [0..n + 1 -> Nat] BY <1>1, <1>2, <1>0, HandsMove DEF KeyRun
<1>8. \A j \in 0..n + 1 : OneShift(h2[j])
  <2>1. \A j \in 0..n : h2[j] = h[j] BY <1>2
  <2>2. h2[n + 1] = ReleaseTo(H, k) BY <1>2
  <2>4. OneShift(ReleaseTo(H, k)) BY <1>0, HandsMove
  <2> QED BY <1>1, <1>2, <2>1, <2>2, <2>4 DEF KeyRun
<1>9. \A j \in 1..n + 1 : \/ PressStep(Q[j], h2[j - 1], h2[j], c2[j - 1], c2[j], t)
                         \/ ReleaseStep(Q[j], h2[j - 1], h2[j], c2[j - 1], c2[j])
  <2>1. ASSUME NEW j \in 1..n
        PROVE \/ PressStep(Q[j], h2[j - 1], h2[j], c2[j - 1], c2[j], t)
              \/ ReleaseStep(Q[j], h2[j - 1], h2[j], c2[j - 1], c2[j])
    <3>1. h2[j] = h[j] /\ h2[j - 1] = h[j - 1] /\ c2[j] = c[j] /\ c2[j - 1] = c[j - 1] /\ Q[j] = P[j]
      BY <1>2, <1>4
    <3> HIDE DEF h2, c2
    <3> QED BY <1>1, <3>1 DEF KeyRun
  <2>2. ReleaseStep(Q[n + 1], h2[n], h2[n + 1], c2[n], c2[n + 1])
    <3>1. h2[n] = H /\ h2[n + 1] = ReleaseTo(H, k) /\ c2[n] = Len(t) /\ c2[n + 1] = Len(t)
      BY <1>1, <1>2 DEF KeyEnds
    <3> QED BY <1>4, <3>1 DEF ReleaseStep
  <2>3. (n + 1) - 1 = n BY <1>2
  <2>4. \A j \in 1..n + 1 : j \in 1..n \/ j = n + 1 BY <1>2
  <2> HIDE DEF h2, c2
  <2> QED BY <2>1, <2>2, <2>3, <2>4
<1>10. KeyRun(Q, h2, c2, t) BY <1>4, <1>7, <1>8, <1>9 DEF KeyRun
<1>11. KeyEnds(Q, m, r, ReleaseTo(H, k), t, h2, c2) BY <1>1, <1>2, <1>4 DEF KeyEnds
<1> QED BY <1>10, <1>11 DEF KeysFollow, Q

(* The handler's step: it reads the first byte.                            *)
LEMMA ReadFollows ==
    ASSUME NEW P \in Seq(0..255), NEW m, NEW r \in Seq(Key), NEW H \in Hands, NEW t \in Seq(Typed),
           KeysFollow(P, m, r, H, t), P # <<>>,
           NEW r2,
           r2 = IF P[1] \in Keys THEN Append(r, [key |-> P[1], mods |-> ModsAfter(m, P[1])]) ELSE r
    PROVE  KeysFollow(Tail(P), ModsAfter(m, P[1]), r2, H, t)
<1> DEFINE n == Len(P)
           Q == Tail(P)
<1>1. PICK h, c : KeyRun(P, h, c, t) /\ KeyEnds(P, m, r, H, t, h, c) BY DEF KeysFollow
<1> DEFINE h2 == [j \in 0..n - 1 |-> h[j + 1]]
           c2 == [j \in 0..n - 1 |-> c[j + 1]]
<1>2. n \in Nat \ {0} /\ Len(t) \in Nat /\ Len(r) \in Nat BY LenProperties, EmptySeq
<1>3. Len(Q) = n - 1 /\ \A j \in 1..n - 1 : Q[j] = P[j + 1] BY HeadTailProperties
<1> HIDE DEF Q
<1>4. h2 \in [0..n - 1 -> Hands] /\ c2 \in [0..n - 1 -> Nat]
  <2>1. h \in [0..n -> Hands] /\ c \in [0..n -> Nat] BY <1>1 DEF KeyRun
  <2>2. \A j \in 0..n - 1 : j + 1 \in 0..n BY <1>2
  <2>3. h2 \in [0..n - 1 -> Hands] BY <2>1, <2>2
  <2>4. c2 \in [0..n - 1 -> Nat] BY <2>1, <2>2
  <2> QED BY <2>3, <2>4
<1>5. \A j \in 0..n - 1 : OneShift(h2[j]) BY <1>1, <1>2 DEF KeyRun
<1>6. ASSUME NEW j \in 1..n - 1
      PROVE \/ PressStep(Q[j], h2[j - 1], h2[j], c2[j - 1], c2[j], t)
            \/ ReleaseStep(Q[j], h2[j - 1], h2[j], c2[j - 1], c2[j])
  <2>1. h2[j] = h[j + 1] /\ h2[j - 1] = h[j] /\ c2[j] = c[j + 1] /\ c2[j - 1] = c[j] /\ Q[j] = P[j + 1]
    BY <1>2, <1>3
  <2>2. j + 1 \in 1..n /\ (j + 1) - 1 = j BY <1>2
  <2>3. \A i \in 1..n : \/ PressStep(P[i], h[i - 1], h[i], c[i - 1], c[i], t)
                       \/ ReleaseStep(P[i], h[i - 1], h[i], c[i - 1], c[i])
    BY <1>1 DEF KeyRun
  <2>4. \/ PressStep(P[j + 1], h[j], h[j + 1], c[j], c[j + 1], t)
        \/ ReleaseStep(P[j + 1], h[j], h[j + 1], c[j], c[j + 1])
    BY <2>2, <2>3
  <2> HIDE DEF h2, c2
  <2> QED BY <2>1, <2>4
<1>7. KeyRun(Q, h2, c2, t)
  <2> HIDE DEF h2, c2
  <2> QED BY <1>3, <1>4, <1>5, <1>6 DEF KeyRun
<1>8. h2[0] = h[1] /\ c2[0] = c[1] /\ h2[n - 1] = H /\ c2[n - 1] = Len(t)
  BY <1>1, <1>2 DEF KeyEnds
<1>9. h[0] \in Hands /\ OneShift(h[0]) /\ m \in SUBSET {"ctrl", "shift"} /\ Knows(m, h[0]) /\ c[0] = Len(r)
  <2>1. 0 \in 0..n BY <1>2
  <2>2. h \in [0..n -> Hands] /\ \A j \in 0..n : OneShift(h[j]) BY <1>1 DEF KeyRun
  <2>3. m \in SUBSET {"ctrl", "shift"} BY DEF KeysFollow
  <2> QED BY <1>1, <2>1, <2>2, <2>3 DEF KeyEnds
<1>10. \/ PressStep(P[1], h[0], h[1], c[0], c[1], t) \/ ReleaseStep(P[1], h[0], h[1], c[0], c[1])
  <2>1. 1 \in 1..n /\ 1 - 1 = 0 BY <1>2
  <2>2. \A i \in 1..n : \/ PressStep(P[i], h[i - 1], h[i], c[i - 1], c[i], t)
                       \/ ReleaseStep(P[i], h[i - 1], h[i], c[i - 1], c[i])
    BY <1>1 DEF KeyRun
  <2> QED BY <2>1, <2>2
<1>11. /\ ModsAfter(m, P[1]) \in SUBSET {"ctrl", "shift"} /\ Knows(ModsAfter(m, P[1]), h[1])
       /\ c[1] = Len(r2) /\ Tells(r2, t)
  <2>0. ModsAfter(m, P[1]) \in SUBSET {"ctrl", "shift"}
    <3>1. 1 \in 1..Len(P) BY <1>2
    <3>2. P[1] \in 0..255 BY <3>1, ElementOfSeq
    <3> QED BY <1>9, <3>2, ModsFollow
  <2>1. Tells(r, t) BY DEF KeysFollow
  <2>2. CASE PressStep(P[1], h[0], h[1], c[0], c[1], t)
    <3>1. P[1] \in Keys /\ h[1] = PressTo(h[0], P[1]) BY <2>2 DEF PressStep
    <3>2. Knows(ModsAfter(m, P[1]), h[1]) BY <1>9, <3>1, ModsFollow
    <3>3. t[Len(r) + 1] = TypedAs(P[1], h[1]) /\ Len(r) + 1 <= Len(t) /\ c[1] = Len(r) + 1
      BY <1>9, <2>2 DEF PressStep
    <3> DEFINE call == [key |-> P[1], mods |-> ModsAfter(m, P[1])]
    <3>4. call \in Key BY <2>0, <3>1 DEF Key
    <3>5. Reports(call, t[Len(r) + 1]) BY <3>2, <3>3 DEF Reports, TypedAs, Knows
    <3>6. r2 = Append(r, call) BY <3>1
    <3> HIDE DEF call
    <3>7. Len(r2) = Len(r) + 1 /\ r2[Len(r) + 1] = call /\ \A j \in 1..Len(r) : r2[j] = r[j]
      BY <3>4, <3>6, AppendProperties
    <3>8. Tells(r2, t) BY <1>2, <2>1, <3>3, <3>5, <3>7 DEF Tells
    <3> QED BY <2>0, <3>2, <3>3, <3>7, <3>8
  <2>3. CASE ReleaseStep(P[1], h[0], h[1], c[0], c[1])
    <3>1. PICK k \in h[0].held : P[1] = k + SC_RELEASE /\ h[1] = ReleaseTo(h[0], k) BY <2>3 DEF ReleaseStep
    <3>2. Knows(ModsAfter(m, P[1]), h[1]) /\ P[1] \notin Keys BY <1>9, <3>1, ModsFollow
    <3>3. r2 = r /\ c[1] = Len(r) BY <1>9, <2>3, <3>2 DEF ReleaseStep
    <3> QED BY <2>0, <2>1, <3>2, <3>3
  <2> QED BY <1>10, <2>2, <2>3
<1>12. KeyEnds(Q, ModsAfter(m, P[1]), r2, H, t, h2, c2)
  <2> HIDE DEF h2, c2
  <2> QED BY <1>3, <1>8, <1>11 DEF KeyEnds
<1> QED BY <1>7, <1>11, <1>12 DEF KeysFollow, Q
-----------------------------------------------------------------------------
(* The buttons: likewise, with the buttons down d and the counts e of clicks *)
(* after every byte; only a packet's first byte changes them.  o is the    *)
(* driver's offset, b0 its buffer[0], bt its buttons, r its callbacks.     *)
Buttons == {1, 2}
Toggle(D, b) == IF b \in D THEN D \ {b} ELSE D \cup {b}

ChangeStep(d1, d2, e1, e2, t) ==
    \/ d2 = d1 /\ e2 = e1
    \/ \E b \in Buttons : /\ d2 = Toggle(d1, b) /\ e2 = e1 + 1 /\ e2 <= Len(t)
                          /\ t[e2] = [button |-> b, down |-> b \in d2]

ByteStep(v, first, d1, d2, e1, e2, t) ==
    IF first THEN v = Info(d2) /\ ChangeStep(d1, d2, e1, e2, t) ELSE d2 = d1 /\ e2 = e1

ButtonRun(P, o, d, e, t) ==
    /\ d \in [0..Len(P) -> SUBSET Buttons] /\ e \in [0..Len(P) -> Nat]
    /\ (o + Len(P)) % 3 = 0
    /\ \A j \in 1..Len(P) : ByteStep(P[j], (o + j) % 3 = 1, d[j - 1], d[j], e[j - 1], e[j], t)

ButtonEnds(P, bt, r, D, t, d, e) ==
    bt = Info(d[0]) /\ e[0] = Len(r) /\ d[Len(P)] = D /\ e[Len(P)] = Len(t)

ButtonsFollow(P, o, b0, bt, r, D, t) ==
    /\ \E d, e : ButtonRun(P, o, d, e, t) /\ ButtonEnds(P, bt, r, D, t, d, e)
    /\ o # 0 => b0 = bt
    /\ Follows(r, t)

ButtonsTyped(P, o, r, D, t) ==
    /\ P \in Seq(0..255) /\ o \in 0..2
    /\ r \in Seq(Click) /\ D \in SUBSET Buttons /\ t \in Seq(Click)

PacketOf(D, packet) ==
    D \in SUBSET Buttons /\ \E x, y \in 0..255 : packet = <<Info(D), x, y>>

Clicks(D, D2, t, t2) ==
    /\ t2 \in Seq(Click) /\ Len(t) <= Len(t2) /\ \A i \in 1..Len(t) : t2[i] = t[i]
    /\ ChangeStep(D, D2, Len(t), Len(t2), t2)

LEMMA InfoBits ==
    ASSUME NEW D \in SUBSET Buttons
    PROVE  /\ Info(D) \in 0..3 /\ Info(D) % 8 = Info(D)
           /\ HasBit(Info(D), 1) <=> 1 \in D
           /\ HasBit(Info(D), 2) <=> 2 \in D
           /\ ~HasBit(Info(D), 4)
<1>1. Info(D) \in 0..3 BY DEF Info
<1>2. Info(D) % 8 = Info(D) BY <1>1
<1>3. HasBit(Info(D), 1) <=> 1 \in D BY DEF Info, HasBit
<1>4. HasBit(Info(D), 2) <=> 2 \in D BY DEF Info, HasBit
<1>5. ~HasBit(Info(D), 4) BY <1>1 DEF HasBit
<1> QED BY <1>1, <1>2, <1>3, <1>4, <1>5

(* The loop over the three bits calls back for the button that changed.    *)
LEMMA EventsOfChange ==
    ASSUME NEW D \in SUBSET Buttons, buttons = Info(D)
    PROVE  /\ ButtonEvents(Info(D)) = <<>>
           /\ \A b \in Buttons :
                  ButtonEvents(Info(Toggle(D, b))) = <<[button |-> b, down |-> b \in Toggle(D, b)]>>
<1>1. ButtonEvents(Info(D)) = <<>>
  <2>1. ButtonEvent(Info(D), 1) = <<>> /\ ButtonEvent(Info(D), 2) = <<>> /\ ButtonEvent(Info(D), 4) = <<>>
    BY DEF ButtonEvent
  <2> QED BY <2>1 DEF ButtonEvents
<1>2. ASSUME NEW b \in Buttons
      PROVE  ButtonEvents(Info(Toggle(D, b))) = <<[button |-> b, down |-> b \in Toggle(D, b)]>>
  <2> DEFINE N == Toggle(D, b)
             call == [button |-> b, down |-> b \in N]
  <2>1. N \in SUBSET Buttons /\ \A x \in Buttons : (x \in N <=> x \in D) <=> x # b
    BY DEF Toggle, Buttons
  <2> HIDE DEF N
  <2>2. ButtonEvent(Info(N), 4) = <<>>
    <3>1. ~HasBit(Info(N), 4) /\ ~HasBit(buttons, 4) BY <2>1, InfoBits
    <3>2. HasBit(Info(N), 4) = HasBit(buttons, 4) BY <3>1 DEF HasBit
    <3> QED BY <3>2 DEF ButtonEvent
  <2>3. \A x \in Buttons : HasBit(Info(N), x) <=> x \in N
    BY <2>1, InfoBits DEF Buttons
  <2>4. \A x \in Buttons : HasBit(buttons, x) <=> x \in D BY InfoBits DEF Buttons
  <2>5. ButtonEvent(Info(N), b) = <<call>>
    <3>1. HasBit(Info(N), b) # HasBit(buttons, b) BY <2>1, <2>3, <2>4 DEF HasBit
    <3>2. HasBit(Info(N), b) = (b \in N) BY <2>3 DEF HasBit
    <3> QED BY <3>1, <3>2 DEF ButtonEvent
  <2>6. \A x \in Buttons : x # b => ButtonEvent(Info(N), x) = <<>>
    <3> SUFFICES ASSUME NEW x \in Buttons, x # b PROVE HasBit(Info(N), x) = HasBit(buttons, x)
      BY DEF ButtonEvent
    <3> QED BY <2>1, <2>3, <2>4 DEF HasBit
  <2>7. <<call>> \in Seq({call}) OBVIOUS
  <2>8. CASE b = 1
    <3>1. ButtonEvents(Info(N)) = (<<call>> \o <<>>) \o <<>>
      BY <2>2, <2>5, <2>6, <2>8 DEF ButtonEvents, Buttons
    <3> QED BY <2>7, <3>1, ConcatEmptySeq DEF N
  <2>9. CASE b = 2
    <3>1. ButtonEvents(Info(N)) = (<<>> \o <<call>>) \o <<>>
      BY <2>2, <2>5, <2>6, <2>9 DEF ButtonEvents, Buttons
    <3> QED BY <2>7, <3>1, ConcatEmptySeq DEF N
  <2> QED BY <2>8, <2>9 DEF Buttons
<1> QED BY <1>1, <1>2

LEMMA NoButtons ==
    ASSUME NEW b0
    PROVE  ButtonsFollow(<<>>, 0, b0, 0, <<>>, {}, <<>>)
<1> DEFINE d == [j \in 0..0 |-> {}]
           e == [j \in 0..0 |-> 0]
<1>1. ButtonRun(<<>>, 0, d, e, <<>>) BY DEF ButtonRun
<1>2. ButtonEnds(<<>>, 0, <<>>, {}, <<>>, d, e) BY DEF ButtonEnds, Info
<1>3. Follows(<<>>, <<>>) BY DEF Follows
<1> HIDE DEF d, e
<1> QED BY <1>1, <1>2, <1>3 DEF ButtonsFollow

LEMMA NextPacket ==
    ASSUME NEW o \in 0..2, NEW n \in Nat
    PROVE  /\ (o + n) % 3 = 0 => /\ (o + (n + 1)) % 3 = 1 /\ (o + (n + 2)) % 3 = 2
                                 /\ (o + (n + 3)) % 3 = 0
           /\ \A j \in 1..n + 3 : j \in 1..n \/ j = n + 1 \/ j = n + 2 \/ j = n + 3
OBVIOUS

(* The mouse sends a packet.                                               *)
LEMMA PacketFollows ==
    ASSUME NEW P, NEW o, NEW b0, NEW bt, NEW r, NEW D, NEW t,
           ButtonsTyped(P, o, r, D, t), ButtonsFollow(P, o, b0, bt, r, D, t),
           NEW D2, NEW t2, NEW packet, PacketOf(D2, packet), Clicks(D, D2, t, t2)
    PROVE  ButtonsFollow(P \o packet, o, b0, bt, r, D2, t2)
<1> DEFINE n == Len(P)
           Q == P \o packet
<1>0. /\ P \in Seq(0..255) /\ o \in 0..2 /\ r \in Seq(Click) /\ D \in SUBSET Buttons
      /\ t \in Seq(Click) /\ D2 \in SUBSET Buttons /\ t2 \in Seq(Click)
      /\ ChangeStep(D, D2, Len(t), Len(t2), t2) /\ Len(t) <= Len(t2)
      /\ \A i \in 1..Len(t) : t2[i] = t[i]
  BY DEF ButtonsTyped, PacketOf, Clicks
<1>1. PICK d, e : ButtonRun(P, o, d, e, t) /\ ButtonEnds(P, bt, r, D, t, d, e) BY DEF ButtonsFollow
<1> DEFINE d2 == [j \in 0..n + 3 |-> IF j <= n THEN d[j] ELSE D2]
           e2 == [j \in 0..n + 3 |-> IF j <= n THEN e[j] ELSE Len(t2)]
<1>2. n \in Nat /\ Len(t) \in Nat /\ Len(t2) \in Nat /\ Len(r) \in Nat
  BY <1>0, LenProperties
<1>3. Len(Q) = n + 3 /\ Q[n + 1] = Info(D2) /\ \A j \in 1..n : Q[j] = P[j]
  <2>1. PICK x \in 0..255, y \in 0..255 : packet = <<Info(D2), x, y>> BY DEF PacketOf
  <2>2. Info(D2) \in 0..255
    <3>1. Info(D2) \in 0..3 BY <1>0, InfoBits
    <3> QED BY <3>1
  <2>3. packet \in Seq(0..255) /\ Len(packet) = 3 /\ packet[1] = Info(D2) BY <2>1, <2>2
  <2>4. /\ Len(Q) = n + 3
        /\ \A i \in 1..n + 3 : Q[i] = IF i <= n THEN P[i] ELSE packet[i - n]
    <3>1. P \in Seq(0..255) /\ packet \in Seq(0..255) BY <1>0, <2>3
    <3>2. /\ Len(P \o packet) = Len(P) + Len(packet)
          /\ \A i \in 1..Len(P) + Len(packet) :
                 (P \o packet)[i] = IF i <= Len(P) THEN P[i] ELSE packet[i - Len(P)]
      BY <3>1, ConcatProperties
    <3>3. Len(packet) = 3 BY <2>3
    <3> QED BY <3>2, <3>3 DEF Q
  <2>5. n + 1 \in 1..n + 3 /\ ~(n + 1 <= n) /\ (n + 1) - n = 1 BY <1>2
  <2>6. Q[n + 1] = Info(D2) BY <2>3, <2>4, <2>5
  <2>7. \A j \in 1..n : Q[j] = P[j] BY <1>2, <2>4
  <2> QED BY <2>4, <2>6, <2>7
<1> HIDE DEF Q
<1>4. /\ d \in [0..n -> SUBSET Buttons] /\ e \in [0..n -> Nat] /\ (o + n) % 3 = 0
      /\ d[n] = D /\ e[n] = Len(t)
  BY <1>1 DEF ButtonRun, ButtonEnds
<1>5. d2 \in [0..n + 3 -> SUBSET Buttons] /\ e2 \in [0..n + 3 -> Nat]
  <2>1. d \in [0..n -> SUBSET Buttons] /\ e \in [0..n -> Nat] BY <1>4
  <2>2. D2 \in SUBSET Buttons /\ Len(t2) \in Nat BY <1>0, <1>2
  <2>3. d2 \in [0..n + 3 -> SUBSET Buttons] BY <1>2, <2>1, <2>2
  <2>4. e2 \in [0..n + 3 -> Nat] BY <1>2, <2>1, <2>2
  <2> QED BY <2>3, <2>4
<1>6. \A j \in 1..n + 3 : ByteStep(Q[j], (o + j) % 3 = 1, d2[j - 1], d2[j], e2[j - 1], e2[j], t2)
  <2>1. ASSUME NEW j \in 1..n
        PROVE  ByteStep(Q[j], (o + j) % 3 = 1, d2[j - 1], d2[j], e2[j - 1], e2[j], t2)
    <3>1. d2[j] = d[j] /\ d2[j - 1] = d[j - 1] /\ e2[j] = e[j] /\ e2[j - 1] = e[j - 1] /\ Q[j] = P[j]
      BY <1>2, <1>3
    <3>2. ByteStep(P[j], (o + j) % 3 = 1, d[j - 1], d[j], e[j - 1], e[j], t) BY <1>1 DEF ButtonRun
    <3>3. ChangeStep(d[j - 1], d[j], e[j - 1], e[j], t) => ChangeStep(d[j - 1], d[j], e[j - 1], e[j], t2)
      <4>1. e[j - 1] \in Nat
        <5>1. j - 1 \in 0..n BY <1>2
        <5> QED BY <1>4, <5>1
      <4>2. e[j] = e[j - 1] + 1 /\ e[j] <= Len(t) => e[j] \in 1..Len(t) /\ e[j] <= Len(t2)
        BY <1>0, <1>2, <4>1
      <4> QED BY <1>0, <4>2 DEF ChangeStep
    <3> HIDE DEF d2, e2
    <3> QED BY <3>1, <3>2, <3>3 DEF ByteStep
  <2>2. /\ d2[n] = D /\ d2[n + 1] = D2 /\ d2[n + 2] = D2 /\ d2[n + 3] = D2
        /\ e2[n] = Len(t) /\ e2[n + 1] = Len(t2) /\ e2[n + 2] = Len(t2) /\ e2[n + 3] = Len(t2)
    BY <1>2, <1>4
  <2>3. (o + (n + 1)) % 3 = 1 /\ (o + (n + 2)) % 3 = 2 /\ (o + (n + 3)) % 3 = 0
    BY <1>0, <1>2, <1>4, NextPacket
  <2>4. (n + 1) - 1 = n /\ (n + 2) - 1 = n + 1 /\ (n + 3) - 1 = n + 2 BY <1>2
  <2> HIDE DEF d2, e2
  <2>5. ByteStep(Q[n + 1], (o + (n + 1)) % 3 = 1, d2[n], d2[n + 1], e2[n], e2[n + 1], t2)
    BY <1>0, <1>3, <2>2, <2>3 DEF ByteStep
  <2>6. ByteStep(Q[n + 2], (o + (n + 2)) % 3 = 1, d2[n + 1], d2[n + 2], e2[n + 1], e2[n + 2], t2)
    BY <2>2, <2>3 DEF ByteStep
  <2>7. ByteStep(Q[n + 3], (o + (n + 3)) % 3 = 1, d2[n + 2], d2[n + 3], e2[n + 2], e2[n + 3], t2)
    BY <2>2, <2>3 DEF ByteStep
  <2>8. \A j \in 1..n + 3 : j \in 1..n \/ j = n + 1 \/ j = n + 2 \/ j = n + 3
    BY <1>0, <1>2, NextPacket
  <2> QED BY <2>1, <2>4, <2>5, <2>6, <2>7, <2>8
<1>7. (o + (n + 3)) % 3 = 0 BY <1>0, <1>2, <1>4, NextPacket
<1>8. d2[0] = d[0] /\ e2[0] = e[0] /\ d2[n + 3] = D2 /\ e2[n + 3] = Len(t2) BY <1>2
<1>9. Follows(r, t2) BY <1>0, <1>2 DEF ButtonsFollow, Follows
<1> HIDE DEF d2, e2
<1>10. ButtonRun(Q, o, d2, e2, t2) BY <1>3, <1>5, <1>6, <1>7 DEF ButtonRun
<1>11. ButtonEnds(Q, bt, r, D2, t2, d2, e2) BY <1>1, <1>3, <1>8 DEF ButtonEnds
<1> QED BY <1>9, <1>10, <1>11 DEF ButtonsFollow, Q
(* The handler reads a packet's first byte, and calls back.                *)
LEMMA ReadInfoFollows ==
    ASSUME NEW P \in Seq(0..255), NEW b0, NEW r \in Seq(Click),
           NEW D \in SUBSET Buttons, NEW t \in Seq(Click),
           ButtonsFollow(P, 0, b0, buttons, r, D, t), P # <<>>
    PROVE  /\ ButtonsFollow(Tail(P), 1, P[1], P[1] % 8, r \o ButtonEvents(P[1]), D, t)
           /\ P[1] % 8 = P[1]
<1> DEFINE n == Len(P)
           Q == Tail(P)
           r2 == r \o ButtonEvents(P[1])
<1>1. PICK d, e : ButtonRun(P, 0, d, e, t) /\ ButtonEnds(P, buttons, r, D, t, d, e) BY DEF ButtonsFollow
<1> DEFINE d2 == [j \in 0..n - 1 |-> d[j + 1]]
           e2 == [j \in 0..n - 1 |-> e[j + 1]]
<1>2. n \in Nat \ {0} /\ Len(t) \in Nat /\ Len(r) \in Nat BY LenProperties, EmptySeq
<1>3. Len(Q) = n - 1 /\ \A j \in 1..n - 1 : Q[j] = P[j + 1] BY HeadTailProperties
<1> HIDE DEF Q, r2
<1>4. /\ d \in [0..n -> SUBSET Buttons] /\ e \in [0..n -> Nat] /\ (0 + n) % 3 = 0
      /\ \A j \in 1..n : ByteStep(P[j], (0 + j) % 3 = 1, d[j - 1], d[j], e[j - 1], e[j], t)
  BY <1>1 DEF ButtonRun
<1>5. buttons = Info(d[0]) /\ e[0] = Len(r) /\ d[n] = D /\ e[n] = Len(t) BY <1>1 DEF ButtonEnds
<1>6. d2 \in [0..n - 1 -> SUBSET Buttons] /\ e2 \in [0..n - 1 -> Nat]
  <2>1. d \in [0..n -> SUBSET Buttons] /\ e \in [0..n -> Nat] BY <1>4
  <2> QED BY <1>2, <2>1
<1>7. (1 + (n - 1)) % 3 = 0 BY <1>2, <1>4
<1>8. ASSUME NEW j \in 1..n - 1
      PROVE  ByteStep(Q[j], (1 + j) % 3 = 1, d2[j - 1], d2[j], e2[j - 1], e2[j], t)
  <2>1. /\ d2[j] = d[j + 1] /\ d2[j - 1] = d[j] /\ e2[j] = e[j + 1] /\ e2[j - 1] = e[j]
        /\ Q[j] = P[j + 1]
    BY <1>2, <1>3
  <2>2. j + 1 \in 1..n /\ (j + 1) - 1 = j /\ 0 + (j + 1) = 1 + j BY <1>2
  <2>3. ByteStep(P[j + 1], (1 + j) % 3 = 1, d[j], d[j + 1], e[j], e[j + 1], t)
    <3> HIDE DEF d2, e2
    <3> QED BY <1>4, <2>2
  <2> HIDE DEF d2, e2
  <2> QED BY <2>1, <2>3
<1>9. ButtonRun(Q, 1, d2, e2, t)
  <2> HIDE DEF d2, e2
  <2> QED BY <1>3, <1>6, <1>7, <1>8 DEF ButtonRun
<1>10. P[1] = Info(d[1]) /\ ChangeStep(d[0], d[1], e[0], e[1], t)
  <2>1. 1 \in 1..n /\ 1 - 1 = 0 /\ (0 + 1) % 3 = 1 BY <1>2
  <2>2. ByteStep(P[1], (0 + 1) % 3 = 1, d[0], d[1], e[0], e[1], t)
    <3> HIDE DEF d2, e2
    <3> QED BY <1>4, <2>1
  <2> QED BY <2>1, <2>2 DEF ByteStep
<1>11. d[0] \in SUBSET Buttons /\ d[1] \in SUBSET Buttons
  <2>1. d \in [0..n -> SUBSET Buttons] BY <1>4
  <2>2. 0 \in 0..n /\ 1 \in 0..n BY <1>2
  <2> QED BY <2>1, <2>2
<1>12. P[1] % 8 = P[1] BY <1>10, <1>11, InfoBits
<1>13. e[1] = Len(r2) /\ Follows(r2, t)
  <2>1. Follows(r, t) BY DEF ButtonsFollow
  <2>2. CASE d[1] = d[0] /\ e[1] = e[0]
    <3>1. ButtonEvents(P[1]) = <<>> BY <1>5, <1>10, <1>11, <2>2, EventsOfChange
    <3>2. r2 = r BY <3>1, ConcatEmptySeq DEF r2
    <3> QED BY <1>5, <2>1, <2>2, <3>2
  <2>3. CASE \E b \in Buttons : /\ d[1] = Toggle(d[0], b) /\ e[1] = e[0] + 1 /\ e[1] <= Len(t)
                              /\ t[e[1]] = [button |-> b, down |-> b \in d[1]]
    <3>1. PICK b \in Buttons : /\ d[1] = Toggle(d[0], b) /\ e[1] = e[0] + 1 /\ e[1] <= Len(t)
                              /\ t[e[1]] = [button |-> b, down |-> b \in d[1]]
      BY <2>3
    <3> DEFINE call == [button |-> b, down |-> b \in d[1]]
    <3>2. ButtonEvents(P[1]) = <<call>>
      <4>1. ButtonEvents(Info(Toggle(d[0], b))) = <<[button |-> b, down |-> b \in Toggle(d[0], b)]>>
        BY <1>5, <1>11, EventsOfChange
      <4> QED BY <1>10, <3>1, <4>1
    <3>3. call \in Click
      <4>1. (b \in d[1]) \in BOOLEAN OBVIOUS
      <4> QED BY <4>1 DEF Click, Buttons
    <3>4. t[Len(r) + 1] = call /\ Len(r) + 1 <= Len(t) /\ e[1] = Len(r) + 1 BY <1>5, <3>1
    <3> HIDE DEF call
    <3>5. Len(r2) = Len(r) + 1 /\ r2[Len(r) + 1] = call /\ \A j \in 1..Len(r) : r2[j] = r[j]
      <4>1. <<call>> \in Seq(Click) /\ Len(<<call>>) = 1 /\ <<call>>[1] = call BY <3>3
      <4>2. /\ Len(r2) = Len(r) + 1
            /\ \A i \in 1..Len(r) + 1 : r2[i] = IF i <= Len(r) THEN r[i] ELSE <<call>>[i - Len(r)]
        BY <3>2, <4>1, ConcatProperties DEF r2
      <4>3. (Len(r) + 1) - Len(r) = 1 /\ Len(r) + 1 \in 1..Len(r) + 1 /\ ~(Len(r) + 1 <= Len(r)) BY <1>2
      <4>4. r2[Len(r) + 1] = call BY <4>1, <4>2, <4>3
      <4>5. \A j \in 1..Len(r) : r2[j] = r[j] BY <1>2, <4>2
      <4> QED BY <4>2, <4>4, <4>5
    <3>6. Follows(r2, t) BY <1>2, <2>1, <3>4, <3>5 DEF Follows
    <3> QED BY <3>4, <3>5, <3>6
  <2> QED BY <1>10, <2>2, <2>3 DEF ChangeStep
<1>14. d2[0] = d[1] /\ e2[0] = e[1] /\ d2[n - 1] = D /\ e2[n - 1] = Len(t) BY <1>2, <1>5
<1>15. ButtonEnds(Q, P[1] % 8, r2, D, t, d2, e2)
  <2> HIDE DEF d2, e2
  <2> QED BY <1>3, <1>10, <1>12, <1>13, <1>14 DEF ButtonEnds
<1>16. ButtonsFollow(Q, 1, P[1], P[1] % 8, r2, D, t)
  <2> HIDE DEF d2, e2
  <2> QED BY <1>9, <1>12, <1>13, <1>15 DEF ButtonsFollow
<1> QED BY <1>12, <1>16 DEF Q, r2

(* It reads a motion byte.                                                 *)
LEMMA ReadMotionFollows ==
    ASSUME NEW P, NEW o, NEW b0, NEW r, NEW D, NEW t, P # <<>>,
           ButtonsTyped(P, o, r, D, t), ButtonsFollow(P, o, b0, buttons, r, D, t),
           NEW p, o # 0, p = (o + 1) % 3
    PROVE  /\ ButtonsFollow(Tail(P), p, b0, buttons, r, D, t)
           /\ b0 = buttons /\ b0 % 8 = b0 /\ ButtonEvents(b0) = <<>>
<1> DEFINE n == Len(P)
           Q == Tail(P)
<1>0. /\ P \in Seq(0..255) /\ o \in {1, 2} /\ r \in Seq(Click) /\ D \in SUBSET Buttons
      /\ t \in Seq(Click)
  BY DEF ButtonsTyped
<1>1. PICK d, e : ButtonRun(P, o, d, e, t) /\ ButtonEnds(P, buttons, r, D, t, d, e) BY DEF ButtonsFollow
<1> DEFINE d2 == [j \in 0..n - 1 |-> d[j + 1]]
           e2 == [j \in 0..n - 1 |-> e[j + 1]]
<1>2. n \in Nat \ {0} /\ Len(t) \in Nat /\ Len(r) \in Nat
  BY <1>0, LenProperties, EmptySeq
<1>3. Len(Q) = n - 1 /\ \A j \in 1..n - 1 : Q[j] = P[j + 1] BY <1>0, HeadTailProperties
<1>4. /\ d \in [0..n -> SUBSET Buttons] /\ e \in [0..n -> Nat] /\ (o + n) % 3 = 0
      /\ \A j \in 1..n : ByteStep(P[j], (o + j) % 3 = 1, d[j - 1], d[j], e[j - 1], e[j], t)
  BY <1>1 DEF ButtonRun
<1>5. buttons = Info(d[0]) /\ e[0] = Len(r) /\ d[n] = D /\ e[n] = Len(t) BY <1>1 DEF ButtonEnds
<1>6. d2 \in [0..n - 1 -> SUBSET Buttons] /\ e2 \in [0..n - 1 -> Nat]
  <2>1. d \in [0..n -> SUBSET Buttons] /\ e \in [0..n -> Nat] BY <1>4
  <2> QED BY <1>2, <2>1
<1>7. \A x \in Nat : (p + x) % 3 = (o + (x + 1)) % 3
  <2>1. CASE o = 1 /\ p = 2 BY <2>1
  <2>2. CASE o = 2 /\ p = 0 BY <2>2
  <2>3. (o = 1 /\ p = 2) \/ (o = 2 /\ p = 0) BY <1>0
  <2> QED BY <2>1, <2>2, <2>3
<1> HIDE DEF Q
<1>8. (p + (n - 1)) % 3 = 0
  <2>1. n - 1 \in Nat /\ (n - 1) + 1 = n BY <1>2
  <2> QED BY <1>4, <1>7, <2>1
<1>9. ASSUME NEW j \in 1..n - 1
      PROVE  ByteStep(Q[j], (p + j) % 3 = 1, d2[j - 1], d2[j], e2[j - 1], e2[j], t)
  <2>1. /\ d2[j] = d[j + 1] /\ d2[j - 1] = d[j] /\ e2[j] = e[j + 1] /\ e2[j - 1] = e[j]
        /\ Q[j] = P[j + 1]
    BY <1>2, <1>3
  <2>2. j + 1 \in 1..n /\ (j + 1) - 1 = j /\ j \in Nat BY <1>2
  <2> HIDE DEF d2, e2
  <2>3. ByteStep(P[j + 1], (o + (j + 1)) % 3 = 1, d[j], d[j + 1], e[j], e[j + 1], t) BY <1>4, <2>2
  <2>4. (p + j) % 3 = (o + (j + 1)) % 3 BY <1>7, <2>2
  <2> QED BY <2>1, <2>3, <2>4
<1>10. ButtonRun(Q, p, d2, e2, t)
  <2> HIDE DEF d2, e2
  <2> QED BY <1>3, <1>6, <1>8, <1>9 DEF ButtonRun
<1>11. d[1] = d[0] /\ e[1] = e[0]
  <2>1. 1 \in 1..n /\ 1 - 1 = 0 /\ (o + 1) % 3 # 1 BY <1>0, <1>2
  <2> HIDE DEF d2, e2
  <2>2. ByteStep(P[1], (o + 1) % 3 = 1, d[0], d[1], e[0], e[1], t) BY <1>4, <2>1
  <2> QED BY <2>1, <2>2 DEF ByteStep
<1>12. d2[0] = d[1] /\ e2[0] = e[1] /\ d2[n - 1] = D /\ e2[n - 1] = Len(t) BY <1>2, <1>5
<1>13. ButtonEnds(Q, buttons, r, D, t, d2, e2)
  <2> HIDE DEF d2, e2
  <2> QED BY <1>3, <1>5, <1>11, <1>12 DEF ButtonEnds
<1>14. b0 = buttons /\ Follows(r, t) BY DEF ButtonsFollow
<1>15. d[0] \in SUBSET Buttons
  <2>1. d \in [0..n -> SUBSET Buttons] BY <1>4
  <2> QED BY <1>2, <2>1
<1>16. b0 % 8 = b0 /\ ButtonEvents(b0) = <<>> BY <1>5, <1>14, <1>15, InfoBits, EventsOfChange
<1>17. ButtonsFollow(Q, p, b0, buttons, r, D, t)
  <2> HIDE DEF d2, e2
  <2> QED BY <1>10, <1>13, <1>14 DEF ButtonsFollow
<1> QED BY <1>14, <1>16, <1>17 DEF Q
-----------------------------------------------------------------------------
(* Once the drivers are loaded: nothing has been typed and an interrupt of *)
(* Load's own may still be on its way, or a full buffer has exactly the    *)
(* interrupt of the driver that owns its byte.                             *)
Pending(source, queue) ==
    IF out.full /\ out.source = source THEN <<out.value>> \o queue ELSE queue

Idle == Untouched /\ StaleInv /\ ~out.full /\ kbdQueue = <<>> /\ auxQueue = <<>>

LineRaised ==
    latched = IF out.full THEN (IF out.source = "aux" THEN {12} ELSE {1}) ELSE {}

Running ==
    /\ LineRaised
    /\ out.full => out.source \in {"kbd", "aux"}
    /\ KeysFollow(Pending("kbd", kbdQueue), mods, reported, Holding, typed)
    /\ ButtonsFollow(Pending("aux", auxQueue), offset, buffer[0], buttons, clicked, pressed, clicks)

Ps2Inv == LoadInv /\ (pc = "done" => Idle \/ Running)

LEMMA PendingType ==
    ASSUME TypeOK
    PROVE  /\ Pending("kbd", kbdQueue) \in Seq(0..255) /\ Pending("aux", auxQueue) \in Seq(0..255)
           /\ kbdQueue \in Seq(0..255) /\ auxQueue \in Seq(0..255) /\ out.value \in 0..255
<1>1. kbdQueue \in Seq(0..255) /\ auxQueue \in Seq(0..255) /\ out.value \in 0..255 BY DEF TypeOK
<1>2. <<out.value>> \in Seq(0..255) BY <1>1
<1>3. <<out.value>> \o kbdQueue \in Seq(0..255) /\ <<out.value>> \o auxQueue \in Seq(0..255)
  BY <1>1, <1>2, ConcatProperties
<1> QED BY <1>1, <1>3 DEF Pending

LEMMA PendingGrows ==
    ASSUME TypeOK, NEW packet \in Seq(0..255), auxQueue' = auxQueue \o packet, UNCHANGED out
    PROVE  Pending("aux", auxQueue)' = Pending("aux", auxQueue) \o packet
<1>1. CASE out.full /\ out.source = "aux"
  <2>1. auxQueue \in Seq(0..255) /\ out.value \in 0..255 BY PendingType
  <2>2. <<out.value>> \in Seq(0..255) BY <2>1
  <2>3. <<out.value>> \o (auxQueue \o packet) = (<<out.value>> \o auxQueue) \o packet
    BY <2>1, <2>2, ConcatAssociative
  <2> QED BY <1>1, <2>3 DEF Pending
<1>2. CASE ~(out.full /\ out.source = "aux") BY <1>2 DEF Pending
<1> QED BY <1>1, <1>2

LEMMA IdleRuns ==
    ASSUME Idle, latched = {}
    PROVE  Running
<1>1. Pending("kbd", kbdQueue) = <<>> /\ Pending("aux", auxQueue) = <<>> BY DEF Idle, Pending
<1>2. LineRaised BY DEF Idle, LineRaised
<1>3. ~out.full BY DEF Idle
<1>4. Holding = NoHands BY DEF Idle, Untouched, Holding, NoHands
<1>5. KeysFollow(Pending("kbd", kbdQueue), mods, reported, Holding, typed)
  BY <1>1, <1>4, NoKeys DEF Idle, Untouched
<1>6. ButtonsFollow(Pending("aux", auxQueue), offset, buffer[0], buttons, clicked, pressed, clicks)
  BY <1>1, NoButtons DEF Idle, Untouched
<1> QED BY <1>2, <1>3, <1>5, <1>6 DEF Running

(* At the end of Load, whatever was latched on the way.                    *)
LEMMA LoadRuns ==
    ASSUME LoadInv, Load, pc' = "done"
    PROVE  Idle'
<1>1. AuxRequest
  BY DEF Load, Drain, EnableInterface, AskCommandByte, ReadCommandByte, WriteCommandByte, KbdRequest,
     Stream, ReadAck, At
<1>2. pc = "auxRequest" /\ UNCHANGED <<controller, devices, keyboard, mouse, user>>
  BY <1>1 DEF AuxRequest, At, Elsewhere
<1>3. QuietInv /\ StaleInv /\ Untouched BY <1>2 DEF LoadInv, Loading
<1>4. kbdQueue = <<>> /\ auxQueue = <<>> /\ ~out.full BY <1>2, <1>3 DEF QuietInv
<1> QED BY <1>2, <1>3, <1>4 DEF Idle, Untouched, StaleInv, controller, devices, keyboard, mouse, user

LEMMA UserRuns ==
    ASSUME EarlyInput = FALSE, Ps2Inv, User
    PROVE  Running'
<1>1. pc = "done" /\ (latched # {} => out.full)
  BY DEF User, Press, Release, MousePacket, UserActs
<1>2. Running
  <2>1. CASE Idle BY <1>1, <2>1, IdleRuns DEF Idle
  <2> QED BY <1>1, <2>1 DEF Ps2Inv
<1>3. UNCHANGED <<out, latched, keyboard, mouse>> BY DEF User, Press, Release, MousePacket, controller
<1>4. UNCHANGED <<mods, reported, buffer, offset, buttons, clicked>> BY <1>3 DEF keyboard, mouse
<1>5. LineRaised' /\ (out.full => out.source \in {"kbd", "aux"})' BY <1>2, <1>3 DEF Running, LineRaised
<1>6. TypeOK BY DEF Ps2Inv, LoadInv
<1>7. /\ held \in SUBSET Keys /\ bothShifts \in BOOLEAN /\ Holding \in Hands /\ typed \in Seq(Typed) /\ reported \in Seq(Key)
      /\ pressed \in SUBSET Buttons /\ clicks \in Seq(Click) /\ clicked \in Seq(Click) /\ offset \in 0..2
  BY <1>6 DEF TypeOK, Buttons, MOUSE_BUFFER_SIZE, Holding, Hands
<1> DEFINE K == Pending("kbd", kbdQueue)
           A == Pending("aux", auxQueue)
<1>8. KeysFollow(K, mods, reported, Holding, typed) BY <1>2 DEF Running
<1>9. ButtonsFollow(A, offset, buffer[0], buttons, clicked, pressed, clicks) BY <1>2 DEF Running
<1>10. ASSUME NEW v \in 0..255, kbdQueue' = Append(kbdQueue, v) PROVE K' = Append(K, v)
  <2>1. CASE out.full /\ out.source = "kbd"
    <3>1. K = <<out.value>> \o kbdQueue /\ K' = <<out.value>> \o kbdQueue'
      BY <1>3, <2>1 DEF Pending
    <3>2. <<out.value>> \in Seq(0..255) /\ kbdQueue \in Seq(0..255) BY <1>6, PendingType
    <3>3. <<out.value>> \o Append(kbdQueue, v) = Append(<<out.value>> \o kbdQueue, v)
      BY <3>2
    <3> QED BY <1>10, <3>1, <3>3
  <2>2. CASE ~(out.full /\ out.source = "kbd") BY <1>3, <1>10, <2>2 DEF Pending
  <2> QED BY <2>1, <2>2
<1>11. K \in Seq(0..255) /\ A \in Seq(0..255) BY <1>6, PendingType
<1> HIDE DEF K, A
<1>12. ASSUME NEW k \in Keys, Press(k) PROVE Running'
  <2>1. /\ k \notin Holding.held /\ Holding' = PressTo(Holding, k)
        /\ typed' = Append(typed, TypedAs(k, PressTo(Holding, k)))
        /\ kbdQueue' = Append(kbdQueue, k) /\ UNCHANGED <<auxQueue, pressed, clicks>>
    BY <1>12 DEF Press, Holding, PressTo, TypedAs
  <2>2. k \in 0..255 BY DEF Keys, SC_LSHIFT, SC_RSHIFT, SC_LCTRL, SC_A
  <2>3. K' = Append(K, k) BY <1>10, <2>1, <2>2
  <2>4. KeysFollow(Append(K, k), mods, reported, PressTo(Holding, k),
                   Append(typed, TypedAs(k, PressTo(Holding, k))))
    BY <1>7, <1>8, <1>11, <2>1, PressFollows
  <2>5. KeysFollow(K', mods', reported', Holding', typed') BY <1>4, <2>1, <2>3, <2>4
  <2>6. A' = A BY <1>3, <2>1 DEF A, Pending
  <2>7. ButtonsFollow(A', offset', buffer'[0], buttons', clicked', pressed', clicks')
    BY <1>4, <1>9, <2>1, <2>6
  <2> QED BY <1>5, <2>5, <2>7 DEF Running, K, A
<1>13. ASSUME NEW k \in Keys, Release(k) PROVE Running'
  <2>1. /\ k \in Holding.held /\ Holding' = ReleaseTo(Holding, k) /\ kbdQueue' = Append(kbdQueue, k + SC_RELEASE)
        /\ UNCHANGED <<typed, auxQueue, pressed, clicks>>
    BY <1>13 DEF Release, Holding, ReleaseTo
  <2>2. k + SC_RELEASE \in 0..255 BY DEF Keys, SC_LSHIFT, SC_RSHIFT, SC_LCTRL, SC_A, SC_RELEASE
  <2>3. K' = Append(K, k + SC_RELEASE) BY <1>10, <2>1, <2>2
  <2>4. KeysFollow(Append(K, k + SC_RELEASE), mods, reported, ReleaseTo(Holding, k), typed)
    BY <1>7, <1>8, <1>11, <2>1, ReleaseFollows
  <2>5. KeysFollow(K', mods', reported', Holding', typed') BY <1>4, <2>1, <2>3, <2>4
  <2>6. A' = A BY <1>3, <2>1 DEF A, Pending
  <2>7. ButtonsFollow(A', offset', buffer'[0], buttons', clicked', pressed', clicks')
    BY <1>4, <1>9, <2>1, <2>6
  <2> QED BY <1>5, <2>5, <2>7 DEF Running, K, A
<1>14. ASSUME NEW b \in {0, 1, 2}, NEW m \in Motions, MousePacket(b, m) PROVE Running'
  <2>1. /\ pressed' = IF b \in pressed THEN pressed \ {b} ELSE pressed \cup ({b} \ {0})
        /\ clicks' = IF b = 0 THEN clicks
                     ELSE Append(clicks, [button |-> b, down |-> b \in pressed'])
        /\ auxQueue' = auxQueue \o <<Info(pressed'), m[1], m[2]>>
        /\ UNCHANGED <<kbdQueue, held, bothShifts, typed>>
    BY <1>14 DEF MousePacket
  <2>2. pressed' \in SUBSET Buttons BY <1>7, <2>1 DEF Buttons
  <2>3. m[1] \in 0..255 /\ m[2] \in 0..255 BY DEF Motions
  <2> DEFINE packet == <<Info(pressed'), m[1], m[2]>>
  <2>4. packet \in Seq(0..255)
    <3>1. Info(pressed') \in 0..255
      <4>1. Info(pressed') \in 0..3 BY <2>2, InfoBits
      <4> QED BY <4>1
    <3> QED BY <2>3, <3>1
  <2>5. /\ clicks' \in Seq(Click) /\ Len(clicks) <= Len(clicks')
        /\ \A i \in 1..Len(clicks) : clicks'[i] = clicks[i]
        /\ ChangeStep(pressed, pressed', Len(clicks), Len(clicks'), clicks')
    <3>1. Len(clicks) \in Nat BY <1>7, LenProperties
    <3>2. CASE b = 0
      <4>1. pressed' = pressed /\ clicks' = clicks BY <1>7, <2>1, <3>2 DEF Buttons
      <4> QED BY <1>7, <3>1, <4>1 DEF ChangeStep
    <3>3. CASE b # 0
      <4> DEFINE call == [button |-> b, down |-> b \in pressed']
      <4>1. b \in Buttons /\ pressed' = Toggle(pressed, b) BY <2>1, <3>3 DEF Toggle, Buttons
      <4>2. call \in Click
        <5>1. (b \in pressed') \in BOOLEAN OBVIOUS
        <5> QED BY <4>1, <5>1 DEF Click, Buttons
      <4>3. clicks' = Append(clicks, call) BY <2>1, <3>3
      <4> HIDE DEF call
      <4>4. /\ clicks' \in Seq(Click) /\ Len(clicks') = Len(clicks) + 1
            /\ clicks'[Len(clicks) + 1] = call /\ \A i \in 1..Len(clicks) : clicks'[i] = clicks[i]
        BY <1>7, <4>2, <4>3, AppendProperties
      <4>5. ChangeStep(pressed, pressed', Len(clicks), Len(clicks'), clicks')
        BY <3>1, <4>1, <4>4 DEF ChangeStep, call
      <4> QED BY <3>1, <4>4, <4>5
    <3> QED BY <3>2, <3>3
  <2>6. ButtonsFollow(A \o packet, offset, buffer[0], buttons, clicked, pressed', clicks')
    <3>1. ButtonsTyped(A, offset, clicked, pressed, clicks) BY <1>7, <1>11 DEF ButtonsTyped
    <3>2. PacketOf(pressed', packet) BY <2>2, <2>3 DEF PacketOf
    <3>3. Clicks(pressed, pressed', clicks, clicks') BY <2>5 DEF Clicks
    <3> HIDE DEF packet
    <3> QED BY <1>9, <3>1, <3>2, <3>3, PacketFollows
  <2>7. A' = A \o packet
    <3> HIDE DEF packet
    <3>1. auxQueue' = auxQueue \o packet BY <2>1 DEF packet
    <3> QED BY <1>3, <1>6, <2>4, <3>1, PendingGrows DEF A
  <2>8. ButtonsFollow(A', offset', buffer'[0], buttons', clicked', pressed', clicks')
    BY <1>4, <2>6, <2>7
  <2>9. K' = K BY <1>3, <2>1 DEF K, Pending
  <2>10. KeysFollow(K', mods', reported', Holding', typed')
    <3>1. Holding' = Holding BY <2>1 DEF Holding
    <3> QED BY <1>4, <1>8, <2>1, <2>9, <3>1
  <2> QED BY <1>5, <2>8, <2>10 DEF Running, K, A
<1> QED BY <1>12, <1>13, <1>14 DEF User

(* Sequences of bytes: the first one and the rest.                         *)
LEMMA HeadAndTail ==
    ASSUME NEW q \in Seq(0..255), q # <<>>
    PROVE  <<Head(q)>> \o Tail(q) = q
<1>1. Len(q) \in Nat \ {0} BY EmptySeq
<1>2. Tail(q) = SubSeq(q, 2, Len(q)) BY TailIsSubSeq
<1>3. SubSeq(q, 1, Len(q)) = <<q[1]>> \o SubSeq(q, 1 + 1, Len(q))
  BY <1>1, SubSeqRecursiveFirst
<1>4. Head(q) = q[1] OBVIOUS
<1>5. SubSeq(q, 1, Len(q)) = q BY SubSeqFull
<1>6. Tail(q) = SubSeq(q, 1 + 1, Len(q)) BY <1>2
<1> QED BY <1>3, <1>4, <1>5, <1>6

LEMMA ByteFirst ==
    ASSUME NEW v \in 0..255, NEW q \in Seq(0..255)
    PROVE  LET s == <<v>> \o q
           IN  /\ s \in Seq(0..255) /\ Len(s) = Len(q) + 1 /\ s # <<>> /\ s[1] = v
               /\ \A i \in 1..Len(q) : s[i + 1] = q[i]
<1> DEFINE s == <<v>> \o q
<1>1. <<v>> \in Seq(0..255) /\ Len(<<v>>) = 1 /\ Len(q) \in Nat BY LenProperties
<1>2. s \in Seq(0..255) /\ Len(s) = 1 + Len(q)
      /\ \A i \in 1..1 + Len(q) : s[i] = IF i <= 1 THEN <<v>>[i] ELSE q[i - 1]
  BY <1>1, ConcatProperties
<1> HIDE DEF s
<1>3. s # <<>> BY <1>1, <1>2
<1>4. s[1] = v
  <2>1. 1 \in 1..1 + Len(q) BY <1>1
  <2> QED BY <1>2, <2>1
<1>5. \A i \in 1..Len(q) : s[i + 1] = q[i]
  <2> SUFFICES ASSUME NEW i \in 1..Len(q) PROVE s[i + 1] = q[i] OBVIOUS
  <2>1. i + 1 \in 1..1 + Len(q) /\ ~(i + 1 <= 1) /\ (i + 1) - 1 = i BY <1>1
  <2> QED BY <1>2, <2>1
<1>6. Len(s) = Len(q) + 1 BY <1>1, <1>2
<1> QED BY <1>2, <1>3, <1>4, <1>5, <1>6 DEF s

LEMMA TailOfByte ==
    ASSUME NEW v \in 0..255, NEW q \in Seq(0..255)
    PROVE  LET s == <<v>> \o q IN s # <<>> /\ s[1] = v /\ Tail(s) = q
<1> DEFINE s == <<v>> \o q
<1>1. /\ s \in Seq(0..255) /\ Len(s) = Len(q) + 1 /\ s # <<>> /\ s[1] = v
      /\ \A i \in 1..Len(q) : s[i + 1] = q[i]
  BY ByteFirst, ZenonT(60)
<1> HIDE DEF s
<1>2. /\ Tail(s) \in Seq(0..255) /\ Len(Tail(s)) = Len(s) - 1
      /\ \A i \in 1..Len(Tail(s)) : Tail(s)[i] = s[i + 1]
  BY <1>1, HeadTailProperties
<1>3. Len(q) \in Nat BY LenProperties
<1>4. Len(Tail(s)) = Len(q) BY <1>1, <1>2, <1>3
<1>5. \A i \in 1..Len(q) : Tail(s)[i] = q[i] BY <1>1, <1>2, <1>4
<1>6. Tail(s) = q BY <1>2, <1>4, <1>5, SeqEqual
<1> QED BY <1>1, <1>6 DEF s

LEMMA ControllerRuns ==
    ASSUME EarlyInput = FALSE, Ps2Inv, Controller, pc = "done"
    PROVE  Running'
<1>1. TypeOK /\ reply = <<>> /\ cmd = AfterAuxWrite /\ atBoot \in 0..255
  BY DEF Ps2Inv, LoadInv, ReplyInv, CommandInv, TypeOK
<1>2. HasBit(cmd, 1) /\ HasBit(cmd, 2) BY <1>1, CommandBits
<1>3. Running BY <1>1 DEF Ps2Inv, Idle, Controller, KbdWaits, AuxWaits
<1>4. ~out.full /\ UNCHANGED <<keyboard, mouse, user>> BY DEF Controller, Output
<1>5. UNCHANGED <<mods, reported, held, bothShifts, typed, buffer, offset, buttons, clicked, pressed, clicks>>
  BY <1>4 DEF keyboard, mouse, user
<1>6. latched = {} /\ Holding' = Holding BY <1>3, <1>4, <1>5 DEF Running, LineRaised, Holding
<1>7. kbdQueue \in Seq(0..255) /\ auxQueue \in Seq(0..255) BY <1>1, PendingType
<1>8. \A q \in Seq(0..255) : q # <<>> => <<Head(q)>> \o Tail(q) = q BY HeadAndTail
<1>9. CASE KbdWaits /\ Output(Byte("kbd", Head(kbdQueue))) /\ kbdQueue' = Tail(kbdQueue) /\ UNCHANGED auxQueue
  <2>1. kbdQueue # <<>> /\ out' = Byte("kbd", Head(kbdQueue)) /\ latched' = latched \cup LineOf(out', cmd)
    BY <1>9 DEF KbdWaits, Output
  <2>2. out'.full /\ out'.source = "kbd" /\ out'.value = Head(kbdQueue) BY <2>1 DEF Byte
  <2>3. latched' = {1} BY <1>2, <1>6, <2>1, <2>2 DEF LineOf
  <2>4. LineRaised' BY <2>2, <2>3 DEF LineRaised
  <2>5. Pending("kbd", kbdQueue)' = kbdQueue BY <1>7, <1>8, <1>9, <2>1, <2>2 DEF Pending
  <2>6. Pending("kbd", kbdQueue) = kbdQueue BY <1>4 DEF Pending
  <2>7. Pending("aux", auxQueue)' = Pending("aux", auxQueue) BY <1>4, <1>9, <2>2 DEF Pending
  <2>8. KeysFollow(kbdQueue, mods, reported, Holding, typed) BY <1>3, <2>6 DEF Running
  <2>9. ButtonsFollow(Pending("aux", auxQueue), offset, buffer[0], buttons, clicked, pressed, clicks)
    BY <1>3 DEF Running
  <2>10. KeysFollow(Pending("kbd", kbdQueue)', mods', reported', Holding', typed') BY <1>5, <1>6, <2>5, <2>8
  <2>11. ButtonsFollow(Pending("aux", auxQueue)', offset', buffer'[0], buttons', clicked', pressed', clicks')
    BY <1>5, <2>7, <2>9
  <2> QED BY <2>2, <2>4, <2>10, <2>11 DEF Running
<1>10. CASE AuxWaits /\ Output(Byte("aux", Head(auxQueue))) /\ auxQueue' = Tail(auxQueue) /\ UNCHANGED kbdQueue
  <2>1. auxQueue # <<>> /\ out' = Byte("aux", Head(auxQueue)) /\ latched' = latched \cup LineOf(out', cmd)
    BY <1>10 DEF AuxWaits, Output
  <2>2. out'.full /\ out'.source = "aux" /\ out'.value = Head(auxQueue) BY <2>1 DEF Byte
  <2>3. latched' = {12} BY <1>2, <1>6, <2>1, <2>2 DEF LineOf
  <2>4. LineRaised' BY <2>2, <2>3 DEF LineRaised
  <2>5. Pending("aux", auxQueue)' = auxQueue BY <1>7, <1>8, <1>10, <2>1, <2>2 DEF Pending
  <2>6. Pending("aux", auxQueue) = auxQueue BY <1>4 DEF Pending
  <2>7. Pending("kbd", kbdQueue)' = Pending("kbd", kbdQueue) BY <1>4, <1>10, <2>2 DEF Pending
  <2>8. KeysFollow(Pending("kbd", kbdQueue), mods, reported, Holding, typed) BY <1>3 DEF Running
  <2>9. ButtonsFollow(auxQueue, offset, buffer[0], buttons, clicked, pressed, clicks)
    BY <1>3, <2>6 DEF Running
  <2>10. KeysFollow(Pending("kbd", kbdQueue)', mods', reported', Holding', typed') BY <1>5, <1>6, <2>7, <2>8
  <2>11. ButtonsFollow(Pending("aux", auxQueue)', offset', buffer'[0], buttons', clicked', pressed', clicks')
    BY <1>5, <2>5, <2>9
  <2> QED BY <2>2, <2>4, <2>10, <2>11 DEF Running
<1> QED BY <1>1, <1>9, <1>10 DEF Controller

LEMMA InterruptsRun ==
    ASSUME EarlyInput = FALSE, Ps2Inv, Interrupts, pc = "done"
    PROVE  Idle' \/ Running'
<1>1. TypeOK /\ kbdHandles /\ auxHandles BY DEF Ps2Inv, LoadInv, Handling
<1>2. CASE Idle
  <2>1. /\ Untouched' /\ out'.value = out.value /\ (out'.full => out.full)
        /\ latched' \subseteq latched /\ UNCHANGED <<reply, cmd, devices, load>>
    BY <1>1, <1>2, StaleInterrupt DEF Idle
  <2> QED BY <1>2, <2>1 DEF Idle, StaleInv, devices
<1>3. CASE Running
  <2>1. out.full /\ out.source \in {"kbd", "aux"} BY <1>3 DEF Running, LineRaised, Interrupts, Interrupt
  <2>2. latched = IF out.source = "aux" THEN {12} ELSE {1} BY <1>3, <2>1 DEF Running, LineRaised
  <2>3. UNCHANGED <<kbdQueue, auxQueue, held, bothShifts, typed, pressed, clicks>>
    BY DEF Interrupts, Interrupt, devices, user
  <2>4. KeysFollow(Pending("kbd", kbdQueue), mods, reported, Holding, typed) BY <1>3 DEF Running
  <2>5. ButtonsFollow(Pending("aux", auxQueue), offset, buffer[0], buttons, clicked, pressed, clicks)
    BY <1>3 DEF Running
  <2>6. /\ reported \in Seq(Key) /\ typed \in Seq(Typed) /\ Holding \in Hands /\ Holding' = Holding
        /\ clicked \in Seq(Click) /\ clicks \in Seq(Click) /\ pressed \in SUBSET Buttons
        /\ offset \in 0..2 /\ buffer \in [0..2 -> 0..255]
    <3>1. buffer \in [0..2 -> 0..255] BY <1>1 DEF TypeOK, MOUSE_BUFFER_SIZE
    <3>2. offset \in 0..2 BY <1>1 DEF TypeOK, MOUSE_BUFFER_SIZE
    <3>3. Holding \in Hands /\ Holding' = Holding BY <1>1, <2>3 DEF TypeOK, Holding, Hands
    <3> QED BY <1>1, <3>1, <3>2, <3>3 DEF TypeOK, Buttons
  <2>7. /\ Pending("kbd", kbdQueue) \in Seq(0..255) /\ Pending("aux", auxQueue) \in Seq(0..255)
        /\ kbdQueue \in Seq(0..255) /\ auxQueue \in Seq(0..255) /\ out.value \in 0..255
    BY <1>1, PendingType
  <2>8. ControllerTypeOK BY <1>1, TypeParts DEF Types
  <2>9. \A q \in Seq(0..255) :
            /\ <<out.value>> \o q # <<>> /\ (<<out.value>> \o q)[1] = out.value
            /\ Tail(<<out.value>> \o q) = q
    BY <2>7, TailOfByte
  <2>10. CASE out.source = "kbd"
    <3>1. KeyboardHandler /\ latched' = {}
      BY <1>1, <2>2, <2>10 DEF Interrupts, Interrupt
    <3>2. ~out'.full BY <2>8, <3>1, ReadKeepsOut DEF KeyboardHandler
    <3> DEFINE P == <<out.value>> \o kbdQueue
    <3>3. Pending("kbd", kbdQueue) = P BY <2>1, <2>10 DEF Pending
    <3>4. Pending("kbd", kbdQueue)' = kbdQueue BY <2>3, <3>2 DEF Pending
    <3>5. Pending("aux", auxQueue)' = Pending("aux", auxQueue) BY <2>1, <2>3, <2>10, <3>2 DEF Pending
    <3>6. P # <<>> /\ P[1] = out.value /\ Tail(P) = kbdQueue BY <2>7, <2>9
    <3>7. P \in Seq(0..255) /\ KeysFollow(P, mods, reported, Holding, typed) BY <2>4, <2>7, <3>3
    <3> HIDE DEF P
    <3>8. mods' = ModsAfter(mods, P[1])
          /\ reported' = IF P[1] \in Keys
                         THEN Append(reported, [key |-> P[1], mods |-> ModsAfter(mods, P[1])]) ELSE reported
      BY <3>1, <3>6 DEF KeyboardHandler
    <3>9. KeysFollow(Tail(P), ModsAfter(mods, P[1]), reported', Holding, typed)
      BY <2>6, <3>6, <3>7, <3>8, ReadFollows
    <3>10. KeysFollow(Pending("kbd", kbdQueue)', mods', reported', Holding', typed')
      BY <2>3, <2>6, <3>4, <3>6, <3>8, <3>9
    <3>11. UNCHANGED <<buffer, offset, buttons, clicked>> BY <3>1 DEF KeyboardHandler, mouse
    <3>12. ButtonsFollow(Pending("aux", auxQueue)', offset', buffer'[0], buttons', clicked', pressed', clicks')
      BY <2>3, <2>5, <3>5, <3>11
    <3> QED BY <3>1, <3>2, <3>10, <3>12 DEF Running, LineRaised
  <2>11. CASE out.source = "aux"
    <3>1. MouseHandler /\ latched' = {} BY <1>1, <2>2, <2>11 DEF Interrupts, Interrupt
    <3>2. AuxData BY <2>1, <2>11 DEF AuxData
    <3>3. ReadData /\ UNCHANGED keyboard BY <3>1, <3>2 DEF MouseHandler
    <3>4. ~out'.full BY <2>8, <3>3, ReadKeepsOut
    <3> DEFINE P == <<out.value>> \o auxQueue
    <3>5. Pending("aux", auxQueue) = P BY <2>1, <2>11 DEF Pending
    <3>6. Pending("aux", auxQueue)' = auxQueue BY <2>3, <3>4 DEF Pending
    <3>7. Pending("kbd", kbdQueue)' = Pending("kbd", kbdQueue) BY <2>1, <2>3, <2>11, <3>4 DEF Pending
    <3>8. P # <<>> /\ P[1] = out.value /\ Tail(P) = auxQueue BY <2>7, <2>9
    <3>9. P \in Seq(0..255) /\ ButtonsFollow(P, offset, buffer[0], buttons, clicked, pressed, clicks)
      BY <2>5, <2>7, <3>5
    <3> HIDE DEF P
    <3>10. UNCHANGED <<mods, reported>> BY <3>3 DEF keyboard
    <3>11. KeysFollow(Pending("kbd", kbdQueue)', mods', reported', Holding', typed')
      BY <2>3, <2>4, <2>6, <3>7, <3>10
    <3>12. buffer' = [buffer EXCEPT ![offset] = out.value] /\ offset' = (offset + 1) % 3
      BY <3>1, <3>2 DEF MouseHandler, NextOffset, MOUSE_BUFFER_SIZE
    <3>13. offset' # 0 => clicked' = clicked \o ButtonEvents(buffer'[0]) /\ buttons' = buffer'[0] % 8
      BY <3>1, <3>2 DEF MouseHandler, Incomplete
    <3>14. offset' = 0 => UNCHANGED <<clicked, buttons>> BY <3>1, <3>2 DEF MouseHandler, Incomplete
    <3>15. ButtonsFollow(Tail(P), offset', buffer'[0], buttons', clicked', pressed, clicks)
      <4>1. CASE offset = 0
        <5>1. offset' = 1 /\ buffer'[0] = P[1] BY <2>6, <3>8, <3>12, <4>1
        <5>2. clicked' = clicked \o ButtonEvents(P[1]) /\ buttons' = P[1] % 8 BY <3>13, <5>1
        <5>3. ButtonsFollow(Tail(P), 1, P[1], P[1] % 8, clicked \o ButtonEvents(P[1]), pressed, clicks)
          BY <2>6, <3>8, <3>9, <4>1, ReadInfoFollows
        <5> QED BY <5>1, <5>2, <5>3
      <4>2. CASE offset \in {1, 2}
        <5>1. buffer'[0] = buffer[0] BY <2>6, <3>12, <4>2
        <5>2. /\ ButtonsFollow(Tail(P), offset', buffer[0], buttons, clicked, pressed, clicks)
              /\ buffer[0] = buttons /\ buffer[0] % 8 = buffer[0]
              /\ ButtonEvents(buffer[0]) = <<>>
          <6>1. ButtonsTyped(P, offset, clicked, pressed, clicks) BY <2>6, <3>9 DEF ButtonsTyped
          <6>2. offset # 0 BY <4>2
          <6>3. P # <<>> BY <3>8
          <6>4. ButtonsFollow(P, offset, buffer[0], buttons, clicked, pressed, clicks) BY <3>9
          <6>5. offset' = (offset + 1) % 3 BY <3>12
          <6> QED BY <6>1, <6>2, <6>3, <6>4, <6>5, ReadMotionFollows
        <5>3. clicked' = clicked /\ buttons' = buttons
          <6>1. clicked \o <<>> = clicked BY <2>6, ConcatEmptySeq
          <6> QED BY <3>13, <3>14, <5>1, <5>2, <6>1
        <5> QED BY <3>12, <5>1, <5>2, <5>3
      <4> QED BY <2>6, <4>1, <4>2
    <3>16. ButtonsFollow(Pending("aux", auxQueue)', offset', buffer'[0], buttons', clicked', pressed', clicks')
      BY <2>3, <3>6, <3>8, <3>15
    <3> QED BY <3>1, <3>4, <3>11, <3>16 DEF Running, LineRaised
  <2> QED BY <2>1, <2>10, <2>11
<1> QED BY <1>2, <1>3 DEF Ps2Inv

LEMMA StepKeepsPs2Inv ==
    ASSUME EarlyInput = FALSE, Ps2Inv, [Next]_vars
    PROVE  Ps2Inv'
<1>1. LoadInv' BY StepKeepsLoadInv DEF Ps2Inv
<1> SUFFICES ASSUME pc' = "done" PROVE Idle' \/ Running' BY <1>1 DEF Ps2Inv
<1>2. CASE Load BY <1>2, LoadRuns DEF Ps2Inv
<1>3. CASE User BY <1>3, UserRuns
<1>4. CASE Controller
  <2>1. pc = "done" BY <1>4, OthersKeepCommand DEF Ps2Inv
  <2> QED BY <1>4, <2>1, ControllerRuns
<1>5. CASE Interrupts
  <2>1. pc = "done" BY <1>5, OthersKeepCommand DEF Ps2Inv
  <2> QED BY <1>5, <2>1, InterruptsRun
<1>6. CASE UNCHANGED vars
  <2>1. UNCHANGED <<controller, devices, load, keyboard, mouse, user>> BY <1>6 DEF vars
  <2>2. /\ UNCHANGED <<out, latched, cmd, kbdQueue, auxQueue, pc, mods, reported>>
        /\ UNCHANGED <<buffer, offset, buttons, clicked, held, bothShifts, typed, pressed, clicks>>
    BY <2>1 DEF controller, devices, load, keyboard, mouse, user
  <2>3. Pending("kbd", kbdQueue)' = Pending("kbd", kbdQueue)
        /\ Pending("aux", auxQueue)' = Pending("aux", auxQueue)
    BY <2>2 DEF Pending
  <2>4. Idle => Idle' BY <2>2 DEF Idle, Untouched, StaleInv
  <2>5. Running => Running'
    <3>1. Holding' = Holding BY <2>2 DEF Holding
    <3> QED BY <2>2, <2>3, <3>1 DEF Running, LineRaised
  <2> QED BY <2>2, <2>4, <2>5 DEF Ps2Inv
<1> QED BY <1>2, <1>3, <1>4, <1>5, <1>6 DEF Next

LEMMA Ps2InvFollows ==
    ASSUME Ps2Inv
    PROVE  KeysInOrder /\ ButtonsInOrder
<1>1. /\ reported \in Seq(Key) /\ typed \in Seq(Typed)
      /\ clicked \in Seq(Click) /\ clicks \in Seq(Click)
  BY DEF Ps2Inv, LoadInv, TypeOK
<1>2. Tells(reported, typed) /\ Follows(clicked, clicks)
  <2>1. CASE Untouched BY <2>1 DEF Untouched, Follows, Tells
  <2>2. CASE Running BY <2>2 DEF Running, KeysFollow, ButtonsFollow
  <2> QED BY <2>1, <2>2 DEF Ps2Inv, LoadInv, Loading, Idle
<1>3. KeysInOrder BY <1>1, <1>2, TellsInOrder
<1> QED BY <1>1, <1>2, <1>3, FollowsIsPrefix DEF ButtonsInOrder

LEMMA AlwaysPs2Inv ==
    ASSUME EarlyInput = FALSE
    PROVE  Spec => []Ps2Inv
<1>1. Ps2Inv /\ [Next]_vars => Ps2Inv' BY StepKeepsPs2Inv
<1>2. Init => Ps2Inv
  <2>1. Init => pc # "done" BY DEF Init
  <2> QED BY <2>1, InitLoadInv DEF Ps2Inv
<1> QED BY <1>1, <1>2, PTL DEF Spec

(* Every keyDown call is the next key the user pressed, for any number of  *)
(* keys, whatever the mouse puts between them in the shared buffer and     *)
(* whatever Load left latched.  Its modifiers are those of that moment, but *)
(* for a shift after both shift keys were down at once: releasing one of   *)
(* them clears the modifier (keyboard.cpp:50-51).                          *)
THEOREM KeysAreInOrder ==
    ASSUME EarlyInput = FALSE
    PROVE  Spec => []KeysInOrder
BY AlwaysPs2Inv, Ps2InvFollows, PTL

(* The button callbacks follow the buttons for any number of packets: the  *)
(* driver's offset never drifts from the packets (mouse.cpp, HandleInterrupt). *)
THEOREM ButtonsAreInOrder ==
    ASSUME EarlyInput = FALSE
    PROVE  Spec => []ButtonsInOrder
BY AlwaysPs2Inv, Ps2InvFollows, PTL

-----------------------------------------------------------------------------
(* Reading, after Load.                                                    *)
LEMMA DrainedFollows ==
    ASSUME Ps2Inv
    PROVE  NothingLost
<1>1. TypeOK BY DEF Ps2Inv, LoadInv
<1>2. /\ reported \in Seq(Key) /\ typed \in Seq(Typed)
      /\ clicked \in Seq(Click) /\ clicks \in Seq(Click)
  BY <1>1 DEF TypeOK
<1>3. /\ Len(reported) \in Nat /\ Len(typed) \in Nat
      /\ Len(clicked) \in Nat /\ Len(clicks) \in Nat
  BY <1>2, LenProperties
<1>4. CASE Idle
  <2>1. Knows({}, NoHands) BY DEF NoHands, Knows, Agrees, Sure, ModsOf, Shifts
  <2>2. Info({}) = 0 BY DEF Info
  <2>3. /\ reported = <<>> /\ typed = <<>> /\ mods = {} /\ held = {} /\ bothShifts = FALSE
        /\ clicked = clicks /\ buttons = 0 /\ pressed = {}
    BY <1>4 DEF Idle, Untouched
  <2>4. Len(reported) = Len(typed) /\ KeysInOrder BY <2>3 DEF KeysInOrder
  <2>5. Agrees(mods, ModsOf(held), Sure(held, bothShifts)) BY <2>1, <2>3 DEF Knows, NoHands
  <2> QED BY <2>2, <2>3, <2>4, <2>5 DEF NothingLost
<1>5. CASE Running
  <2>1. ASSUME kbdQueue = <<>>, out.full => out.source # "kbd"
        PROVE  /\ Len(reported) = Len(typed) /\ KeysInOrder
               /\ Agrees(mods, ModsOf(held), Sure(held, bothShifts))
    <3>1. Pending("kbd", kbdQueue) = <<>> BY <2>1 DEF Pending
    <3>2. KeysFollow(<<>>, mods, reported, Holding, typed) BY <1>5, <3>1 DEF Running
    <3>3. PICK h, c : KeyEnds(<<>>, mods, reported, Holding, typed, h, c) BY <3>2 DEF KeysFollow
    <3>4. Len(<<>>) = 0 OBVIOUS
    <3>5. Len(reported) = Len(typed) /\ Knows(mods, Holding) BY <3>3, <3>4 DEF KeyEnds
    <3>6. Agrees(mods, ModsOf(held), Sure(held, bothShifts)) BY <3>5 DEF Knows, Holding
    <3>7. KeysInOrder BY <1>2, <3>2, TellsInOrder DEF KeysFollow
    <3> QED BY <3>5, <3>6, <3>7
  <2>2. ASSUME auxQueue = <<>>, out.full => out.source # "aux"
        PROVE  clicked = clicks /\ buttons = Info(pressed)
    <3>1. Pending("aux", auxQueue) = <<>> BY <2>2 DEF Pending
    <3>2. ButtonsFollow(<<>>, offset, buffer[0], buttons, clicked, pressed, clicks)
      BY <1>5, <3>1 DEF Running
    <3>3. PICK d, e : ButtonEnds(<<>>, buttons, clicked, pressed, clicks, d, e)
      BY <3>2 DEF ButtonsFollow
    <3>4. Len(<<>>) = 0 OBVIOUS
    <3>5. Len(clicked) = Len(clicks) /\ buttons = Info(pressed) BY <3>3, <3>4 DEF ButtonEnds
    <3>6. \A i \in 1..Len(clicked) : clicked[i] = clicks[i] BY <3>2 DEF ButtonsFollow, Follows
    <3>7. clicked = clicks BY <1>2, <3>5, <3>6, SeqEqual
    <3> QED BY <3>5, <3>7
  <2> QED BY <2>1, <2>2 DEF NothingLost
<1> QED BY <1>4, <1>5 DEF Ps2Inv, NothingLost

(* When nothing of a device is on its way its driver has reported all that *)
(* the user did, and agrees with the user on what is held down, but for a  *)
(* shift held on after the other one was released: no key or click is      *)
(* dropped between the handlers (keyboard.cpp and mouse.cpp, HandleInterrupt). *)
THEOREM NothingIsLost ==
    ASSUME EarlyInput = FALSE
    PROVE  Spec => []NothingLost
BY AlwaysPs2Inv, DrainedFollows, PTL

LEMMA FetchFollows ==
    ASSUME Ps2Inv
    PROVE  EveryByteFetched
<1> SUFFICES ASSUME pc = "done"
             PROVE  /\ reply = <<>>
                    /\ out.full => /\ out.source = "kbd" => 1 \in latched /\ kbdHandles
                                   /\ out.source = "aux" => 12 \in latched /\ auxHandles
                                   /\ out.source \in {"kbd", "aux"}
                    /\ kbdQueue # <<>> => KbdWaits
                    /\ auxQueue # <<>> => AuxWaits
  BY DEF EveryByteFetched
<1>1. /\ atBoot \in 0..255 /\ cmd = AfterAuxWrite /\ reply = <<>>
      /\ kbdHandles /\ auxHandles
  BY DEF Ps2Inv, LoadInv, TypeOK, CommandInv, ReplyInv, Handling
<1>2. ~HasBit(cmd, 16) /\ ~HasBit(cmd, 32) BY <1>1, CommandBits
<1>3. out.full => Running BY DEF Ps2Inv, Idle
<1>4. out.full => out.source \in {"kbd", "aux"} BY <1>3 DEF Running
<1>5. /\ out.full /\ out.source = "kbd" => 1 \in latched
      /\ out.full /\ out.source = "aux" => 12 \in latched
  BY <1>3 DEF Running, LineRaised
<1> QED BY <1>1, <1>2, <1>4, <1>5 DEF KbdWaits, AuxWaits

(* No byte is ever stuck in front of the two devices: once both drivers are *)
(* loaded a full buffer has its interrupt latched and its driver there, and *)
(* the interfaces are on (keyboard.cpp and mouse.cpp, Load).               *)
THEOREM BytesAreFetched ==
    ASSUME EarlyInput = FALSE
    PROVE  Spec => []EveryByteFetched
BY AlwaysPs2Inv, FetchFollows, PTL

LEMMA ReaderAdvances ==
    ASSUME Ps2Inv, Next, pc = "done", UNCHANGED user
    PROVE  StepsToRead' < StepsToRead
<1>1. TypeOK /\ reply = <<>> /\ kbdHandles /\ auxHandles /\ atBoot \in 0..255 /\ cmd = AfterAuxWrite
  BY DEF Ps2Inv, LoadInv, ReplyInv, Handling, TypeOK, CommandInv
<1>2. /\ kbdQueue \in Seq(0..255) /\ auxQueue \in Seq(0..255)
      /\ Len(kbdQueue) \in Nat /\ Len(auxQueue) \in Nat
  BY <1>1, LenProperties DEF TypeOK
<1>3. ControllerTypeOK BY <1>1, TypeParts DEF Types
<1>4. One(out.full) \in {0, 1} /\ One(out'.full) \in {0, 1} BY DEF One
<1>5. ~Load
  BY DEF Load, Drain, EnableInterface, AskCommandByte, ReadCommandByte, WriteCommandByte,
     KbdRequest, Stream, ReadAck, AuxRequest, At
<1>6. CASE Controller
  <2>1. ~out.full BY <1>6 DEF Controller, Output
  <2>2. Running \/ latched = {}
    BY <1>6, <1>1 DEF Ps2Inv, Idle, Controller, KbdWaits, AuxWaits
  <2>3. latched = {} BY <2>1, <2>2 DEF Running, LineRaised
  <2>4. latched' = {1} \/ latched' = {12} \/ latched' = {}
    <3>1. \E b : latched' = latched \cup LineOf(b, cmd) BY <1>6 DEF Controller, Output
    <3> QED BY <2>3, <3>1 DEF LineOf
  <2>5. One(1 \in latched') + One(12 \in latched') <= 1 BY <2>4 DEF One
  <2>6. One(1 \in latched) + One(12 \in latched) = 0 /\ One(out.full) = 0 BY <2>1, <2>3 DEF One
  <2>7. Len(kbdQueue') + Len(auxQueue') + 1 = Len(kbdQueue) + Len(auxQueue)
    <3>1. kbdQueue # <<>> => Len(Tail(kbdQueue)) + 1 = Len(kbdQueue) BY <1>2, HeadTailProperties
    <3>2. auxQueue # <<>> => Len(Tail(auxQueue)) + 1 = Len(auxQueue) BY <1>2, HeadTailProperties
    <3>3. \/ kbdQueue # <<>> /\ kbdQueue' = Tail(kbdQueue) /\ auxQueue' = auxQueue
          \/ auxQueue # <<>> /\ auxQueue' = Tail(auxQueue) /\ kbdQueue' = kbdQueue
      BY <1>1, <1>6 DEF Controller, KbdWaits, AuxWaits
    <3>4. kbdQueue # <<>> => Len(Tail(kbdQueue)) \in Nat BY <1>2, HeadTailProperties, LenProperties
    <3>5. auxQueue # <<>> => Len(Tail(auxQueue)) \in Nat BY <1>2, HeadTailProperties, LenProperties
    <3>6. CASE kbdQueue # <<>> /\ kbdQueue' = Tail(kbdQueue) /\ auxQueue' = auxQueue
      BY <1>2, <3>1, <3>4, <3>6
    <3>7. CASE auxQueue # <<>> /\ auxQueue' = Tail(auxQueue) /\ kbdQueue' = kbdQueue
      BY <1>2, <3>2, <3>5, <3>7
    <3> QED BY <3>3, <3>6, <3>7
  <2>8. Len(kbdQueue') \in Nat /\ Len(auxQueue') \in Nat
    <3>1. kbdQueue # <<>> => Tail(kbdQueue) \in Seq(0..255) BY <1>2, HeadTailProperties
    <3>2. auxQueue # <<>> => Tail(auxQueue) \in Seq(0..255) BY <1>2, HeadTailProperties
    <3>3. kbdQueue' \in Seq(0..255) /\ auxQueue' \in Seq(0..255)
      BY <1>1, <1>2, <1>6, <3>1, <3>2 DEF Controller, KbdWaits, AuxWaits
    <3> QED BY <3>3, LenProperties
  <2>9. /\ One(1 \in latched') \in {0, 1} /\ One(12 \in latched') \in {0, 1}
        /\ One(1 \in latched) \in {0, 1} /\ One(12 \in latched) \in {0, 1}
    BY DEF One
  <2> QED BY <1>2, <1>4, <2>5, <2>6, <2>7, <2>8, <2>9 DEF StepsToRead
<1>7. CASE Interrupts
  <2>1. UNCHANGED <<kbdQueue, auxQueue>> BY <1>7 DEF Interrupts, Interrupt, devices
  <2>2. PICK line \in {1, 12} : line \in latched /\ latched' = latched \ {line}
    BY <1>7 DEF Interrupts, Interrupt
  <2>3. One(out'.full) <= One(out.full)
    <3>1. out' = out \/ ReadData
      BY <1>7 DEF Interrupts, Interrupt, KeyboardHandler, MouseHandler
    <3>2. ReadData => ~out'.full BY <1>3, ReadKeepsOut
    <3> QED BY <3>1, <3>2 DEF One
  <2>4. One(1 \in latched') + One(12 \in latched') + 1 = One(1 \in latched) + One(12 \in latched)
    <3>1. CASE line = 1 BY <2>2, <3>1 DEF One
    <3>2. CASE line = 12 BY <2>2, <3>2 DEF One
    <3> QED BY <2>2, <3>1, <3>2
  <2>5. /\ One(1 \in latched') \in {0, 1} /\ One(12 \in latched') \in {0, 1}
        /\ One(1 \in latched) \in {0, 1} /\ One(12 \in latched) \in {0, 1}
    BY DEF One
  <2> QED BY <1>2, <1>4, <2>1, <2>3, <2>4, <2>5 DEF StepsToRead
<1>8. ~User
  <2>1. ASSUME NEW k \in Keys, Press(k) PROVE FALSE
    BY <2>1 DEF Press, user
  <2>2. ASSUME NEW k \in Keys, Release(k) PROVE FALSE
    BY <2>2 DEF Release, user
  <2>3. ASSUME NEW b \in {0, 1, 2}, NEW m \in Motions, MousePacket(b, m) PROVE FALSE
    <3>1. moves' = Append(moves, m) /\ moves' = moves BY <2>3 DEF MousePacket, user
    <3>2. moves \in Seq(Motions) BY <1>1 DEF TypeOK
    <3>3. Len(Append(moves, m)) = Len(moves) + 1 /\ Len(moves) \in Nat BY <3>2, LenProperties, AppendProperties
    <3> QED BY <3>1, <3>3
  <2> QED BY <2>1, <2>2, <2>3 DEF User
<1> QED BY <1>5, <1>6, <1>7, <1>8 DEF Next

(* After Load every step of the controller and every interrupt brings the  *)
(* reading nearer to its end: no handler returns from a byte it has left   *)
(* where it was, for then neither device would be heard again.             *)
THEOREM ReadingGetsOn ==
    ASSUME EarlyInput = FALSE
    PROVE  Spec => ReadingAdvances
<1>1. Ps2Inv /\ [Next]_vars
          => [pc = "done" /\ UNCHANGED user => StepsToRead' < StepsToRead]_vars
  BY ReaderAdvances
<1> QED BY <1>1, AlwaysPs2Inv, PTL DEF Spec, ReadingAdvances

-----------------------------------------------------------------------------
(* The motions: of the mouse's bytes the driver has read q whole packets and *)
(* offset bytes more, the bytes P still to be read are the rest, and the   *)
(* buffer holds the last dx and the last dy that were read.                *)
MotionBytes(P, q, o, mv) ==
    /\ 3 * q + o + Len(P) = 3 * Len(mv)
    /\ \A i \in 1..Len(mv), j \in 1..Len(P) :
           /\ 3 * q + o + j = 3 * i - 1 => P[j] = mv[i][1]
           /\ 3 * q + o + j = 3 * i => P[j] = mv[i][2]

HalfIn(mv, k, i) == IF k = 0 THEN {0, 1} ELSE {mv[k][i]}

MotionAt(P, q, o, b, mv) ==
    /\ MotionBytes(P, q, o, mv)
    /\ b[1] \in HalfIn(mv, IF o = 2 THEN q + 1 ELSE q, 1) /\ b[2] \in HalfIn(mv, q, 2)

MotionRead(P, o, b, mv) == \E q \in 0..Len(mv) : MotionAt(P, q, o, b, mv)

Neighbours(m, mv) ==
    \E k \in 0..Len(mv), l \in 0..Len(mv) :
        l \in {k, k + 1} /\ m[1] \in HalfIn(mv, l, 1) /\ m[2] \in HalfIn(mv, k, 2)

AllNeighbours(md, mv) == \A n \in DOMAIN md : Neighbours(md[n], mv)

MotionInv ==
    /\ AllNeighbours(moved, moves)
    /\ pc = "done" => MotionRead(Pending("aux", auxQueue), offset, buffer, moves)
    /\ pc # "done" => moves = <<>> /\ moved = <<>> /\ buffer[1] \in {0, 1} /\ buffer[2] \in {0, 1}

LEMMA InitMotionInv == Init => MotionInv
<1> SUFFICES ASSUME Init PROVE MotionInv OBVIOUS
<1>1. moves = <<>> /\ moved = <<>> /\ pc # "done" BY DEF Init
<1>2. PICK garbage \in {0, 1} : buffer = [n \in 0..MOUSE_BUFFER_SIZE - 1 |-> garbage] BY DEF Init
<1>3. buffer[1] \in {0, 1} /\ buffer[2] \in {0, 1} BY <1>2 DEF MOUSE_BUFFER_SIZE
<1>4. AllNeighbours(moved, moves) BY <1>1, EmptySeq DEF AllNeighbours
<1> QED BY <1>1, <1>3, <1>4 DEF MotionInv

(* A step that neither reports nor reads a byte of the mouse.              *)
LEMMA MotionStays ==
    ASSUME MotionInv, UNCHANGED <<pc, moves, moved, buffer, offset>>,
           Pending("aux", auxQueue)' = Pending("aux", auxQueue)
    PROVE  MotionInv'
BY DEF MotionInv

LEMMA LoadMotionInv ==
    ASSUME Ps2Inv, MotionInv, Load
    PROVE  MotionInv'
<1>1. UNCHANGED <<buffer, offset, moved, moves>>
  BY DEF Load, Drain, EnableInterface, AskCommandByte, ReadCommandByte, WriteCommandByte, KbdRequest,
     Stream, ReadAck, AuxRequest, Elsewhere, mouse, user
<1>2. pc # "done"
  BY DEF Load, Drain, EnableInterface, AskCommandByte, ReadCommandByte, WriteCommandByte, KbdRequest,
     Stream, ReadAck, AuxRequest, At
<1>3. /\ moves' = <<>> /\ moved' = <<>> /\ buffer'[1] \in {0, 1} /\ buffer'[2] \in {0, 1}
  BY <1>1, <1>2 DEF MotionInv
<1>4. AllNeighbours(moved', moves') BY <1>3, EmptySeq DEF AllNeighbours
<1>5. ASSUME pc' = "done" PROVE MotionRead(Pending("aux", auxQueue)', offset', buffer', moves')
  <2>1. Idle' BY <1>5, LoadRuns DEF Ps2Inv
  <2>2. Pending("aux", auxQueue)' = <<>> /\ offset' = 0 BY <2>1 DEF Idle, Untouched, Pending
  <2>3. Len(moves') = 0 /\ Len(<<>>) = 0 BY <1>3
  <2>4. MotionBytes(<<>>, 0, 0, moves') BY <2>3 DEF MotionBytes
  <2>5. MotionAt(<<>>, 0, 0, buffer', moves') BY <1>3, <2>4 DEF MotionAt, HalfIn
  <2>6. 0 \in 0..Len(moves') BY <2>3
  <2> QED BY <2>2, <2>5, <2>6 DEF MotionRead
<1> QED BY <1>3, <1>4, <1>5 DEF MotionInv

LEMMA ControllerMotionInv ==
    ASSUME Ps2Inv, MotionInv, Controller
    PROVE  MotionInv'
<1>1. ~out.full /\ UNCHANGED <<pc, moves, moved, buffer, offset>>
  BY DEF Controller, Output, load, mouse, user
<1>2. auxQueue \in Seq(0..255) BY DEF Ps2Inv, LoadInv, TypeOK
<1>3. CASE pc # "done" BY <1>1, <1>3 DEF MotionInv
<1>4. CASE pc = "done"
  <2>1. reply = <<>> BY <1>4 DEF Ps2Inv, LoadInv, ReplyInv
  <2>2. CASE out' = Byte("kbd", Head(kbdQueue)) /\ auxQueue' = auxQueue
    <3>1. out'.full /\ out'.source = "kbd" BY <2>2 DEF Byte
    <3>2. Pending("aux", auxQueue)' = Pending("aux", auxQueue) BY <1>1, <2>2, <3>1 DEF Pending
    <3> QED BY <1>1, <3>2, MotionStays
  <2>3. CASE auxQueue # <<>> /\ out' = Byte("aux", Head(auxQueue)) /\ auxQueue' = Tail(auxQueue)
    <3>1. out'.full /\ out'.source = "aux" /\ out'.value = Head(auxQueue) BY <2>3 DEF Byte
    <3>2. <<Head(auxQueue)>> \o Tail(auxQueue) = auxQueue BY <1>2, <2>3, HeadAndTail
    <3>3. Pending("aux", auxQueue)' = Pending("aux", auxQueue) BY <1>1, <2>3, <3>1, <3>2 DEF Pending
    <3> QED BY <1>1, <3>3, MotionStays
  <2> QED BY <2>1, <2>2, <2>3 DEF Controller, Output, AuxWaits
<1> QED BY <1>3, <1>4

(* A packet puts its three bytes at the end.                               *)
LEMMA PacketMotionBytes ==
    ASSUME NEW P \in Seq(0..255), NEW mv \in Seq(Motions), NEW q \in Nat, NEW o \in 0..2,
           NEW info \in 0..255, NEW m \in Motions, MotionBytes(P, q, o, mv)
    PROVE  MotionBytes(P \o <<info, m[1], m[2]>>, q, o, Append(mv, m))
<1> DEFINE packet == <<info, m[1], m[2]>>
           n == Len(P)
           k == Len(mv)
           P2 == P \o packet
           mv2 == Append(mv, m)
<1>1. m[1] \in 0..255 /\ m[2] \in 0..255 BY DEF Motions
<1>2. packet \in Seq(0..255) /\ Len(packet) = 3 /\ packet[2] = m[1] /\ packet[3] = m[2] BY <1>1
<1>3. n \in Nat /\ k \in Nat BY LenProperties
<1>4. Len(P2) = n + 3 /\ \A j \in 1..n + 3 : P2[j] = IF j <= n THEN P[j] ELSE packet[j - n]
  <2> HIDE DEF packet
  <2>1. Len(P \o packet) = Len(P) + Len(packet)
        /\ \A j \in 1..Len(P) + Len(packet) :
               (P \o packet)[j] = IF j <= Len(P) THEN P[j] ELSE packet[j - Len(P)]
    BY <1>2, ConcatProperties, ZenonT(60)
  <2> QED BY <1>2, <2>1
<1>5. Len(mv2) = k + 1 /\ mv2[k + 1] = m /\ \A i \in 1..k : mv2[i] = mv[i]
  BY AppendProperties
<1>6. 3 * q + o + n = 3 * k BY DEF MotionBytes
<1>7. \A i \in 1..k, j \in 1..n : /\ 3 * q + o + j = 3 * i - 1 => P[j] = mv[i][1]
                                  /\ 3 * q + o + j = 3 * i => P[j] = mv[i][2]
  BY DEF MotionBytes
<1> HIDE DEF packet, P2, mv2, n, k
<1>8. ASSUME NEW i \in 1..k + 1, NEW j \in 1..n + 3
      PROVE  /\ 3 * q + o + j = 3 * i - 1 => P2[j] = mv2[i][1]
             /\ 3 * q + o + j = 3 * i => P2[j] = mv2[i][2]
  <2>1. CASE j <= n
    <3>1. j \in 1..n /\ P2[j] = P[j] BY <1>3, <1>4, <2>1
    <3>2. 3 * q + o + j <= 3 * k BY <1>3, <1>6, <2>1
    <3>3. 3 * q + o + j = 3 * i - 1 \/ 3 * q + o + j = 3 * i => i \in 1..k BY <1>3, <3>2
    <3>4. i \in 1..k => mv2[i] = mv[i] BY <1>5
    <3>5. i \in 1..k => /\ 3 * q + o + j = 3 * i - 1 => P[j] = mv[i][1]
                        /\ 3 * q + o + j = 3 * i => P[j] = mv[i][2]
      BY <1>7, <3>1
    <3> QED BY <3>1, <3>3, <3>4, <3>5
  <2>2. CASE j > n
    <3>1. P2[j] = packet[j - n] BY <1>3, <1>4, <2>2
    <3>2. 3 * q + o + j = 3 * k + (j - n) BY <1>3, <1>6
    <3>3. 3 * q + o + j = 3 * i - 1 => i = k + 1 /\ j - n = 2 BY <1>3, <2>2, <3>2
    <3>4. 3 * q + o + j = 3 * i => i = k + 1 /\ j - n = 3 BY <1>3, <2>2, <3>2
    <3> QED BY <1>2, <1>5, <3>1, <3>3, <3>4
  <2> QED BY <1>3, <2>1, <2>2
<1>9. 3 * q + o + Len(P2) = 3 * Len(mv2) BY <1>3, <1>4, <1>5, <1>6
<1>10. MotionBytes(P2, q, o, mv2) BY <1>4, <1>5, <1>8, <1>9 DEF MotionBytes
<1> QED BY <1>10 DEF P2, mv2, packet

LEMMA HalfStays ==
    ASSUME NEW mv, NEW mv2, Len(mv) \in Nat, \A i \in 1..Len(mv) : mv2[i] = mv[i]
    PROVE  \A k \in 0..Len(mv), i \in {1, 2} : HalfIn(mv2, k, i) = HalfIn(mv, k, i)
<1> SUFFICES ASSUME NEW k \in 0..Len(mv), NEW i \in {1, 2}
             PROVE  HalfIn(mv2, k, i) = HalfIn(mv, k, i)
  OBVIOUS
<1>1. CASE k = 0 BY <1>1 DEF HalfIn
<1>2. CASE k # 0
  <2>1. k \in 1..Len(mv) BY <1>2
  <2>2. mv2[k] = mv[k] BY <2>1
  <2>3. HalfIn(mv2, k, i) = {mv2[k][i]} /\ HalfIn(mv, k, i) = {mv[k][i]} BY <1>2 DEF HalfIn
  <2> QED BY <2>2, <2>3
<1> QED BY <1>1, <1>2

LEMMA PacketMotion ==
    ASSUME NEW P \in Seq(0..255), NEW mv \in Seq(Motions), NEW o \in 0..2, NEW b,
           NEW info \in 0..255, NEW m \in Motions, MotionRead(P, o, b, mv)
    PROVE  MotionRead(P \o <<info, m[1], m[2]>>, o, b, Append(mv, m))
<1> DEFINE mv2 == Append(mv, m)
           P2 == P \o <<info, m[1], m[2]>>
<1>1. PICK q \in 0..Len(mv) : MotionAt(P, q, o, b, mv) BY DEF MotionRead
<1>2. Len(mv) \in Nat /\ Len(P) \in Nat /\ q \in Nat BY LenProperties
<1>3. MotionBytes(P2, q, o, mv2)
  <2>1. MotionBytes(P, q, o, mv) BY <1>1 DEF MotionAt
  <2> QED BY <1>2, <2>1, PacketMotionBytes
<1>4. Len(mv2) = Len(mv) + 1 /\ \A i \in 1..Len(mv) : mv2[i] = mv[i] BY AppendProperties
<1> HIDE DEF mv2, P2
<1>5. \A k \in 0..Len(mv), i \in {1, 2} : HalfIn(mv2, k, i) = HalfIn(mv, k, i)
  BY <1>2, <1>4, HalfStays
<1>6. o = 2 => q + 1 \in 0..Len(mv)
  <2>1. 3 * q + o + Len(P) = 3 * Len(mv) BY <1>1 DEF MotionAt, MotionBytes
  <2> QED BY <1>2, <2>1
<1>7. b[1] \in HalfIn(mv, IF o = 2 THEN q + 1 ELSE q, 1) /\ b[2] \in HalfIn(mv, q, 2)
  BY <1>1 DEF MotionAt
<1>8. b[1] \in HalfIn(mv2, IF o = 2 THEN q + 1 ELSE q, 1) /\ b[2] \in HalfIn(mv2, q, 2)
  BY <1>5, <1>6, <1>7
<1>9. MotionAt(P2, q, o, b, mv2) BY <1>3, <1>8 DEF MotionAt
<1>10. q \in 0..Len(mv2) BY <1>2, <1>4
<1>11. MotionRead(P2, o, b, mv2) BY <1>9, <1>10 DEF MotionRead
<1> QED BY <1>11 DEF P2, mv2

LEMMA OldNeighbours ==
    ASSUME NEW mv \in Seq(Motions), NEW m \in Motions, NEW md, AllNeighbours(md, mv)
    PROVE  AllNeighbours(md, Append(mv, m))
<1> DEFINE mv2 == Append(mv, m)
<1>1. Len(mv) \in Nat /\ Len(mv2) = Len(mv) + 1 /\ \A i \in 1..Len(mv) : mv2[i] = mv[i]
  BY LenProperties, AppendProperties
<1> HIDE DEF mv2
<1>2. \A k \in 0..Len(mv), i \in {1, 2} : HalfIn(mv2, k, i) = HalfIn(mv, k, i)
  BY <1>1, HalfStays
<1>3. 0..Len(mv) \subseteq 0..Len(mv2) BY <1>1
<1>4. ASSUME NEW x, Neighbours(x, mv) PROVE Neighbours(x, mv2)
  <2>1. PICK k \in 0..Len(mv), l \in 0..Len(mv) :
            l \in {k, k + 1} /\ x[1] \in HalfIn(mv, l, 1) /\ x[2] \in HalfIn(mv, k, 2)
    BY <1>4 DEF Neighbours
  <2>2. x[1] \in HalfIn(mv2, l, 1) /\ x[2] \in HalfIn(mv2, k, 2) BY <1>2, <2>1
  <2>3. k \in 0..Len(mv2) /\ l \in 0..Len(mv2) BY <1>3
  <2> QED BY <2>1, <2>2, <2>3 DEF Neighbours
<1>5. AllNeighbours(md, mv2) BY <1>4 DEF AllNeighbours
<1> QED BY <1>5 DEF mv2

LEMMA UserMotionInv ==
    ASSUME EarlyInput = FALSE, Ps2Inv, MotionInv, User
    PROVE  MotionInv'
<1>1. TypeOK BY DEF Ps2Inv, LoadInv
<1>2. pc = "done" /\ UNCHANGED <<out, pc, moved, buffer, offset>>
  BY DEF User, Press, Release, MousePacket, UserActs, controller, load, mouse
<1>3. ASSUME NEW k \in Keys, Press(k) \/ Release(k) PROVE MotionInv'
  <2>1. UNCHANGED <<auxQueue, moves>> BY <1>3 DEF Press, Release
  <2>2. Pending("aux", auxQueue)' = Pending("aux", auxQueue) BY <1>2, <2>1 DEF Pending
  <2> QED BY <1>2, <2>1, <2>2, MotionStays
<1>4. ASSUME NEW b \in {0, 1, 2}, NEW m \in Motions, MousePacket(b, m) PROVE MotionInv'
  <2>1. auxQueue' = auxQueue \o <<Info(pressed'), m[1], m[2]>> /\ moves' = Append(moves, m)
    BY <1>4 DEF MousePacket
  <2>2. Info(pressed') \in 0..255 /\ m[1] \in 0..255 /\ m[2] \in 0..255 BY DEF Info, Motions
  <2>3. moves \in Seq(Motions) /\ offset \in 0..2 BY <1>1 DEF TypeOK, MOUSE_BUFFER_SIZE
  <2>4. Pending("aux", auxQueue) \in Seq(0..255) BY <1>1, PendingType
  <2>5. MotionRead(Pending("aux", auxQueue), offset, buffer, moves) BY <1>2 DEF MotionInv
  <2>6. Pending("aux", auxQueue)' = Pending("aux", auxQueue) \o <<Info(pressed'), m[1], m[2]>>
    <3>1. <<Info(pressed'), m[1], m[2]>> \in Seq(0..255) BY <2>2
    <3> QED BY <1>1, <1>2, <2>1, <3>1, PendingGrows
  <2>7. MotionRead(Pending("aux", auxQueue)', offset, buffer, moves')
    <3> DEFINE info == Info(pressed')
               P == Pending("aux", auxQueue)
    <3>1. info \in 0..255 /\ P \in Seq(0..255) /\ MotionRead(P, offset, buffer, moves)
      BY <2>2, <2>4, <2>5
    <3> HIDE DEF info, P
    <3>2. MotionRead(P \o <<info, m[1], m[2]>>, offset, buffer, Append(moves, m))
      BY <2>3, <3>1, PacketMotion
    <3> QED BY <2>1, <2>6, <3>2 DEF info, P
  <2>8. AllNeighbours(moved, moves')
    <3>1. AllNeighbours(moved, moves) BY DEF MotionInv
    <3> QED BY <2>1, <2>3, <3>1, OldNeighbours
  <2> QED BY <1>2, <2>7, <2>8 DEF MotionInv
<1> QED BY <1>3, <1>4 DEF User

(* The next byte of the mouse.                                             *)
ByteRead(v, rest, mv, o, b, o2, b2) ==
    /\ v \in 0..255 /\ rest \in Seq(0..255) /\ mv \in Seq(Motions)
    /\ o \in 0..2 /\ b \in [0..2 -> 0..255]
    /\ o2 = (o + 1) % 3 /\ b2 = [b EXCEPT ![o] = v]

LEMMA ReadMotion ==
    ASSUME NEW v, NEW rest, NEW mv, NEW o, NEW b, NEW o2, NEW b2,
           ByteRead(v, rest, mv, o, b, o2, b2), MotionRead(<<v>> \o rest, o, b, mv)
    PROVE  /\ MotionRead(rest, o2, b2, mv)
           /\ o2 # 0 => Neighbours(<<b2[1], b2[2]>>, mv)
<1> DEFINE P == <<v>> \o rest
<1>0. /\ v \in 0..255 /\ rest \in Seq(0..255) /\ mv \in Seq(Motions)
      /\ o \in 0..2 /\ b \in [0..2 -> 0..255]
      /\ o2 = (o + 1) % 3 /\ b2 = [b EXCEPT ![o] = v]
  BY DEF ByteRead
<1>1. PICK q \in 0..Len(mv) : MotionAt(P, q, o, b, mv) BY DEF MotionRead
<1>2. /\ Len(P) = Len(rest) + 1 /\ P[1] = v
      /\ \A i \in 1..Len(rest) : P[i + 1] = rest[i]
  BY <1>0, ByteFirst, ZenonT(60)
<1>3. Len(mv) \in Nat /\ Len(rest) \in Nat /\ q \in Nat BY <1>0, LenProperties
<1> HIDE DEF P
<1>4. 3 * q + o + Len(rest) + 1 = 3 * Len(mv) BY <1>0, <1>1, <1>2, <1>3 DEF MotionAt, MotionBytes
<1>5. \A i \in 1..Len(mv), j \in 1..Len(P) :
          /\ 3 * q + o + j = 3 * i - 1 => P[j] = mv[i][1]
          /\ 3 * q + o + j = 3 * i => P[j] = mv[i][2]
  BY <1>1 DEF MotionAt, MotionBytes
<1>6. \A i \in 1..Len(mv), j \in 1..Len(rest) :
          /\ 3 * q + (o + 1) + j = 3 * i - 1 => rest[j] = mv[i][1]
          /\ 3 * q + (o + 1) + j = 3 * i => rest[j] = mv[i][2]
  <2> SUFFICES ASSUME NEW i \in 1..Len(mv), NEW j \in 1..Len(rest)
               PROVE  /\ 3 * q + (o + 1) + j = 3 * i - 1 => rest[j] = mv[i][1]
                      /\ 3 * q + (o + 1) + j = 3 * i => rest[j] = mv[i][2]
    OBVIOUS
  <2>1. j + 1 \in 1..Len(P) /\ P[j + 1] = rest[j] BY <1>0, <1>2, <1>3
  <2>2. /\ 3 * q + o + (j + 1) = 3 * i - 1 => P[j + 1] = mv[i][1]
        /\ 3 * q + o + (j + 1) = 3 * i => P[j + 1] = mv[i][2]
    BY <1>5, <2>1
  <2>3. 3 * q + o + (j + 1) = 3 * q + (o + 1) + j BY <1>0, <1>3
  <2> QED BY <2>1, <2>2, <2>3
<1>7. b[1] \in HalfIn(mv, IF o = 2 THEN q + 1 ELSE q, 1) /\ b[2] \in HalfIn(mv, q, 2)
  BY <1>1 DEF MotionAt
<1>8. q + 1 \in 1..Len(mv) BY <1>0, <1>3, <1>4
<1>9. 1 \in 1..Len(P) BY <1>0, <1>2, <1>3
<1>10. ASSUME NEW k \in 0..Len(mv), NEW l \in {k, k + 1}, l \in 0..Len(mv),
              b2[1] \in HalfIn(mv, l, 1), b2[2] \in HalfIn(mv, k, 2)
       PROVE  Neighbours(<<b2[1], b2[2]>>, mv)
  <2> DEFINE m == <<b2[1], b2[2]>>
  <2>1. m[1] = b2[1] /\ m[2] = b2[2] OBVIOUS
  <2> HIDE DEF m
  <2>2. Neighbours(m, mv) BY <1>10, <2>1 DEF Neighbours
  <2> QED BY <2>2 DEF m
<1>11. CASE o = 0
  <2>1. o2 = 1 /\ b2[1] = b[1] /\ b2[2] = b[2] BY <1>0, <1>11
  <2>2. b2[1] \in HalfIn(mv, q, 1) /\ b2[2] \in HalfIn(mv, q, 2) BY <1>7, <1>11, <2>1
  <2>3. MotionBytes(rest, q, 1, mv) BY <1>3, <1>4, <1>6, <1>11 DEF MotionBytes
  <2>4. MotionAt(rest, q, o2, b2, mv) BY <2>1, <2>2, <2>3 DEF MotionAt
  <2>5. Neighbours(<<b2[1], b2[2]>>, mv) BY <1>10, <2>2
  <2> QED BY <2>4, <2>5 DEF MotionRead
<1>12. CASE o = 1
  <2>1. o2 = 2 /\ b2[1] = v /\ b2[2] = b[2] BY <1>0, <1>12
  <2>2. v = mv[q + 1][1]
    <3>1. 3 * q + o + 1 = 3 * (q + 1) - 1 BY <1>3, <1>12
    <3> QED BY <1>2, <1>5, <1>8, <1>9, <3>1
  <2>3. b2[1] \in HalfIn(mv, q + 1, 1) /\ b2[2] \in HalfIn(mv, q, 2)
    BY <1>3, <1>7, <2>1, <2>2 DEF HalfIn
  <2>4. MotionBytes(rest, q, 2, mv) BY <1>3, <1>4, <1>6, <1>12 DEF MotionBytes
  <2>5. MotionAt(rest, q, o2, b2, mv) BY <2>1, <2>3, <2>4 DEF MotionAt
  <2>6. q + 1 \in 0..Len(mv) BY <1>8
  <2>7. Neighbours(<<b2[1], b2[2]>>, mv) BY <1>10, <2>3, <2>6
  <2> QED BY <2>5, <2>7 DEF MotionRead
<1>13. CASE o = 2
  <2>1. o2 = 0 /\ b2[1] = b[1] /\ b2[2] = v BY <1>0, <1>13
  <2>2. v = mv[q + 1][2]
    <3>1. 3 * q + o + 1 = 3 * (q + 1) BY <1>3, <1>13
    <3> QED BY <1>2, <1>5, <1>8, <1>9, <3>1
  <2>3. b2[1] \in HalfIn(mv, q + 1, 1) /\ b2[2] \in HalfIn(mv, q + 1, 2)
    BY <1>3, <1>7, <1>13, <2>1, <2>2 DEF HalfIn
  <2>4. MotionBytes(rest, q + 1, 0, mv)
    <3>1. 3 * (q + 1) + 0 + Len(rest) = 3 * Len(mv) BY <1>3, <1>4, <1>13
    <3>2. \A j \in 1..Len(rest) : 3 * (q + 1) + 0 + j = 3 * q + (o + 1) + j BY <1>3, <1>13
    <3> QED BY <1>6, <3>1, <3>2 DEF MotionBytes
  <2>5. MotionAt(rest, q + 1, o2, b2, mv) BY <2>1, <2>3, <2>4 DEF MotionAt
  <2>6. q + 1 \in 0..Len(mv) BY <1>8
  <2> QED BY <2>1, <2>5, <2>6 DEF MotionRead
<1> QED BY <1>0, <1>11, <1>12, <1>13

LEMMA InterruptsMotionInv ==
    ASSUME Ps2Inv, MotionInv, Interrupts
    PROVE  MotionInv'
<1>1. TypeOK /\ (auxHandles <=> pc = "done") BY DEF Ps2Inv, LoadInv, Handling
<1>2. UNCHANGED <<pc, moves, auxQueue>> BY DEF Interrupts, Interrupt, load, user, devices
<1>3. CASE pc # "done"
  <2>1. UNCHANGED mouse
    BY <1>1, <1>3 DEF Interrupts, Interrupt, KeyboardHandler
  <2> QED BY <1>2, <1>3, <2>1 DEF MotionInv, mouse
<1>4. CASE pc = "done" /\ UNCHANGED <<out, keyboard, mouse>>
  <2>1. Pending("aux", auxQueue)' = Pending("aux", auxQueue) BY <1>2, <1>4 DEF Pending
  <2> QED BY <1>2, <1>4, <2>1, MotionStays DEF mouse
<1>5. CASE pc = "done" /\ 1 \in latched /\ KeyboardHandler
  <2>1. UNCHANGED mouse /\ ReadData BY <1>5 DEF KeyboardHandler
  <2>2. ControllerTypeOK BY <1>1, TypeParts DEF Types
  <2>3. ~out'.full BY <2>1, <2>2, ReadKeepsOut
  <2>4. ~(out.full /\ out.source = "aux")
    BY <1>5 DEF Ps2Inv, Idle, Running, LineRaised
  <2>5. Pending("aux", auxQueue)' = Pending("aux", auxQueue) BY <1>2, <2>3, <2>4 DEF Pending
  <2> QED BY <1>2, <2>1, <2>5, MotionStays DEF mouse
<1>6. CASE pc = "done" /\ AuxData /\ MouseHandler
  <2>1. ControllerTypeOK BY <1>1, TypeParts DEF Types
  <2>2. ~out'.full
    <3>1. ReadData BY <1>6 DEF MouseHandler
    <3> QED BY <2>1, <3>1, ReadKeepsOut
  <2>3. Pending("aux", auxQueue) = <<out.value>> \o auxQueue BY <1>6 DEF Pending, AuxData
  <2>4. Pending("aux", auxQueue)' = auxQueue BY <1>2, <2>2 DEF Pending
  <2>5. /\ auxQueue \in Seq(0..255) /\ out.value \in 0..255 /\ offset \in 0..2
        /\ buffer \in [0..2 -> 0..255] /\ moves \in Seq(Motions)
    BY <1>1, PendingType DEF TypeOK, MOUSE_BUFFER_SIZE
  <2>6. buffer' = [buffer EXCEPT ![offset] = out.value] /\ offset' = (offset + 1) % 3
    BY <1>6 DEF MouseHandler, NextOffset, MOUSE_BUFFER_SIZE
  <2>7. MotionRead(<<out.value>> \o auxQueue, offset, buffer, moves)
    BY <1>6, <2>3 DEF MotionInv
  <2>8. /\ MotionRead(auxQueue, offset', buffer', moves)
        /\ offset' # 0 => Neighbours(<<buffer'[1], buffer'[2]>>, moves)
    <3> DEFINE b2 == buffer'
               o2 == offset'
    <3>1. ByteRead(out.value, auxQueue, moves, offset, buffer, o2, b2) BY <2>5, <2>6 DEF ByteRead
    <3> HIDE DEF b2, o2
    <3>2. /\ MotionRead(auxQueue, o2, b2, moves)
          /\ o2 # 0 => Neighbours(<<b2[1], b2[2]>>, moves)
      BY <2>7, <3>1, ReadMotion
    <3> QED BY <3>2 DEF b2, o2
  <2>9. AllNeighbours(moved', moves)
    <3>1. AllNeighbours(moved, moves) BY DEF MotionInv
    <3>2. CASE moved' = moved BY <3>1, <3>2
    <3>3. CASE moved' # moved
      <4> DEFINE m == <<buffer'[1], buffer'[2]>>
      <4>1. offset' # 0 /\ moved' = Append(moved, m)
        BY <1>6, <3>3 DEF MouseHandler, Incomplete
      <4>2. Neighbours(m, moves) BY <2>8, <4>1
      <4>3. m \in (0..255) \X (0..255)
        <5>1. buffer' \in [0..2 -> 0..255] BY <2>5, <2>6
        <5> QED BY <5>1
      <4>4. moved \in Seq((0..255) \X (0..255)) BY <1>1 DEF TypeOK
      <4> HIDE DEF m
      <4>5. /\ moved' \in Seq((0..255) \X (0..255)) /\ Len(moved') = Len(moved) + 1
            /\ moved'[Len(moved) + 1] = m /\ \A i \in 1..Len(moved) : moved'[i] = moved[i]
        BY <4>1, <4>3, <4>4, AppendProperties
      <4>6. Len(moved) \in Nat /\ DOMAIN moved = 1..Len(moved) BY <4>4, LenProperties
      <4>7. DOMAIN moved' = 1..Len(moved) + 1 BY <4>5, LenProperties
      <4>8. ASSUME NEW n \in DOMAIN moved' PROVE Neighbours(moved'[n], moves)
        <5>1. CASE n = Len(moved) + 1 BY <4>2, <4>5, <5>1
        <5>2. CASE n # Len(moved) + 1
          <6>1. n \in 1..Len(moved) BY <4>6, <4>7, <5>2
          <6> QED BY <3>1, <4>5, <4>6, <6>1 DEF AllNeighbours
        <5> QED BY <5>1, <5>2
      <4> QED BY <4>8 DEF AllNeighbours
    <3> QED BY <3>2, <3>3
  <2> QED BY <1>2, <1>6, <2>4, <2>8, <2>9 DEF MotionInv
<1> QED BY <1>3, <1>4, <1>5, <1>6 DEF Interrupts, Interrupt, MouseHandler

LEMMA StepKeepsMotionInv ==
    ASSUME EarlyInput = FALSE, Ps2Inv, MotionInv, [Next]_vars
    PROVE  MotionInv'
<1>1. CASE UNCHANGED vars
  <2>1. UNCHANGED <<controller, devices, load, keyboard, mouse, user>> BY <1>1 DEF vars
  <2>2. UNCHANGED <<out, auxQueue, pc, moves, moved, buffer, offset>>
    BY <2>1 DEF controller, devices, load, mouse, user
  <2>3. Pending("aux", auxQueue)' = Pending("aux", auxQueue) BY <2>2 DEF Pending
  <2> QED BY <2>2, <2>3, MotionStays
<1> QED BY <1>1, UserMotionInv, ControllerMotionInv, LoadMotionInv, InterruptsMotionInv DEF Next

(* What becomes of the claim WholePackets: a reported motion is that of one *)
(* packet, or has the dx of the packet after that of its dy, or is half what *)
(* the buffer was created with; it is nothing else, for any number of      *)
(* packets (mouse.cpp, HandleInterrupt).                                   *)
THEOREM MotionsMixNeighbours ==
    ASSUME EarlyInput = FALSE
    PROVE  Spec => []MotionsOfNeighbours
<1>1. Ps2Inv /\ MotionInv /\ [Next]_vars => MotionInv' BY StepKeepsMotionInv
<1>2. MotionInv => MotionsOfNeighbours
  BY DEF MotionInv, AllNeighbours, Neighbours, HalfIn, MotionsOfNeighbours, HalfOf
<1>3. Spec => []Ps2Inv BY AlwaysPs2Inv
<1> QED BY <1>1, <1>2, <1>3, InitMotionInv, PTL DEF Spec
=============================================================================
