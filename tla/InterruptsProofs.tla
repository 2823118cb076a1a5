-------------------------- MODULE InterruptsProofs --------------------------
(***************************************************************************)
(* Proofs about Interrupts: for every set of managers, handlers and lines, *)
(* an interrupt is handled under its own number by the handler its line    *)
(* was granted to, and the controllers' in-service bits are accounted for. *)
(***************************************************************************)
EXTENDS Interrupts, TLAPS

Running1 == frames[1]

(* The interrupt gate keeps the CPU from nesting interrupts, and the main  *)
(* program only runs between them.                                         *)
OneFrame ==
    \/ frames = << >>
    \/ ~enabled /\ \E f \in Frame : frames = <<f>>

(* What the frame in progress carries, by how far it has come.             *)
Carries(f, number) ==
    /\ f.at = "load" => number = VectorOf(f.line)
    /\ f.at \in {"dispatch", "eoi", "slaveEoi"} => f.number = VectorOf(f.line)
    /\ f.at \in {"stub", "load", "dispatch"} => f.manager = NoManager
    /\ f.at \in {"eoi", "slaveEoi"} => f.manager # NoManager
    /\ f.manager = NoManager => f.called = NoHandler
    /\ f.at = "slaveEoi" => f.line \in SlaveLines
    /\ f.called # NoHandler => <<f.manager, f.line, f.called>> \in granted

(* The manager an Activate is about to install exists.                     *)
NextExists == main.next \in constructed \cup {NoManager}

(* The handler tables are the requests granted since construction.         *)
Grants ==
    /\ \A g \in granted : g[1] \in constructed /\ handlers[g[1]][g[2]] = g[3]
    /\ \A m \in Managers, l \in Lines :
           handlers[m][l] # NoHandler => <<m, l, handlers[m][l]>> \in granted

(* What the frame has in service, and what was left in service: the lines  *)
(* of the frame outrank those, so an end of interrupt releases the frame's.*)
Outranks(f) ==
    /\ f.at \in {"stub", "load", "dispatch", "eoi"} =>
          \A d \in dropped \cap MasterLines : MasterLine(f.line) < d
    /\ f.at \in {"stub", "load", "dispatch", "eoi", "slaveEoi"} /\ f.line \in SlaveLines =>
          \A d \in dropped \cap SlaveLines : f.line < d

Accounts ==
    /\ frames = << >> => isr = dropped
    /\ frames # << >> => isr = dropped \cup Owed(Running1)

Inv ==
    /\ TypeOK
    /\ OneFrame
    /\ NextExists
    /\ Grants
    /\ Accounts
    /\ frames # << >> => Carries(Running1, interruptNumber) /\ Outranks(Running1)

-----------------------------------------------------------------------------
LEMMA Initially == Init => Inv
<1> SUFFICES ASSUME Init PROVE Inv OBVIOUS
<1>1. TypeOK
  <2>1. handlers \in [Managers -> [0..15 -> Handlers \cup {NoHandler}]] BY DEF Init
  <2>2. raises \in [Lines -> 0..MaxRaises] /\ calls \in 0..MaxCalls BY InterruptsAssumption DEF Init
  <2>3. frames \in Seq(Frame) BY DEF Init
  <2>4. main \in [at : {"idle", "cli", "install", "sti"}, next : Managers \cup {NoManager}] BY DEF Init, Idle
  <2> QED BY <2>1, <2>2, <2>3, <2>4 DEF Init, TypeOK
<1>2. Grants BY InterruptsAssumption DEF Init, Grants
<1> QED BY <1>1, <1>2 DEF Init, Inv, OneFrame, Accounts, NextExists, Idle

(* Steps that leave the frames, and what they account for, alone.          *)
Quiet ==
    \/ \E l \in Lines : Raise(l)
    \/ \E m \in Managers : Activate(m) \/ Deactivate(m)
    \/ \E irq \in Lines, enable \in BOOLEAN : SetMask(irq, enable)
    \/ MainContinues

LEMMA QuietKeeps == ASSUME Inv, Quiet PROVE Inv'
<1> USE DEF Inv
<1>1. UNCHANGED <<isr, dropped, interruptNumber, frames, granted, handlers, constructed>>
  BY DEF Quiet, Raise, Activate, Deactivate, SetMask, MainContinues, Cli, Install, Sti, program, pic
<1>2. frames # << >> => enabled' = enabled
  BY DEF Quiet, Raise, Activate, Deactivate, SetMask, MainContinues, Cli, Install, Sti, Calls
<1>3. TypeOK'
  <2>1. ASSUME NEW l \in Lines, Raise(l) PROVE TypeOK'
    BY <2>1, InterruptsAssumption DEF Raise, TypeOK, program, pic
  <2>2. ASSUME NEW m \in Managers, Activate(m) \/ Deactivate(m) PROVE TypeOK'
    <3>1. /\ activeManager' \in constructed \cup {NoManager}
          /\ main' \in [at : {"idle", "cli", "install", "sti"}, next : Managers \cup {NoManager}]
      BY <2>2 DEF Activate, Deactivate, Calls, TypeOK
    <3>2. calls' \in 0..MaxCalls BY <2>2, InterruptsAssumption DEF Activate, Deactivate, Calls, TypeOK
    <3> QED BY <2>2, <3>1, <3>2 DEF Activate, Deactivate, TypeOK, pic
  <2>3. ASSUME NEW irq \in Lines, NEW enable \in BOOLEAN, SetMask(irq, enable) PROVE TypeOK'
    BY <2>3, InterruptsAssumption DEF SetMask, Calls, TypeOK, pic
  <2>4. CASE MainContinues
    <3>1. /\ activeManager' \in constructed \cup {NoManager} /\ enabled' \in BOOLEAN
          /\ main' \in [at : {"idle", "cli", "install", "sti"}, next : Managers \cup {NoManager}]
      <4>1. CASE Cli BY <4>1 DEF Cli, TypeOK, Idle
      <4>2. CASE Install BY <4>2 DEF Install, TypeOK, NextExists
      <4>3. CASE Sti BY <4>3 DEF Sti, TypeOK, Idle
      <4> QED BY <2>4, <4>1, <4>2, <4>3 DEF MainContinues
    <3> QED BY <2>4, <3>1 DEF MainContinues, Cli, Install, Sti, TypeOK, pic
  <2> QED BY <2>1, <2>2, <2>3, <2>4 DEF Quiet
<1>4. OneFrame' BY <1>1, <1>2 DEF OneFrame
<1>5. Grants' BY <1>1 DEF Grants
<1>6. Accounts' BY <1>1 DEF Accounts, Owed, Running1
<1>7. frames # << >> => (Carries(Running1, interruptNumber) /\ Outranks(Running1))'
  BY <1>1 DEF Carries, Outranks, Running1
<1>8. NextExists'
  <2>1. ASSUME NEW m \in Managers, Activate(m) \/ Deactivate(m) PROVE NextExists'
    BY <2>1 DEF Activate, Deactivate, NextExists
  <2>2. CASE Cli BY <2>2 DEF Cli, NextExists, TypeOK, Idle
  <2>3. CASE Install \/ Sti BY <2>3 DEF Install, Sti, NextExists, Idle
  <2> QED BY <1>1, <2>1, <2>2, <2>3 DEF Quiet, Raise, SetMask, MainContinues, NextExists, program
<1> QED BY <1>1, <1>3, <1>4, <1>5, <1>6, <1>7, <1>8

-----------------------------------------------------------------------------
(* The frame in progress.                                                  *)
LEMMA FrameInProgress ==
    ASSUME Inv, frames # << >>
    PROVE  /\ Running1 \in Frame /\ frames = <<Running1>> /\ enabled = FALSE
           /\ Carries(Running1, interruptNumber) /\ Outranks(Running1) /\ isr = dropped \cup Owed(Running1)
           /\ Running1.line \in Lines /\ Running1.line \in (0..15) \ {2}
<1>1. Running1 \in Frame /\ frames = <<Running1>> /\ enabled = FALSE
  BY DEF Inv, OneFrame, Running1, TypeOK
<1>2. Running1.line \in Lines BY <1>1 DEF Frame
<1> QED BY <1>1, <1>2, InterruptsAssumption DEF Inv, Accounts

(* A step that moves the frame in progress on and changes, besides, no     *)
(* more than the global byte and the in-service bits.                      *)
LEMMA FrameMoves ==
    ASSUME Inv, frames # << >>, NEW g \in Frame, Goto(g),
           UNCHANGED <<program, irr, imr, enabled, dropped, raises>>,
           isr' \subseteq isr, interruptNumber' \in {0} \cup 32..47,
           isr' = dropped \cup Owed(g), Carries(g, interruptNumber'), Outranks(g)
    PROVE  Inv'
<1> USE DEF Inv
<1>1. frames' = <<g>> /\ Running1' = g BY FrameInProgress DEF Goto, Running1
<1>2. TypeOK'
  <2>1. frames' \in Seq(Frame) BY <1>1
  <2> QED BY <2>1 DEF TypeOK, program
<1>3. OneFrame' BY <1>1, FrameInProgress DEF OneFrame
<1>4. Grants' /\ NextExists' BY DEF Grants, NextExists, program
<1>5. Accounts' BY <1>1 DEF Accounts, Owed
<1>6. Carries(Running1, interruptNumber)' /\ Outranks(Running1)' BY <1>1 DEF Outranks, Carries, program
<1> QED BY <1>2, <1>3, <1>4, <1>5, <1>6

LEMMA StubStoreKeeps == ASSUME Inv, StubStore PROVE Inv'
<1> DEFINE g == [frames[1] EXCEPT !.at = "load"]
<1>1. frames # << >> /\ Running1.at = "stub" /\ Goto(g) BY DEF StubStore, Running, Running1
<1>2. g \in Frame /\ g.at = "load" /\ g.line = Running1.line /\ g.manager = Running1.manager
      /\ g.called = Running1.called
  BY <1>1, FrameInProgress DEF Frame, Running1
<1>3. interruptNumber' = VectorOf(g.line) /\ interruptNumber' \in 32..47
  <2>1. interruptNumber' = VectorOf(Running1.line) BY DEF StubStore, Running1
  <2>2. Running1.line \in 0..15 BY <1>1, FrameInProgress
  <2> QED BY <1>2, <2>1, <2>2 DEF VectorOf, IRQ_OFFSET_X86_64
<1>4. UNCHANGED <<program, irr, isr, imr, enabled, dropped, raises>> BY DEF StubStore, pic
<1>5. isr = dropped \cup Owed(g) BY <1>1, <1>2, FrameInProgress DEF Owed
<1>6. Carries(g, interruptNumber') BY <1>1, <1>2, <1>3, <1>4, FrameInProgress DEF Carries, program
<1>7. Outranks(g) BY <1>1, <1>2, FrameInProgress DEF Outranks
<1> HIDE DEF g
<1> QED BY <1>1, <1>2, <1>3, <1>4, <1>5, <1>6, <1>7, FrameMoves

LEMMA StubLoadKeeps == ASSUME Inv, StubLoad PROVE Inv'
<1> DEFINE g == [frames[1] EXCEPT !.at = "dispatch", !.number = interruptNumber]
<1>1. frames # << >> /\ Running1.at = "load" /\ Goto(g) BY DEF StubLoad, Running, Running1
<1>2. UNCHANGED <<program, irr, isr, imr, enabled, dropped, raises, interruptNumber>> BY DEF StubLoad, pic
<1>3. interruptNumber \in {0} \cup 32..47 BY DEF Inv, TypeOK
<1>4. g \in Frame /\ g.at = "dispatch" /\ g.line = Running1.line /\ g.manager = Running1.manager
      /\ g.called = Running1.called /\ g.number = interruptNumber
  BY <1>1, <1>3, FrameInProgress DEF Frame, Running1
<1>5. isr = dropped \cup Owed(g) BY <1>1, <1>4, FrameInProgress DEF Owed
<1>6. Carries(g, interruptNumber') BY <1>1, <1>2, <1>4, FrameInProgress DEF Carries, program
<1>7. Outranks(g) BY <1>1, <1>4, FrameInProgress DEF Outranks
<1> HIDE DEF g
<1> QED BY <1>1, <1>2, <1>3, <1>4, <1>5, <1>6, <1>7, FrameMoves

(* The handler Dispatch calls was granted the line the interrupt came on.  *)
LEMMA DispatchKeeps == ASSUME Inv, Dispatch PROVE Inv'
<1> DEFINE n == frames[1].number
           h == handlers[activeManager][n - IRQ_OFFSET_X86_64]
           g == [frames[1] EXCEPT !.manager = activeManager, !.called = h,
                                  !.at = IF IsHardware(n) THEN "eoi" ELSE "iret"]
<1>1. frames # << >> /\ Running1.at = "dispatch" /\ Goto(g) BY DEF Dispatch, Running, Running1
<1>2. UNCHANGED <<program, irr, isr, imr, enabled, dropped, raises, interruptNumber>> BY DEF Dispatch, pic
<1>3. activeManager \in Managers /\ activeManager # NoManager /\ interruptNumber \in {0} \cup 32..47
  BY DEF Inv, TypeOK, Dispatch
<1>4. n = VectorOf(Running1.line) BY <1>1, FrameInProgress DEF Carries, Running1
<1>5. n - IRQ_OFFSET_X86_64 = Running1.line /\ IsHardware(n) /\ Running1.line \in 0..15
  <2>1. Running1.line \in 0..15 BY <1>1, FrameInProgress
  <2> HIDE DEF n
  <2> QED BY <1>4, <2>1 DEF VectorOf, IRQ_OFFSET_X86_64, IsHardware
<1>6. h = handlers[activeManager][Running1.line] /\ h \in Handlers \cup {NoHandler}
  <2>1. h = handlers[activeManager][Running1.line]
    <3> DEFINE k == n - IRQ_OFFSET_X86_64
    <3>1. k = Running1.line BY <1>5
    <3> HIDE DEF k
    <3>2. handlers[activeManager][k] = handlers[activeManager][Running1.line] BY <3>1
    <3> QED BY <3>2 DEF k
  <2>2. handlers[activeManager][Running1.line] \in Handlers \cup {NoHandler}
    BY <1>3, <1>5 DEF Inv, TypeOK
  <2> HIDE DEF h
  <2> QED BY <2>1, <2>2
<1> HIDE DEF h
<1>7. g \in Frame /\ g.at = "eoi" /\ g.line = Running1.line /\ g.manager = activeManager
      /\ g.called = h /\ g.number = Running1.number
  BY <1>1, <1>3, <1>5, <1>6, FrameInProgress DEF Frame, Running1
<1>8. h # NoHandler => <<activeManager, Running1.line, h>> \in granted
  BY <1>3, <1>6, FrameInProgress, <1>1 DEF Inv, Grants
<1>9. isr = dropped \cup Owed(g) BY <1>1, <1>7, FrameInProgress DEF Owed
<1>10. Carries(g, interruptNumber') BY <1>1, <1>2, <1>3, <1>4, <1>7, <1>8 DEF Carries, program, Running1
<1>11. Outranks(g) BY <1>1, <1>7, FrameInProgress DEF Outranks
<1> HIDE DEF g
<1> QED BY <1>1, <1>2, <1>3, <1>7, <1>9, <1>10, <1>11, FrameMoves

LEMMA DispatchNowhereKeeps == ASSUME Inv, DispatchNowhere PROVE Inv'
<1> DEFINE g == [frames[1] EXCEPT !.at = "iret"]
<1>1. frames # << >> /\ Running1.at = "dispatch" /\ Goto(g) BY DEF DispatchNowhere, Running, Running1
<1>2. UNCHANGED <<program, irr, isr, imr, enabled, dropped, raises, interruptNumber>> BY DEF DispatchNowhere, pic
<1>3. interruptNumber \in {0} \cup 32..47 BY DEF Inv, TypeOK
<1>4. g \in Frame /\ g.at = "iret" /\ g.line = Running1.line /\ g.manager = NoManager /\ g.called = NoHandler
  BY <1>1, FrameInProgress DEF Frame, Running1, Carries
<1>5. isr = dropped \cup Owed(g) BY <1>1, <1>4, FrameInProgress DEF Owed, Unseen
<1>6. Carries(g, interruptNumber') BY <1>4 DEF Carries
<1>7. Outranks(g) BY <1>4 DEF Outranks
<1> HIDE DEF g
<1> QED BY <1>1, <1>2, <1>3, <1>4, <1>5, <1>6, <1>7, FrameMoves

-----------------------------------------------------------------------------
(* The ends of interrupt: each controller releases its highest line in     *)
(* service, which is the one the frame in progress has there.              *)
LEMMA LineBits ==
    ASSUME NEW l \in (0..15) \ {2}
    PROVE  /\ MasterLine(l) \in MasterLines
           /\ l \in SlaveLines => MasterLine(l) # l /\ l \notin MasterLines
           /\ l \notin SlaveLines => InServiceBits(l) = {l} /\ MasterLine(l) = l
           /\ FromSlave(VectorOf(l)) <=> l \in SlaveLines
BY DEF MasterLine, MasterLines, SlaveLines, InServiceBits, FromSlave, VectorOf, IRQ_OFFSET_X86_64, Cascade

LEMMA ReleasesTop ==
    ASSUME NEW chip \in {MasterLines, SlaveLines}, NEW top \in chip, EndOfInterrupt(chip),
           top \in isr, \A k \in isr \cap chip : k = top \/ top < k
    PROVE  isr' = isr \ {top}
<1>1. chip \subseteq Nat BY DEF MasterLines, SlaveLines
<1>2. {l \in isr \cap chip : \A k \in isr \cap chip : l <= k} = {top}
  <2>1. ASSUME NEW l \in isr \cap chip, \A k \in isr \cap chip : l <= k PROVE l = top
    BY <1>1, <2>1
  <2>2. \A k \in isr \cap chip : top <= k BY <1>1
  <2> QED BY <2>1, <2>2
<1> QED BY <1>2 DEF EndOfInterrupt

LEMMA MasterEoiKeeps == ASSUME Inv, MasterEoi PROVE Inv'
<1> DEFINE f == Running1
           c == MasterLine(f.line)
           g == [frames[1] EXCEPT !.at = IF FromSlave(frames[1].number) THEN "slaveEoi" ELSE "iret"]
<1>1. frames # << >> /\ f.at = "eoi" /\ Goto(g) BY DEF MasterEoi, Running, Running1
<1>2. UNCHANGED <<program, irr, imr, enabled, dropped, raises, interruptNumber>> BY DEF MasterEoi
<1>3. /\ f \in Frame /\ f.line \in (0..15) \ {2} /\ f.number = VectorOf(f.line) /\ f.manager # NoManager
      /\ f.called # NoHandler => <<f.manager, f.line, f.called>> \in granted
      /\ isr = dropped \cup InServiceBits(f.line) /\ \A d \in dropped \cap MasterLines : c < d
      /\ f.line \in SlaveLines => \A d \in dropped \cap SlaveLines : f.line < d
  BY <1>1, FrameInProgress DEF Carries, Outranks, Owed
<1>4. interruptNumber \in {0} \cup 32..47 BY DEF Inv, TypeOK
<1>5. /\ g \in Frame /\ g.line = f.line /\ g.manager = f.manager /\ g.called = f.called /\ g.number = f.number
      /\ g.at = IF f.line \in SlaveLines THEN "slaveEoi" ELSE "iret"
  <2>1. FromSlave(f.number) <=> f.line \in SlaveLines BY <1>3, LineBits
  <2> QED BY <1>3, <2>1 DEF Frame, Running1
<1> HIDE DEF g
<1>6. isr' = isr \ {c}
  <2>1. c \in MasterLines /\ c \in isr BY <1>3, LineBits DEF InServiceBits
  <2>2. \A k \in isr \cap MasterLines : k = c \/ c < k
    <3>1. \A k \in InServiceBits(f.line) \cap MasterLines : k = c BY <1>3, LineBits DEF InServiceBits
    <3> QED BY <1>3, <3>1
  <2>3. EndOfInterrupt(MasterLines) BY DEF MasterEoi
  <2> HIDE DEF c
  <2> QED BY <2>1, <2>2, <2>3, ReleasesTop
<1>7. c \notin dropped
  <2>1. c \in MasterLines /\ c \in Nat BY <1>3, LineBits DEF MasterLines
  <2>2. ~(c < c) BY <2>1
  <2> QED BY <1>3, <2>1, <2>2
<1>8. isr' = dropped \cup Owed(g)
  <2>1. CASE f.line \in SlaveLines
    <3>1. Owed(g) = {f.line} /\ c # f.line BY <1>3, <1>5, <2>1, LineBits DEF Owed
    <3> QED BY <1>3, <1>6, <1>7, <3>1 DEF InServiceBits
  <2>2. CASE f.line \notin SlaveLines
    <3>1. Owed(g) = {} /\ InServiceBits(f.line) = {c} BY <1>3, <1>5, <2>2, LineBits DEF Owed, Unseen
    <3> QED BY <1>3, <1>6, <1>7, <3>1
  <2> QED BY <2>1, <2>2
<1>9. Carries(g, interruptNumber') BY <1>3, <1>5 DEF Carries
<1>10. Outranks(g) BY <1>3, <1>5 DEF Outranks
<1>11. isr' \subseteq isr BY <1>6
<1> HIDE DEF f, c
<1> QED BY <1>1, <1>2, <1>4, <1>5, <1>8, <1>9, <1>10, <1>11, FrameMoves

LEMMA SlaveEoiKeeps == ASSUME Inv, SlaveEoi PROVE Inv'
<1> DEFINE f == Running1
           g == [frames[1] EXCEPT !.at = "iret"]
<1>1. frames # << >> /\ f.at = "slaveEoi" /\ Goto(g) BY DEF SlaveEoi, Running, Running1
<1>2. UNCHANGED <<program, irr, imr, enabled, dropped, raises, interruptNumber>> BY DEF SlaveEoi
<1>3. /\ f \in Frame /\ f.line \in (0..15) \ {2} /\ f.manager # NoManager /\ f.line \in SlaveLines
      /\ f.called # NoHandler => <<f.manager, f.line, f.called>> \in granted
      /\ isr = dropped \cup {f.line} /\ \A d \in dropped \cap SlaveLines : f.line < d
  BY <1>1, FrameInProgress DEF Carries, Outranks, Owed
<1>4. interruptNumber \in {0} \cup 32..47 BY DEF Inv, TypeOK
<1>5. /\ g \in Frame /\ g.line = f.line /\ g.manager = f.manager /\ g.called = f.called /\ g.at = "iret"
  BY <1>3 DEF Frame, Running1
<1> HIDE DEF g
<1>6. isr' = isr \ {f.line}
  <2>1. \A k \in isr \cap SlaveLines : k = f.line \/ f.line < k BY <1>3
  <2>2. EndOfInterrupt(SlaveLines) BY DEF SlaveEoi
  <2> HIDE DEF f
  <2> QED BY <1>3, <2>1, <2>2, ReleasesTop
<1>7. f.line \notin dropped
  <2>1. ~(f.line < f.line) BY <1>3
  <2> QED BY <1>3, <2>1
<1>8. isr' = dropped \cup Owed(g) BY <1>3, <1>5, <1>6, <1>7 DEF Owed, Unseen
<1>9. Carries(g, interruptNumber') BY <1>3, <1>5 DEF Carries
<1>10. Outranks(g) BY <1>5 DEF Outranks
<1>11. isr' \subseteq isr BY <1>6
<1> HIDE DEF f
<1> QED BY <1>1, <1>2, <1>4, <1>5, <1>8, <1>9, <1>10, <1>11, FrameMoves

-----------------------------------------------------------------------------
(* The beginning and the end of a frame.                                   *)
LEMMA TakeInterruptKeeps == ASSUME Inv, NEW l \in Lines, TakeInterrupt(l) PROVE Inv'
<1> DEFINE f == [line |-> l, number |-> 0, manager |-> NoManager, called |-> NoHandler,
                 at |-> IF l \in Stubbed THEN "stub" ELSE "iret"]
<1>1. /\ frames = << >> /\ frames' = <<f>> /\ Running1' = f /\ f \in Frame /\ enabled' = FALSE
      /\ UNCHANGED <<program, imr, interruptNumber, dropped, raises>>
  <2>1. frames = << >> BY DEF TakeInterrupt, Inv, OneFrame
  <2>2. f \in Frame BY DEF Frame
  <2>3. frames' = <<f>> BY <2>1 DEF TakeInterrupt
  <2> QED BY <2>1, <2>2, <2>3 DEF TakeInterrupt, FlagInHandler, Running1
<1>2. f.line = l /\ f.manager = NoManager /\ f.called = NoHandler /\ f.at \in {"stub", "iret"}
  OBVIOUS
<1> HIDE DEF f
<1>3. l \in (0..15) \ {2} BY InterruptsAssumption
<1>4. isr = dropped /\ isr' = dropped \cup InServiceBits(l) /\ irr' \subseteq irr BY <1>1 DEF Inv, Accounts, TakeInterrupt
<1>5. isr' = dropped \cup Owed(f) BY <1>2, <1>4 DEF Owed, Unseen
<1>6. InServiceBits(l) \subseteq Lines \cup {Cascade} BY DEF InServiceBits, MasterLine
<1>7. TypeOK'
  <2>1. frames' \in Seq(Frame) BY <1>1
  <2> QED BY <1>1, <1>4, <1>6, <2>1 DEF Inv, TypeOK, program
<1>8. OneFrame' BY <1>1 DEF OneFrame
<1>9. Grants' /\ NextExists' BY <1>1 DEF Inv, Grants, NextExists, program
<1>10. Accounts' BY <1>1, <1>5 DEF Accounts, Owed
<1>11. Carries(Running1, interruptNumber)' BY <1>1, <1>2 DEF Carries
<1>12. Outranks(Running1)'
  <2>1. \A d \in dropped \cap MasterLines : MasterLine(l) < d
    BY <1>4 DEF TakeInterrupt, Delivers, MasterWants, Above
  <2>2. l \in SlaveLines => \A d \in dropped \cap SlaveLines : l < d
    BY <1>4 DEF TakeInterrupt, Delivers, SlaveWants, Above
  <2> QED BY <1>1, <1>2, <2>1, <2>2 DEF Outranks
<1> QED BY <1>1, <1>7, <1>8, <1>9, <1>10, <1>11, <1>12 DEF Inv

LEMMA IretKeeps == ASSUME Inv, Iret PROVE Inv'
<1>1. frames # << >> /\ Running1.at = "iret" BY DEF Iret, Running, Running1
<1>2. frames' = << >>
  <2>1. frames = <<Running1>> BY <1>1, FrameInProgress
  <2> HIDE DEF Running1
  <2> QED BY <2>1 DEF Iret
<1>3. UNCHANGED <<program, irr, isr, imr, interruptNumber, raises>> /\ enabled' = TRUE
      /\ dropped' = IF Unseen(Running1) THEN dropped \cup InServiceBits(Running1.line) ELSE dropped
  BY DEF Iret, pic, Running1
<1>4. isr' = dropped' BY <1>1, <1>3, FrameInProgress DEF Owed
<1>5. TypeOK'
  <2>1. frames' \in Seq(Frame) BY <1>2
  <2>2. dropped' \subseteq Lines \cup {Cascade} BY <1>3, <1>4 DEF Inv, TypeOK
  <2> QED BY <1>3, <2>1, <2>2 DEF Inv, TypeOK, program
<1>6. Grants' /\ NextExists' BY <1>3 DEF Inv, Grants, NextExists, program
<1> QED BY <1>2, <1>4, <1>5, <1>6 DEF Inv, OneFrame, Accounts

-----------------------------------------------------------------------------
(* The calls that change the handler tables; no frame is in progress.      *)
LEMMA ConstructKeeps == ASSUME Inv, NEW m \in Managers, Construct(m) PROVE Inv'
<1>1. /\ frames = << >> /\ frames' = << >> /\ isr' = {} /\ dropped' = {} /\ m \notin constructed
      /\ constructed' = constructed \cup {m} /\ UNCHANGED <<main, granted, enabled>>
      /\ handlers' = [handlers EXCEPT ![m] = [l \in 0..15 |-> NoHandler]]
  BY DEF Construct, Calls
<1>2. TypeOK'
  <2>1. calls' \in 0..MaxCalls BY InterruptsAssumption DEF Inv, TypeOK, Construct, Calls
  <2>2. handlers' \in [Managers -> [0..15 -> Handlers \cup {NoHandler}]] BY <1>1 DEF Inv, TypeOK
  <2>3. UNCHANGED <<activeManager, main, granted, enabled, interruptNumber, frames, raises>> /\ irr' = {} /\ imr' = {}
    BY DEF Construct
  <2> QED BY <1>1, <2>1, <2>2, <2>3 DEF Inv, TypeOK
<1>3. Grants'
  <2>1. ASSUME NEW g \in granted PROVE g[1] \in constructed' /\ handlers'[g[1]][g[2]] = g[3]
    <3>1. g[1] # m /\ g[1] \in constructed /\ g[1] \in Managers /\ handlers[g[1]][g[2]] = g[3]
      BY <1>1 DEF Inv, Grants, TypeOK
    <3>2. handlers'[g[1]] = handlers[g[1]] BY <1>1, <3>1 DEF Inv, TypeOK
    <3> QED BY <1>1, <3>1, <3>2
  <2>2. ASSUME NEW k \in Managers, NEW l \in Lines, handlers'[k][l] # NoHandler
        PROVE  <<k, l, handlers'[k][l]>> \in granted
    <3>1. l \in 0..15 BY InterruptsAssumption
    <3>2. k # m BY <1>1, <2>2, <3>1 DEF Inv, TypeOK
    <3>3. handlers'[k] = handlers[k] BY <1>1, <3>2 DEF Inv, TypeOK
    <3> QED BY <2>2, <3>3 DEF Inv, Grants
  <2> QED BY <1>1, <2>1, <2>2 DEF Grants
<1> QED BY <1>1, <1>2, <1>3 DEF Inv, OneFrame, Accounts, NextExists

(* A granted line is never granted again: SlotFree refuses it.             *)
LEMMA RequestKeeps == ASSUME Inv, NEW irq \in Lines, NEW h \in Handlers, RequestIRQ(irq, h) PROVE Inv'
<1>0. h # NoHandler /\ irq \in 0..15 BY InterruptsAssumption
<1>1. /\ frames = << >> /\ UNCHANGED <<constructed, activeManager, main, pic, enabled, interruptNumber, frames, dropped, raises>>
      /\ activeManager \in Managers /\ activeManager \in constructed /\ handlers[activeManager][irq] = NoHandler
      /\ granted' = granted \cup {<<activeManager, irq, h>>}
      /\ handlers' = [handlers EXCEPT ![activeManager][irq] = h]
  BY DEF RequestIRQ, Calls, SlotFree, Inv, TypeOK
<1>2. /\ handlers' \in [Managers -> [0..15 -> Handlers \cup {NoHandler}]]
      /\ handlers'[activeManager][irq] = h
      /\ \A m \in Managers, l \in 0..15 : m # activeManager \/ l # irq => handlers'[m][l] = handlers[m][l]
  BY <1>0, <1>1 DEF Inv, TypeOK
<1>3. TypeOK'
  <2>1. calls' \in 0..MaxCalls BY InterruptsAssumption DEF Inv, TypeOK, RequestIRQ, Calls
  <2>2. granted' \subseteq Managers \X Lines \X Handlers BY <1>1 DEF Inv, TypeOK
  <2> QED BY <1>1, <1>2, <2>1, <2>2 DEF Inv, TypeOK, pic
<1>4. Grants'
  <2>1. ASSUME NEW g \in granted PROVE g[1] \in constructed /\ handlers'[g[1]][g[2]] = g[3]
    <3>1. g[1] \in constructed /\ g[1] \in Managers /\ g[2] \in Lines /\ g[3] \in Handlers
          /\ handlers[g[1]][g[2]] = g[3]
      BY DEF Inv, Grants, TypeOK
    <3>2. g[2] \in 0..15 /\ g[3] # NoHandler BY <3>1, InterruptsAssumption
    <3> QED BY <1>1, <1>2, <3>1, <3>2
  <2>2. LET g == <<activeManager, irq, h>> IN g[1] \in constructed /\ handlers'[g[1]][g[2]] = g[3]
    BY <1>1, <1>2
  <2>3. ASSUME NEW m \in Managers, NEW l \in Lines, handlers'[m][l] # NoHandler
        PROVE  <<m, l, handlers'[m][l]>> \in granted'
    <3>1. l \in 0..15 BY InterruptsAssumption
    <3>2. CASE m = activeManager /\ l = irq BY <1>1, <1>2, <3>2
    <3>3. CASE m # activeManager \/ l # irq
      <4>1. handlers'[m][l] = handlers[m][l] BY <1>2, <3>1, <3>3
      <4> QED BY <1>1, <2>3, <4>1 DEF Inv, Grants
    <3> QED BY <3>2, <3>3
  <2> QED BY <1>1, <2>1, <2>2, <2>3 DEF Grants
<1> QED BY <1>1, <1>3, <1>4 DEF Inv, OneFrame, Accounts, NextExists, pic

-----------------------------------------------------------------------------
LEMMA StutterKeeps == ASSUME Inv, UNCHANGED vars PROVE Inv'
<1> USE DEF vars, program, pic
<1>1. TypeOK' BY DEF Inv, TypeOK
<1>2. OneFrame' /\ NextExists' /\ Grants' BY DEF Inv, OneFrame, NextExists, Grants
<1>3. Accounts' BY DEF Inv, Accounts, Owed, Running1
<1>4. frames # << >> => (Carries(Running1, interruptNumber) /\ Outranks(Running1))'
  BY DEF Inv, Carries, Outranks, Running1
<1> QED BY <1>1, <1>2, <1>3, <1>4 DEF Inv

(* The inductive invariant: one interrupt at a time, with its number, the  *)
(* handler its line was granted to, and the bits it has to release.        *)
THEOREM InterruptInvariance == Spec => []Inv
<1>1. Inv /\ [Next]_vars => Inv'
  <2> SUFFICES ASSUME Inv, [Next]_vars PROVE Inv' OBVIOUS
  <2>1. CASE Quiet BY <2>1, QuietKeeps
  <2>2. CASE CpuStep
    BY <2>2, StubStoreKeeps, StubLoadKeeps, DispatchKeeps, DispatchNowhereKeeps, MasterEoiKeeps,
       SlaveEoiKeeps, IretKeeps DEF CpuStep
  <2>3. ASSUME NEW l \in Lines, TakeInterrupt(l) PROVE Inv' BY <2>3, TakeInterruptKeeps
  <2>4. ASSUME NEW m \in Managers, Construct(m) PROVE Inv' BY <2>4, ConstructKeeps
  <2>5. ASSUME NEW irq \in Lines, NEW h \in Handlers, RequestIRQ(irq, h) PROVE Inv' BY <2>5, RequestKeeps
  <2>6. CASE UNCHANGED vars BY <2>6, StutterKeeps
  <2> QED BY <2>1, <2>2, <2>3, <2>4, <2>5, <2>6 DEF Next, Quiet, MainCall
<1> QED BY <1>1, Initially, PTL DEF Spec

(* Every variable has its type, in particular the number an interrupt is   *)
(* handled under is one of the controllers' sixteen vectors.               *)
THEOREM InterruptsTypeCorrect == Spec => []TypeOK
BY InterruptInvariance, PTL DEF Inv

(* The one global byte hands every interrupt its own number.               *)
THEOREM NumbersMatchLines == Spec => []NumberMatchesLine
<1>1. Inv => NumberMatchesLine
  <2> SUFFICES ASSUME Inv, NEW i \in DOMAIN frames, frames[i].at \in {"dispatch", "eoi", "slaveEoi"}
               PROVE  frames[i].number = VectorOf(frames[i].line)
    BY DEF NumberMatchesLine
  <2>1. frames # << >> OBVIOUS
  <2>2. i = 1 BY <2>1, FrameInProgress
  <2> QED BY <2>1, <2>2, FrameInProgress DEF Carries, Running1
<1> QED BY <1>1, InterruptInvariance, PTL

(* The in-service registers hold exactly what the interrupts in progress   *)
(* have to release and what was left: the non-specific end of interrupt    *)
(* never releases another line.                                            *)
THEOREM InServiceAccounted == Spec => []InServiceAccounts
<1>1. Inv => InServiceAccounts
  <2> SUFFICES ASSUME Inv PROVE InServiceAccounts OBVIOUS
  <2>1. CASE frames = << >> BY <2>1 DEF Inv, Accounts, InServiceAccounts
  <2>2. CASE frames # << >>
    <3>1. DOMAIN frames = {1} BY <2>2, FrameInProgress
    <3>2. UNION {Owed(frames[i]) : i \in DOMAIN frames} = Owed(Running1) BY <3>1 DEF Running1
    <3> QED BY <2>2, <3>2, FrameInProgress DEF InServiceAccounts
  <2> QED BY <2>1, <2>2
<1> QED BY <1>1, InterruptInvariance, PTL

-----------------------------------------------------------------------------
(* The kernel as kernelMain runs it: one manager, activated once.          *)
OneManager ==
    /\ enabled \/ frames # << >> => activeManager # NoManager
    /\ main.at \in {"idle", "sti"}
    /\ main.at = "sti" => activeManager # NoManager
    /\ frames # << >> /\ Running1.at = "iret" /\ Running1.line \in Stubbed =>
          Running1.manager # NoManager
    /\ dropped \subseteq StublessBits

LEMMA FramesOfOneManager ==
    ASSUME Inv, OneManager, CpuStep, activeManager' = activeManager
    PROVE  OneManager'
<1>0. /\ frames # << >> /\ Running1 \in Frame /\ frames = <<Running1>> /\ activeManager # NoManager
      /\ Carries(Running1, interruptNumber) /\ Running1.line \in Lines
  <2>1. frames # << >> BY DEF CpuStep, StubStore, StubLoad, Dispatch, DispatchNowhere, MasterEoi, SlaveEoi, Iret, Running
  <2> QED BY <2>1, FrameInProgress DEF OneManager
<1>1. main' = main BY DEF CpuStep, StubStore, StubLoad, Dispatch, DispatchNowhere, MasterEoi, SlaveEoi, Iret, program
<1>2. ASSUME NEW g \in Frame, Goto(g), dropped' = dropped,
             g.at = "iret" /\ g.line \in Stubbed => g.manager # NoManager
      PROVE  OneManager'
  <2>1. frames' = <<g>> BY <1>0, <1>2 DEF Goto
  <2> QED BY <1>0, <1>1, <1>2, <2>1 DEF OneManager, Running1
<1>3. CASE StubStore \/ StubLoad
  <2>1. CASE StubStore
    <3> DEFINE g == [Running1 EXCEPT !.at = "load"]
    <3>1. g \in Frame /\ Goto(g) /\ g.at # "iret" BY <1>0, <2>1 DEF StubStore, Running1, Frame
    <3> HIDE DEF g
    <3> QED BY <1>2, <2>1, <3>1 DEF StubStore
  <2>2. CASE StubLoad
    <3> DEFINE g == [Running1 EXCEPT !.at = "dispatch", !.number = interruptNumber]
    <3>1. g \in Frame /\ Goto(g) /\ g.at # "iret"
      BY <1>0, <2>2, ZenonT(60) DEF StubLoad, Running1, Frame, Inv, TypeOK
    <3> HIDE DEF g
    <3> QED BY <1>2, <2>2, <3>1 DEF StubLoad
  <2> QED BY <1>3, <2>1, <2>2
<1>4. CASE Dispatch
  <2> DEFINE n == Running1.number
             h == handlers[activeManager][n - IRQ_OFFSET_X86_64]
             g == [Running1 EXCEPT !.manager = activeManager, !.called = h,
                                   !.at = IF IsHardware(n) THEN "eoi" ELSE "iret"]
  <2>a. n = Running1.line + IRQ_OFFSET_X86_64
    BY <1>0, <1>4 DEF Carries, Dispatch, Running, Running1, VectorOf
  <2>b. Running1.line \in 0..15 BY <1>0, InterruptsAssumption
  <2>1. n - IRQ_OFFSET_X86_64 \in 0..15 BY <2>a, <2>b DEF IRQ_OFFSET_X86_64
  <2>2. activeManager \in Managers /\ h \in Handlers \cup {NoHandler} BY <1>0, <2>1 DEF Inv, TypeOK
  <2>3. g \in Frame /\ g.manager # NoManager BY <1>0, <2>2, ZenonT(60) DEF Frame
  <2>4. Goto(g) /\ dropped' = dropped BY <1>4 DEF Dispatch, Running1
  <2> HIDE DEF g
  <2> QED BY <1>2, <2>3, <2>4
<1>5. CASE DispatchNowhere BY <1>0, <1>5 DEF DispatchNowhere
<1>6. CASE MasterEoi \/ SlaveEoi
  <2>1. PICK at \in {"slaveEoi", "iret"} : Goto([Running1 EXCEPT !.at = at])
    BY <1>6 DEF MasterEoi, SlaveEoi, Running1
  <2> DEFINE g == [Running1 EXCEPT !.at = at]
  <2>2. g \in Frame /\ g.manager = Running1.manager BY <1>0 DEF Frame
  <2>3. Running1.manager # NoManager BY <1>0, <1>6 DEF Carries, MasterEoi, SlaveEoi, Running, Running1
  <2>4. dropped' = dropped BY <1>6 DEF MasterEoi, SlaveEoi
  <2>5. Goto(g) BY <2>1
  <2> HIDE DEF g
  <2> QED BY <1>2, <2>2, <2>3, <2>4, <2>5
<1>7. CASE Iret
  <2>1. frames' = << >> /\ Running1.at = "iret" BY <1>0, <1>7 DEF Iret, Running, Running1
  <2>2. dropped' \subseteq StublessBits
    <3>1. CASE Unseen(Running1)
      <4>1. Running1.line \in Lines \ Stubbed BY <1>0, <2>1, <3>1 DEF OneManager, Unseen
      <4>2. InServiceBits(Running1.line) \subseteq StublessBits BY <4>1 DEF StublessBits
      <4> QED BY <1>7, <3>1, <4>2 DEF Iret, Running1, OneManager
    <3>2. CASE ~Unseen(Running1) BY <1>7, <3>2 DEF Iret, Running1, OneManager
    <3> QED BY <3>1, <3>2
  <2> QED BY <1>0, <1>1, <2>1, <2>2 DEF OneManager
<1> QED BY <1>3, <1>4, <1>5, <1>6, <1>7 DEF CpuStep

LEMMA OneManagerStays ==
    ASSUME Inv, OneManager, [Next]_vars, activeManager # NoManager => activeManager' = activeManager
    PROVE  OneManager'
<1>1. CASE CpuStep
  <2>1. activeManager' = activeManager
    BY <1>1 DEF CpuStep, StubStore, StubLoad, Dispatch, DispatchNowhere, MasterEoi, SlaveEoi, Iret, program
  <2> QED BY <1>1, <2>1, FramesOfOneManager
<1>2. ASSUME NEW l \in Lines, TakeInterrupt(l) PROVE OneManager'
  <2> DEFINE g == [line |-> l, number |-> 0, manager |-> NoManager, called |-> NoHandler,
                   at |-> IF l \in Stubbed THEN "stub" ELSE "iret"]
  <2>1. frames = << >> BY <1>2 DEF TakeInterrupt, Inv, OneFrame
  <2>2. frames' = <<g>> BY <1>2, <2>1 DEF TakeInterrupt
  <2>3. Running1' = g BY <2>2 DEF Running1
  <2> QED BY <1>2, <2>3 DEF TakeInterrupt, OneManager, program
<1>3. ASSUME NEW m \in Managers, Construct(m) PROVE OneManager'
  BY <1>3 DEF Construct, OneManager, Running1
<1>4. ASSUME NEW m \in Managers, Activate(m) \/ Deactivate(m) PROVE OneManager'
  <2>1. m # NoManager BY InterruptsAssumption
  <2>2. activeManager = NoManager /\ Activate(m) BY <1>4, <2>1 DEF Activate, Deactivate
  <2> QED BY <2>1, <2>2 DEF Activate, Calls, OneManager
<1>5. CASE MainContinues BY <1>5 DEF MainContinues, Cli, Install, Sti, OneManager, Idle
<1>6. ASSUME \/ \E l \in Lines : Raise(l)
             \/ \E irq \in Lines, h \in Handlers : RequestIRQ(irq, h)
             \/ \E irq \in Lines, enable \in BOOLEAN : SetMask(irq, enable)
             \/ UNCHANGED vars
      PROVE  OneManager'
  <2>1. UNCHANGED <<activeManager, main, enabled, frames, dropped>>
    BY <1>6 DEF Raise, RequestIRQ, SetMask, program, vars
  <2> QED BY <2>1 DEF OneManager, Running1
<1> QED BY <1>1, <1>2, <1>3, <1>4, <1>5, <1>6 DEF Next, MainCall

(* What irq_ack's finding needs: as long as one manager stays active, only *)
(* lines without a stub are ever left in service.                          *)
THEOREM OneManagerLeavesStubless == Spec /\ KeepsManager => []OnlyStublessLeft
<1> DEFINE Stays == activeManager # NoManager => activeManager' = activeManager
<1>1. Init => OneManager
  BY DEF Init, OneManager, Idle
<1>2. Inv /\ OneManager /\ [Next]_vars /\ [Stays]_vars => OneManager'
  <2>1. [Stays]_vars => Stays BY DEF vars, program
  <2> QED BY <2>1, OneManagerStays
<1>3. Inv /\ OneManager => OnlyStublessLeft BY DEF Inv, Accounts, OneManager, OnlyStublessLeft
<1> QED BY <1>1, <1>2, <1>3, InterruptInvariance, PTL DEF Spec, KeepsManager

(* With a stub for every line that interrupts, as the keyboard's and the   *)
(* mouse's have, every interrupt is acknowledged.                          *)
THEOREM StubsAcknowledgeAll ==
    ASSUME Lines \subseteq Stubbed
    PROVE  Spec /\ KeepsManager => []AllAcknowledged
<1>1. StublessBits = {} BY DEF StublessBits
<1>2. OnlyStublessLeft => AllAcknowledged BY <1>1 DEF OnlyStublessLeft, AllAcknowledged
<1> QED BY <1>2, OneManagerLeavesStubless, PTL

(* A line left in service is not let go of, and blocks those below it.     *)
THEOREM LeftLinesBlock == Spec => []LeftInServiceBlocks
<1>1. Inv => LeftInServiceBlocks
  <2> SUFFICES ASSUME Inv, NEW d \in dropped \cap MasterLines, NEW l \in Lines, d <= MasterLine(l), Delivers(l)
               PROVE  FALSE
    BY DEF LeftInServiceBlocks
  <2>1. d \in isr \cap MasterLines BY DEF Inv, Accounts
  <2>2. MasterLine(l) < d BY <2>1 DEF Delivers, MasterWants, Above
  <2>3. MasterLine(l) \in Nat /\ d \in Nat BY LineBits, InterruptsAssumption DEF MasterLines
  <2> QED BY <2>2, <2>3
<1> QED BY <1>1, InterruptInvariance, PTL

-----------------------------------------------------------------------------
(* Between interrupts the CPU listens as soon as Activate has returned,    *)
(* and until a Deactivate has begun.                                       *)
Listens ==
    /\ main.at \in {"cli", "install"} => activeManager = NoManager
    /\ activeManager # NoManager /\ main = Idle /\ frames = << >> => enabled

LEMMA ListensOn == ASSUME Inv, Listens, [Next]_vars PROVE Listens'
<1>1. CASE CpuStep
  <2>1. UNCHANGED <<activeManager, main>>
    BY <1>1 DEF CpuStep, StubStore, StubLoad, Dispatch, DispatchNowhere, MasterEoi, SlaveEoi, Iret, program
  <2>2. CASE Iret BY <2>1, <2>2 DEF Iret, Listens
  <2>3. CASE ~Iret
    <3>1. frames # << >> /\ \E g : Goto(g)
      BY <1>1, <2>3 DEF CpuStep, StubStore, StubLoad, Dispatch, DispatchNowhere, MasterEoi, SlaveEoi, Running
    <3>2. frames' # << >> BY <3>1, FrameInProgress DEF Goto
    <3> QED BY <2>1, <3>2 DEF Listens
  <2> QED BY <2>2, <2>3
<1>2. ASSUME NEW l \in Lines, TakeInterrupt(l) PROVE Listens'
  <2>1. frames = << >> BY <1>2 DEF TakeInterrupt, Inv, OneFrame
  <2>2. frames' # << >> BY <1>2, <2>1 DEF TakeInterrupt
  <2> QED BY <1>2, <2>2 DEF TakeInterrupt, Listens, program
<1>3. ASSUME NEW m \in Managers, Construct(m) PROVE Listens'
  BY <1>3 DEF Construct, Listens
<1>4. ASSUME NEW m \in Managers, Activate(m) \/ Deactivate(m) PROVE Listens'
  BY <1>4 DEF Activate, Deactivate, Listens, Idle
<1>5. CASE MainContinues BY <1>5 DEF MainContinues, Cli, Install, Sti, Listens, Idle
<1>6. ASSUME \/ \E l \in Lines : Raise(l)
             \/ \E irq \in Lines, h \in Handlers : RequestIRQ(irq, h)
             \/ \E irq \in Lines, enable \in BOOLEAN : SetMask(irq, enable)
             \/ UNCHANGED vars
      PROVE  Listens'
  <2>1. UNCHANGED <<activeManager, main, enabled, frames>>
    BY <1>6 DEF Raise, RequestIRQ, SetMask, program, vars
  <2> QED BY <2>1 DEF Listens
<1> QED BY <1>1, <1>2, <1>3, <1>4, <1>5, <1>6 DEF Next, MainCall

(* The timer's and the keyboard's requests find the CPU listening and the  *)
(* controllers ready to deliver them, or the timer before the keyboard.    *)
THEOREM TopLinesGetThrough == Spec => []TopLinesDeliverable
<1>1. Init => Listens BY DEF Init, Listens, Idle
<1>2. Inv /\ Listens /\ [Next]_vars => Listens' BY ListensOn
<1>3. Inv /\ Listens => TopLinesDeliverable
  <2> SUFFICES ASSUME Inv, Listens, NEW l \in Lines \cap {0, 1},
                      activeManager # NoManager, main = Idle, frames = << >>,
                      l \in irr \ imr, dropped \cap 0..l = {}
               PROVE  enabled /\ \E k \in Lines \cap 0..l : Delivers(k)
    BY DEF TopLinesDeliverable
  <2>1. enabled BY DEF Listens
  <2>2. isr = dropped /\ dropped \subseteq Lines \cup {Cascade} BY DEF Inv, Accounts, TypeOK
  <2>3. \A s \in isr : s \in Nat BY <2>2, InterruptsAssumption DEF Cascade
  <2>4. \A k \in irr \ imr : k \in {0, 1} /\ k <= l => k \in MasterWants /\ MasterLine(k) = k
    <3> SUFFICES ASSUME NEW k \in irr \ imr, k \in {0, 1}, k <= l
                 PROVE  k \in MasterWants /\ MasterLine(k) = k
      OBVIOUS
    <3>1. \A s \in isr : k < s
      <4> SUFFICES ASSUME NEW s \in isr, ~(k < s) PROVE FALSE OBVIOUS
      <4>1. s \in 0..l BY <2>3
      <4> QED BY <2>2, <4>1
    <3> QED BY <3>1 DEF MasterWants, Above, MasterLine, MasterLines, SlaveLines
  <2>5. \A k \in MasterWants : k \in irr \ imr \/ k = Cascade
    BY DEF MasterWants
  <2>6. \A k \in MasterWants : k \in Nat BY DEF MasterWants, MasterLines, Cascade
  <2>7. irr \subseteq Lines BY DEF Inv, TypeOK
  <2>8. CASE l = 0 \/ 0 \notin irr \ imr
    <3>1. \A k \in MasterWants : l <= k
      BY <2>5, <2>6, <2>8 DEF Cascade
    <3>2. Delivers(l) BY <2>4, <3>1 DEF Delivers, SlaveLines
    <3> QED BY <2>1, <3>2
  <2>9. CASE l # 0 /\ 0 \in irr \ imr
    <3>1. \A k \in MasterWants : 0 <= k BY <2>6
    <3>2. Delivers(0) BY <2>4, <2>9, <3>1 DEF Delivers, SlaveLines
    <3> QED BY <2>1, <2>7, <2>9, <3>2
  <2> QED BY <2>8, <2>9
<1> QED BY <1>1, <1>2, <1>3, InterruptInvariance, PTL DEF Spec

-----------------------------------------------------------------------------
(* The path of an interrupt implements LineService.                        *)
Shown(f) == [line |-> f.line, manager |-> f.manager, called |-> f.called]
Serving == {Shown(frames[n]) : n \in DOMAIN frames}
Open == isr \ {Cascade}

LEMMA ServingShown ==
    /\ frames = << >> => Serving = {}
    /\ \A f : frames = <<f>> => Serving = {Shown(f)}
<1>1. ASSUME frames = << >> PROVE Serving = {} BY <1>1 DEF Serving
<1>2. ASSUME NEW f, frames = <<f>> PROVE Serving = {Shown(f)}
  <2>1. DOMAIN frames = {1} /\ frames[1] = f BY <1>2
  <2> QED BY <2>1 DEF Serving
<1> QED BY <1>1, <1>2

(* The line of the frame in progress was not left in service before.       *)
NotLeft == frames # << >> => Running1.line \notin dropped

LEMMA TakenNotInService ==
    ASSUME Inv, NEW l \in Lines, Delivers(l)
    PROVE  l \notin isr
<1>1. l \in (0..15) \ {2} BY InterruptsAssumption
<1>2. CASE l \in SlaveLines
  <2>1. \A k \in isr \cap SlaveLines : l < k BY <1>2 DEF Delivers, SlaveWants, Above
  <2> QED BY <1>1, <1>2, <2>1
<1>3. CASE l \notin SlaveLines
  <2>1. l \in MasterLines /\ MasterLine(l) = l BY <1>1, <1>3, LineBits
  <2>2. \A k \in isr \cap MasterLines : l < k BY <2>1 DEF Delivers, MasterWants, Above
  <2> QED BY <1>1, <2>1, <2>2
<1> QED BY <1>2, <1>3

LEMMA NotLeftStays == ASSUME Inv, NotLeft, [Next]_vars PROVE NotLeft'
<1>1. ASSUME NEW l \in Lines, TakeInterrupt(l) PROVE NotLeft'
  <2>1. frames = << >> BY <1>1 DEF Inv, OneFrame, TakeInterrupt
  <2>2. Running1'.line = l /\ dropped' = dropped
    BY <1>1, <2>1 DEF TakeInterrupt, Running1
  <2>3. dropped = isr BY <2>1 DEF Inv, Accounts
  <2> QED BY <1>1, <2>2, <2>3, TakenNotInService DEF TakeInterrupt, NotLeft
<1>2. CASE Iret
  <2>1. frames # << >> BY <1>2 DEF Iret, Running
  <2>2. frames = <<Running1>> BY <2>1, FrameInProgress
  <2>3. frames' = << >>
    <3> HIDE DEF Running1
    <3> QED BY <1>2, <2>2 DEF Iret
  <2> QED BY <2>3 DEF NotLeft
<1>3. CASE CpuStep /\ ~Iret
  <2>1. PICK g : Goto(g) /\ g.line = Running1.line /\ frames # << >> /\ dropped' = dropped
    <3>1. frames # << >> BY <1>3 DEF CpuStep, StubStore, StubLoad, Dispatch, DispatchNowhere, MasterEoi, SlaveEoi, Running
    <3>2. Running1 \in Frame BY <3>1, FrameInProgress
    <3>3. CASE StubStore BY <3>1, <3>2, <3>3 DEF StubStore, Running1, Frame
    <3>4. CASE StubLoad BY <3>1, <3>2, <3>4 DEF StubLoad, Running1, Frame
    <3>5. CASE Dispatch BY <3>1, <3>2, <3>5 DEF Dispatch, Running1, Frame
    <3>6. CASE DispatchNowhere BY <3>1, <3>2, <3>6 DEF DispatchNowhere, Running1, Frame
    <3>7. CASE MasterEoi BY <3>1, <3>2, <3>7 DEF MasterEoi, Running1, Frame
    <3>8. CASE SlaveEoi BY <3>1, <3>2, <3>8 DEF SlaveEoi, Running1, Frame
    <3> QED BY <1>3, <3>3, <3>4, <3>5, <3>6, <3>7, <3>8 DEF CpuStep
  <2>2. frames = <<Running1>> BY <2>1, FrameInProgress
  <2>3. Running1' = g BY <2>1, <2>2 DEF Goto, Running1
  <2> QED BY <2>1, <2>3 DEF NotLeft
<1>4. CASE MainCall \/ MainContinues \/ UNCHANGED vars \/ \E l \in Lines : Raise(l)
  <2>1. frames' = frames /\ (dropped' = dropped \/ dropped' = {})
    BY <1>4 DEF MainCall, Construct, Activate, Deactivate, RequestIRQ, SetMask, MainContinues, Cli, Install, Sti,
                vars, Raise
  <2> QED BY <2>1 DEF NotLeft, Running1
<1> QED BY <1>1, <1>2, <1>3, <1>4 DEF Next

LEMMA GotoShows ==
    ASSUME Inv, frames # << >>, NEW g, Goto(g)
    PROVE  Serving = {Shown(Running1)} /\ Serving' = {Shown(g)} /\ Running1' = g /\ frames' # << >>
<1>1. frames = <<Running1>> BY FrameInProgress
<1>2. DOMAIN frames' = {1} /\ frames'[1] = g BY <1>1 DEF Goto
<1>3. Serving' = {Shown(g)} BY <1>2 DEF Serving, Shown
<1> QED BY <1>1, <1>2, <1>3, ServingShown DEF Running1

(* The stub's steps, and a dispatch that finds no manager, change nothing  *)
(* a driver relies on.                                                     *)
LEMMA StubIsStutter ==
    ASSUME Inv, StubStore \/ StubLoad \/ DispatchNowhere
    PROVE  UNCHANGED <<granted, Serving, Open>>
<1>1. frames # << >> /\ UNCHANGED <<granted, isr>>
  BY DEF StubStore, StubLoad, DispatchNowhere, Running, program, pic
<1>2. Running1 \in Frame BY <1>1, FrameInProgress
<1>3. PICK g : Goto(g) /\ g.line = Running1.line /\ g.manager = Running1.manager /\ g.called = Running1.called
  <2>1. CASE StubStore BY <1>2, <2>1 DEF StubStore, Running1, Frame
  <2>2. CASE StubLoad
    <3> DEFINE g == [Running1 EXCEPT !.at = "dispatch", !.number = interruptNumber]
    <3>1. Goto(g) BY <2>2 DEF StubLoad, Running1
    <3>2. g.line = Running1.line /\ g.manager = Running1.manager /\ g.called = Running1.called
      BY <1>2 DEF Frame
    <3> HIDE DEF g
    <3> QED BY <3>1, <3>2
  <2>3. CASE DispatchNowhere BY <1>2, <2>3 DEF DispatchNowhere, Running1, Frame
  <2> QED BY <2>1, <2>2, <2>3
<1>4. Shown(g) = Shown(Running1) BY <1>3 DEF Shown
<1>5. Serving' = Serving BY <1>1, <1>3, <1>4, GotoShows
<1> QED BY <1>1, <1>5 DEF Open

LEMMA DispatchHandsOver ==
    ASSUME Inv, Dispatch
    PROVE  Service!HandOver(Shown(Running1), activeManager) /\ activeManager \in Managers
<1> DEFINE l == Running1.line
           n == Running1.number
           h == handlers[activeManager][n - IRQ_OFFSET_X86_64]
           g == [Running1 EXCEPT !.manager = activeManager, !.called = h,
                                 !.at = IF IsHardware(n) THEN "eoi" ELSE "iret"]
<1>1. /\ frames # << >> /\ Running1.at = "dispatch" /\ Goto(g) /\ UNCHANGED <<granted, isr>>
      /\ activeManager # NoManager
  BY DEF Dispatch, Running, Running1, program, pic
<1>2. Running1 \in Frame /\ l \in Lines /\ l \in 0..15 /\ n = VectorOf(l) /\ Running1.manager = NoManager
  BY <1>1, FrameInProgress DEF Carries
<1>3. n - IRQ_OFFSET_X86_64 = l BY <1>2 DEF VectorOf, IRQ_OFFSET_X86_64
<1>4. activeManager \in Managers /\ h = handlers[activeManager][l] /\ h \in Handlers \cup {NoHandler}
  BY <1>1, <1>2, <1>3 DEF Inv, TypeOK
<1>5. Shown(g) = [line |-> Shown(Running1).line, manager |-> activeManager, called |-> h]
  <2>1. g.line = l /\ g.manager = activeManager /\ g.called = h
    <3> HIDE DEF h
    <3> QED BY <1>2 DEF Frame
  <2> HIDE DEF h, g
  <2> QED BY <2>1 DEF Shown
<1>6. IF Service!Owners(activeManager, l) = {} THEN h = NoHandler ELSE h \in Service!Owners(activeManager, l)
  <2>1. \A k \in Service!Owners(activeManager, l) : k = h
    <3> SUFFICES ASSUME NEW k \in Service!Owners(activeManager, l) PROVE k = h OBVIOUS
    <3> DEFINE t == <<activeManager, l, k>>
    <3>1. t \in granted BY DEF Service!Owners
    <3>2. handlers[t[1]][t[2]] = t[3] BY <3>1 DEF Inv, Grants
    <3> QED BY <1>4, <3>2
  <2>2. h # NoHandler => h \in Service!Owners(activeManager, l)
    <3>1. h # NoHandler => <<activeManager, l, h>> \in granted BY <1>2, <1>4 DEF Inv, Grants
    <3> HIDE DEF h
    <3> QED BY <1>4, <3>1 DEF Service!Owners
  <2> QED BY <2>1, <2>2
<1>7. Serving' = {Shown(g)} BY <1>1, GotoShows
<1>8. Shown(Running1).manager = NoManager /\ Shown(Running1).line = l BY <1>2 DEF Shown
<1> HIDE DEF h, g
<1> QED BY <1>1, <1>4, <1>5, <1>6, <1>7, <1>8 DEF Service!HandOver, Open, Serving, Shown

LEMMA EndsAcknowledge ==
    ASSUME Inv, Inv', NotLeft, MasterEoi \/ SlaveEoi
    PROVE  Service!Acknowledge(Shown(Running1)) \/ UNCHANGED <<granted, Serving, Open>>
<1> DEFINE l == Running1.line
<1>1. frames # << >> /\ Running1.at \in {"eoi", "slaveEoi"} /\ UNCHANGED <<granted, dropped>>
  BY DEF MasterEoi, SlaveEoi, Running, Running1, program
<1>2. /\ Running1 \in Frame /\ l \in Lines /\ l \in (0..15) \ {2} /\ Running1.manager # NoManager
      /\ isr = dropped \cup Owed(Running1) /\ l \notin dropped
      /\ Running1.at = "eoi" => Running1.number = VectorOf(l)
      /\ Running1.at = "slaveEoi" => l \in SlaveLines
  BY <1>1, FrameInProgress DEF Carries, NotLeft
<1>3. PICK g : /\ Goto(g) /\ g.line = l /\ g.manager = Running1.manager /\ g.called = Running1.called
               /\ \/ Running1.at = "eoi" /\ l \in SlaveLines /\ g.at = "slaveEoi"
                  \/ Running1.at = "eoi" /\ l \notin SlaveLines /\ g.at = "iret"
                  \/ Running1.at = "slaveEoi" /\ l \in SlaveLines /\ g.at = "iret"
  <2>1. CASE MasterEoi
    <3> DEFINE g == [Running1 EXCEPT !.at = IF FromSlave(Running1.number) THEN "slaveEoi" ELSE "iret"]
    <3>1. Goto(g) /\ Running1.at = "eoi" BY <2>1 DEF MasterEoi, Running, Running1
    <3>2. FromSlave(Running1.number) <=> l \in SlaveLines BY <1>2, <3>1, LineBits
    <3>3. g.line = l /\ g.manager = Running1.manager /\ g.called = Running1.called
          /\ g.at = IF FromSlave(Running1.number) THEN "slaveEoi" ELSE "iret"
      BY <1>2 DEF Frame
    <3> HIDE DEF g
    <3> QED BY <3>1, <3>2, <3>3
  <2>2. CASE SlaveEoi
    <3> DEFINE g == [Running1 EXCEPT !.at = "iret"]
    <3>1. Goto(g) /\ Running1.at = "slaveEoi" BY <2>2 DEF SlaveEoi, Running, Running1
    <3>2. g.line = l /\ g.manager = Running1.manager /\ g.called = Running1.called /\ g.at = "iret"
      BY <1>2 DEF Frame
    <3> HIDE DEF g
    <3> QED BY <1>2, <3>1, <3>2
  <2> QED BY <2>1, <2>2
<1>4. Serving = {Shown(Running1)} /\ Serving' = {Shown(g)} /\ Running1' = g /\ frames' # << >>
  BY <1>1, <1>3, GotoShows
<1>5. Shown(g) = Shown(Running1) BY <1>3 DEF Shown
<1>6. isr' = dropped \cup Owed(g)
  BY <1>1, <1>4 DEF Inv, Accounts, Owed, Unseen
<1>7. MasterLine(l) = IF l \in SlaveLines THEN Cascade ELSE l BY DEF MasterLine
<1>8. CASE Running1.at = "eoi" /\ l \in SlaveLines /\ g.at = "slaveEoi"
  <2>1. Owed(Running1) = {l, Cascade} /\ Owed(g) = {l} BY <1>3, <1>7, <1>8 DEF Owed, InServiceBits
  <2>2. Open' = Open BY <1>2, <1>6, <2>1 DEF Open
  <2> QED BY <1>1, <1>4, <1>5, <2>2
<1>9. CASE Running1.at \in {"eoi", "slaveEoi"} /\ g.at = "iret"
  <2>1. Owed(Running1) = {l} /\ Owed(g) = {}
    BY <1>2, <1>3, <1>7, <1>9 DEF Owed, InServiceBits, Unseen
  <2>2. Open' = Open \ {l} BY <1>2, <1>6, <2>1 DEF Open
  <2>3. Shown(Running1).manager # NoManager /\ Shown(Running1).line = l BY <1>2 DEF Shown
  <2> QED BY <1>1, <1>4, <1>5, <2>2, <2>3 DEF Service!Acknowledge, Open, Serving, Shown
<1> QED BY <1>1, <1>3, <1>8, <1>9

LEMMA TakeBegins ==
    ASSUME Inv, NEW l \in Lines, TakeInterrupt(l)
    PROVE  Service!Begin(l)
<1> DEFINE f == [line |-> l, number |-> 0, manager |-> NoManager, called |-> NoHandler,
                 at |-> IF l \in Stubbed THEN "stub" ELSE "iret"]
<1>1. /\ frames = << >> /\ frames' = <<f>> /\ UNCHANGED granted /\ Delivers(l)
      /\ isr' = isr \cup InServiceBits(l)
  BY DEF TakeInterrupt, Inv, OneFrame, program
<1>2. Serving = {} BY <1>1, ServingShown
<1>3. Shown(f) = [line |-> l, manager |-> NoManager, called |-> NoHandler] BY DEF Shown
<1>4. Serving' = {Shown(f)}
  <2> HIDE DEF f
  <2>1. DOMAIN frames' = {1} /\ frames'[1] = f BY <1>1
  <2> QED BY <2>1 DEF Serving, Shown
<1>5. l \notin isr BY <1>1, TakenNotInService
<1>6. InServiceBits(l) \ {Cascade} = {l}
  <2>1. l # Cascade /\ (MasterLine(l) = Cascade \/ MasterLine(l) = l)
    BY InterruptsAssumption DEF Cascade, MasterLine
  <2> QED BY <2>1 DEF InServiceBits
<1>7. Open' = Open \cup {l} /\ l \notin Open BY <1>1, <1>5, <1>6 DEF Open
<1> HIDE DEF f
<1> QED BY <1>1, <1>2, <1>3, <1>4, <1>7 DEF Service!Begin, Serving, Open, Shown

LEMMA IretEnds ==
    ASSUME Inv, NotLeft, Iret
    PROVE  Service!End(Shown(Running1)) /\ Serving = {Shown(Running1)}
<1>1. frames # << >> /\ Running1.at = "iret" /\ UNCHANGED <<granted, isr>>
  BY DEF Iret, Running, Running1, program, pic
<1>2. frames = <<Running1>> /\ isr = dropped \cup Owed(Running1) BY <1>1, FrameInProgress
<1>3. frames' = << >>
  <2> HIDE DEF Running1
  <2> QED BY <1>2 DEF Iret
<1>4. Serving = {Shown(Running1)} BY <1>2, ServingShown
<1>5. Serving' = {} BY <1>3 DEF Serving
<1>6. Running1.manager # NoManager => Running1.line \notin Open
  BY <1>1, <1>2 DEF Owed, Unseen, NotLeft, Open
<1>7. Shown(Running1).manager = Running1.manager /\ Shown(Running1).line = Running1.line BY DEF Shown
<1> QED BY <1>1, <1>4, <1>5, <1>6, <1>7 DEF Service!End, Open, Serving, Shown

LEMMA CallsServe ==
    ASSUME Inv, MainCall
    PROVE  \/ \E m \in Managers, l \in Lines, h \in Handlers : Service!Grant(m, l, h)
           \/ Service!Restart
           \/ UNCHANGED <<granted, Serving, Open>>
<1>1. frames = << >> /\ frames' = frames
  BY DEF MainCall, Calls, Construct, Activate, Deactivate, RequestIRQ, SetMask
<1>2. Serving = {} /\ Serving' = Serving BY <1>1, ServingShown DEF Serving, Shown
<1>3. ASSUME NEW m \in Managers, Construct(m) PROVE Service!Restart
  BY <1>2, <1>3 DEF Construct, Service!Restart, Serving, Shown, Open
<1>4. ASSUME NEW m \in Managers, Activate(m) \/ Deactivate(m) PROVE UNCHANGED <<granted, Serving, Open>>
  BY <1>2, <1>4 DEF Activate, Deactivate, Open, pic
<1>5. ASSUME NEW irq \in Lines, NEW enable \in BOOLEAN, SetMask(irq, enable)
      PROVE  UNCHANGED <<granted, Serving, Open>>
  BY <1>2, <1>5 DEF SetMask, Open
<1>6. ASSUME NEW irq \in Lines, NEW h \in Handlers, RequestIRQ(irq, h)
      PROVE  \E m \in Managers, l \in Lines, k \in Handlers : Service!Grant(m, l, k)
  <2>1. /\ activeManager \in Managers /\ handlers[activeManager][irq] = NoHandler
        /\ granted' = granted \cup {<<activeManager, irq, h>>} /\ UNCHANGED isr
    BY <1>6 DEF RequestIRQ, SlotFree, Inv, TypeOK, pic
  <2>2. Service!Owners(activeManager, irq) = {}
    <3> SUFFICES ASSUME NEW k \in Service!Owners(activeManager, irq) PROVE FALSE OBVIOUS
    <3> DEFINE t == <<activeManager, irq, k>>
    <3>1. t \in granted /\ k \in Handlers BY DEF Service!Owners
    <3>2. handlers[t[1]][t[2]] = t[3] BY <3>1 DEF Inv, Grants
    <3> QED BY <2>1, <3>1, <3>2, InterruptsAssumption
  <2>3. Service!Grant(activeManager, irq, h)
    BY <1>2, <2>1, <2>2 DEF Service!Grant, Serving, Shown, Open
  <2> QED BY <2>1, <2>3
<1> QED BY <1>3, <1>4, <1>5, <1>6 DEF MainCall

(* The whole path, from the controllers over the stubs and the one global  *)
(* byte to HandleInterrupt and back, implements LineService: one owner per *)
(* line, one interrupt at a time, each handed to its owner at most once    *)
(* and acknowledged, alone, before the stub returns.                       *)
THEOREM InterruptsImplementService == Spec => ImplementsService
<1>1. Init => Service!Init
  BY DEF Init, Service!Init, Cascade
<1>2. Init => NotLeft BY DEF Init, NotLeft
<1>3. Inv /\ NotLeft /\ [Next]_vars => NotLeft' BY NotLeftStays
<1>4. Inv /\ Inv' /\ NotLeft /\ [Next]_vars => [Service!Next]_<<granted, Serving, Open>>
  <2> SUFFICES ASSUME Inv, Inv', NotLeft, [Next]_vars
               PROVE  Service!Next \/ UNCHANGED <<granted, Serving, Open>>
    OBVIOUS
  <2>1. ASSUME NEW l \in Lines, TakeInterrupt(l) PROVE Service!Next
    BY <2>1, TakeBegins DEF Service!Next
  <2>2. CASE Dispatch
    <3>1. Shown(Running1) \in Serving
      <4>1. frames # << >> BY <2>2 DEF Dispatch, Running
      <4> QED BY <4>1, FrameInProgress, ServingShown
    <3>2. \E f \in Serving : \E m \in Managers : Service!HandOver(f, m)
      BY <2>2, <3>1, DispatchHandsOver DEF Service!HandOver
    <3> QED BY <3>2 DEF Service!Next, Serving, Shown
  <2>3. CASE MasterEoi \/ SlaveEoi
    <3>1. Shown(Running1) \in Serving
      <4>1. frames # << >> BY <2>3 DEF MasterEoi, SlaveEoi, Running
      <4> QED BY <4>1, FrameInProgress, ServingShown
    <3> QED BY <2>3, <3>1, EndsAcknowledge DEF Service!Next, Serving, Shown
  <2>4. CASE Iret
    <3>1. \E f \in Serving : Service!End(f) BY <2>4, IretEnds DEF Service!End
    <3> QED BY <3>1 DEF Service!Next, Serving, Shown
  <2>5. CASE StubStore \/ StubLoad \/ DispatchNowhere BY <2>5, StubIsStutter
  <2>6. CASE MainCall BY <2>6, CallsServe DEF Service!Next
  <2>7. CASE MainContinues \/ UNCHANGED vars \/ \E l \in Lines : Raise(l)
    BY <2>7 DEF MainContinues, Cli, Install, Sti, vars, program, pic, Raise, Serving, Shown, Open
  <2> QED BY <2>1, <2>2, <2>3, <2>4, <2>5, <2>6, <2>7 DEF Next, CpuStep
<1> QED BY <1>1, <1>2, <1>3, <1>4, InterruptInvariance, PTL DEF Spec, ImplementsService, Service!Spec,
        Service!vars, Serving, Shown, Open

=============================================================================
