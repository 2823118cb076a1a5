----------------------------- MODULE Interrupts -----------------------------
(***************************************************************************)
(* The interrupt path of the kernel: InterruptManager (the active manager, *)
(* its handler table, RequestIRQ and SetMask), the assembly stubs that     *)
(* hand an interrupt to it through one global byte, and the acknowledgement*)
(* of the two cascaded 8259 controllers.  One CPU runs the main program    *)
(* and, on top of it, the frames of the interrupts it has taken.           *)
(***************************************************************************)
EXTENDS Naturals, Sequences, FiniteSets

CONSTANTS Managers, NoManager,  \* InterruptManager objects, nullptr
          Handlers, NoHandler,  \* InterruptHandler objects, nullptr
          Lines,                \* the lines on which the devices interrupt
          MaxRaises,            \* bound: interrupts each device raises
          MaxCalls              \* bound: calls the main program makes

ASSUME InterruptsAssumption ==
    /\ NoManager \notin Managers /\ NoHandler \notin Handlers
    /\ Lines \subseteq (0..15) \ {2}        \* line 2 is the cascade
    /\ MaxRaises \in Nat /\ MaxCalls \in Nat

IRQ_OFFSET_X86_64 == 32
Cascade == 2
MasterLines == 0..7
SlaveLines == 8..15
Stubbed == {0, 1, 12}           \* the lines whose vector leads to a stub

VARIABLES
    constructed,      \* the managers that exist
    activeManager,
    handlers,         \* per manager and line
    irr, isr, imr,    \* the controllers' request, in-service and mask registers
    enabled,          \* the CPU's interrupt flag
    interruptNumber,  \* the global byte of interruptstubs.S
    frames,           \* the interrupts in progress, the running one first
    main,             \* what is left of the call the main program is in
    granted,          \* history: the requests RequestIRQ answered IRQ_OK
    dropped,          \* history: in-service bits nobody will release
    raises, calls     \* the bounds' counters

pic == <<irr, isr, imr>>
program == <<constructed, activeManager, handlers, main, granted, calls>>
vars == <<program, pic, enabled, interruptNumber, frames, dropped, raises>>

Idle == [at |-> "idle", next |-> NoManager]

Init ==
    /\ constructed = {} /\ activeManager = NoManager
    /\ handlers = [m \in Managers |-> [l \in 0..15 |-> NoHandler]]
    /\ irr = {} /\ isr = {} /\ imr = {}
    /\ enabled = FALSE /\ interruptNumber = 0 /\ frames = <<>>
    /\ main = Idle /\ granted = {} /\ dropped = {}
    /\ raises = [l \in Lines |-> 0] /\ calls = 0

-----------------------------------------------------------------------------
(* The 8259 pair: fully nested, the lower line first, edge triggered.      *)

Above(l, inService) == \A s \in inService : l < s

SlaveWants == {l \in (irr \ imr) \cap SlaveLines : Above(l, isr \cap SlaveLines)}

MasterWants ==
    {l \in (((irr \cap MasterLines) \cup {c \in {Cascade} : SlaveWants # {}}) \ imr) :
        Above(l, isr \cap MasterLines)}

MasterLine(l) == IF l \in SlaveLines THEN Cascade ELSE l
InServiceBits(l) == {l, MasterLine(l)}

Delivers(l) ==
    /\ MasterLine(l) \in MasterWants
    /\ \A k \in MasterWants : MasterLine(l) <= k
    /\ l \in SlaveLines => l \in SlaveWants /\ \A k \in SlaveWants : l <= k

(* The non-specific end of interrupt: the highest line in service.         *)
EndOfInterrupt(chip) ==
    isr' = isr \ {l \in isr \cap chip : \A k \in isr \cap chip : l <= k}

Raise(l) ==
    /\ constructed # {} /\ raises[l] < MaxRaises
    /\ irr' = irr \cup {l}
    /\ raises' = [raises EXCEPT ![l] = @ + 1]
    /\ UNCHANGED <<program, isr, imr, enabled, interruptNumber, frames, dropped>>

-----------------------------------------------------------------------------
(* An interrupt: the gate, the stub, HandleInterrupt, the return.          *)

(* Mutation: a trap gate, which leaves the interrupt flag alone.           *)
TrapGate == enabled

(* IDT_INTERRUPT_GATE clears the interrupt flag.                           *)
FlagInHandler == FALSE

TakeInterrupt(l) ==
    /\ enabled /\ Delivers(l)
    /\ irr' = irr \ {l}
    /\ isr' = isr \cup InServiceBits(l)
    /\ frames' = <<[line |-> l, number |-> 0, manager |-> NoManager,
                    called |-> NoHandler,
                    at |-> IF l \in Stubbed THEN "stub" ELSE "iret"]>> \o frames
    /\ enabled' = FlagInHandler
    /\ UNCHANGED <<program, imr, interruptNumber, dropped, raises>>

Running(at) == frames # <<>> /\ frames[1].at = at
Goto(f) == frames' = [frames EXCEPT ![1] = f]

(* Mutation: the vectors the BIOS leaves behind.                           *)
BiosVectorOf(l) == l + 8

VectorOf(l) == l + IRQ_OFFSET_X86_64

(* HandleInterruptRequest<n>: the number of this interrupt.                *)
StubStore ==
    /\ Running("stub")
    /\ interruptNumber' = VectorOf(frames[1].line)
    /\ Goto([frames[1] EXCEPT !.at = "load"])
    /\ UNCHANGED <<program, pic, enabled, dropped, raises>>

(* int_routine: pass it to HandleInterrupt.                                *)
StubLoad ==
    /\ Running("load")
    /\ Goto([frames[1] EXCEPT !.at = "dispatch", !.number = interruptNumber])
    /\ UNCHANGED <<program, pic, enabled, interruptNumber, dropped, raises>>

(* Mutation: the first hardware lines are taken for exceptions.            *)
AboveOffset(number) ==
    number > IRQ_OFFSET_X86_64 + 1 /\ number < IRQ_OFFSET_X86_64 + 16

IsHardware(number) ==
    number >= IRQ_OFFSET_X86_64 /\ number < IRQ_OFFSET_X86_64 + 16

(* HandleInterrupt with an active manager: the handler of the line runs.   *)
Dispatch ==
    /\ Running("dispatch") /\ activeManager # NoManager
    /\ LET n == frames[1].number IN
       Goto([frames[1] EXCEPT !.manager = activeManager,
                              !.called = handlers[activeManager][n - IRQ_OFFSET_X86_64],
                              !.at = IF IsHardware(n) THEN "eoi" ELSE "iret"])
    /\ UNCHANGED <<program, pic, enabled, interruptNumber, dropped, raises>>

DispatchNowhere ==
    /\ Running("dispatch") /\ activeManager = NoManager
    /\ Goto([frames[1] EXCEPT !.at = "iret"])
    /\ UNCHANGED <<program, pic, enabled, interruptNumber, dropped, raises>>

(* Mutation: the slave's offset is added twice.                            *)
FromShiftedSlave(number) == IRQ_OFFSET_X86_64 + 16 <= number

FromSlave(number) == IRQ_OFFSET_X86_64 + 8 <= number

MasterEoi ==
    /\ Running("eoi")
    /\ EndOfInterrupt(MasterLines)
    /\ Goto([frames[1] EXCEPT
                !.at = IF FromSlave(frames[1].number) THEN "slaveEoi" ELSE "iret"])
    /\ UNCHANGED <<program, irr, imr, enabled, interruptNumber, dropped, raises>>

SlaveEoi ==
    /\ Running("slaveEoi")
    /\ EndOfInterrupt(SlaveLines)
    /\ Goto([frames[1] EXCEPT !.at = "iret"])
    /\ UNCHANGED <<program, irr, imr, enabled, interruptNumber, dropped, raises>>

(* No manager saw the interrupt: no stub (IgnoreInterrupt), or none active. *)
Unseen(f) == f.manager = NoManager

Iret ==
    /\ Running("iret")
    /\ frames' = Tail(frames)
    /\ enabled' = TRUE          \* the flags of the code that was interrupted
    /\ dropped' = IF Unseen(frames[1])
                  THEN dropped \cup InServiceBits(frames[1].line) ELSE dropped
    /\ UNCHANGED <<program, pic, interruptNumber, raises>>

CpuStep ==
    \/ StubStore \/ StubLoad \/ Dispatch \/ DispatchNowhere
    \/ MasterEoi \/ SlaveEoi \/ Iret

-----------------------------------------------------------------------------
(* The main program, between interrupts.                                   *)

Calls ==
    /\ frames = <<>> /\ main = Idle /\ calls < MaxCalls
    /\ calls' = calls + 1

(* The constructor also restarts and unmasks both controllers.             *)
Construct(m) ==
    /\ Calls /\ m \notin constructed
    /\ constructed' = constructed \cup {m}
    /\ handlers' = [handlers EXCEPT ![m] = [l \in 0..15 |-> NoHandler]]
    /\ irr' = {} /\ isr' = {} /\ imr' = {} /\ dropped' = {}
    /\ UNCHANGED <<activeManager, main, granted, enabled, interruptNumber, frames, raises>>

(* Activate starts with the Deactivate of the manager that is active.      *)
Activate(m) ==
    /\ Calls /\ m \in constructed
    /\ IF activeManager = NoManager
       THEN activeManager' = m /\ main' = [at |-> "sti", next |-> NoManager]
       ELSE activeManager' = NoManager /\ main' = [at |-> "cli", next |-> m]
    /\ UNCHANGED <<constructed, handlers, granted, pic, enabled, interruptNumber,
                   frames, dropped, raises>>

Deactivate(m) ==
    /\ Calls /\ m \in constructed /\ activeManager = m
    /\ activeManager' = NoManager
    /\ main' = [at |-> "cli", next |-> NoManager]
    /\ UNCHANGED <<constructed, handlers, granted, pic, enabled, interruptNumber,
                   frames, dropped, raises>>

Cli ==
    /\ frames = <<>> /\ main.at = "cli"
    /\ enabled' = FALSE
    /\ main' = IF main.next = NoManager THEN Idle ELSE [main EXCEPT !.at = "install"]
    /\ UNCHANGED <<constructed, activeManager, handlers, granted, calls, pic,
                   interruptNumber, frames, dropped, raises>>

Install ==
    /\ frames = <<>> /\ main.at = "install"
    /\ activeManager' = main.next
    /\ main' = [at |-> "sti", next |-> NoManager]
    /\ UNCHANGED <<constructed, handlers, granted, calls, pic, enabled,
                   interruptNumber, frames, dropped, raises>>

Sti ==
    /\ frames = <<>> /\ main.at = "sti"
    /\ enabled' = TRUE
    /\ main' = Idle
    /\ UNCHANGED <<constructed, activeManager, handlers, granted, calls, pic,
                   interruptNumber, frames, dropped, raises>>

(* Mutation: the last request wins.                                        *)
AnySlot(m, irq) == m \in Managers

SlotFree(m, irq) == handlers[m][irq] = NoHandler

(* RequestIRQ where AssignIRQ answers IRQ_OK; the other answers change nothing. *)
RequestIRQ(irq, h) ==
    /\ Calls /\ activeManager # NoManager
    /\ SlotFree(activeManager, irq)
    /\ handlers' = [handlers EXCEPT ![activeManager][irq] = h]
    /\ granted' = granted \cup {<<activeManager, irq, h>>}
    /\ UNCHANGED <<constructed, activeManager, main, pic, enabled, interruptNumber,
                   frames, dropped, raises>>

SetMask(irq, enable) ==
    /\ Calls /\ constructed # {}
    /\ imr' = IF enable THEN imr \ {irq} ELSE imr \cup {irq}
    /\ UNCHANGED <<constructed, activeManager, handlers, main, granted, irr, isr,
                   enabled, interruptNumber, frames, dropped, raises>>

MainCall ==
    \/ \E m \in Managers : Construct(m) \/ Activate(m) \/ Deactivate(m)
    \/ \E irq \in Lines, h \in Handlers : RequestIRQ(irq, h)
    \/ \E irq \in Lines, enable \in BOOLEAN : SetMask(irq, enable)

MainContinues == Cli \/ Install \/ Sti

Next ==
    \/ \E l \in Lines : Raise(l) \/ TakeInterrupt(l)
    \/ CpuStep
    \/ MainCall
    \/ MainContinues

Spec == Init /\ [][Next]_vars

(* The CPU executes its instructions and takes the interrupts that reach it. *)
FairSpec ==
    /\ Spec
    /\ WF_vars(CpuStep) /\ WF_vars(MainContinues)
    /\ WF_vars(\E l \in Lines : TakeInterrupt(l))

-----------------------------------------------------------------------------
(* Properties.                                                             *)

Frame == [line : Lines, number : {0} \cup 32..47, manager : Managers \cup {NoManager},
          called : Handlers \cup {NoHandler},
          at : {"stub", "load", "dispatch", "eoi", "slaveEoi", "iret"}]

(* Every variable has its type; an interrupt is handled under a number in the *)
(* sixteen vectors the controllers were moved to.                          *)
TypeOK ==
    /\ constructed \subseteq Managers
    /\ activeManager \in constructed \cup {NoManager}
    /\ handlers \in [Managers -> [0..15 -> Handlers \cup {NoHandler}]]
    /\ irr \subseteq Lines /\ imr \subseteq Lines
    /\ isr \subseteq Lines \cup {Cascade} /\ dropped \subseteq Lines \cup {Cascade}
    /\ enabled \in BOOLEAN
    /\ interruptNumber \in {0} \cup 32..47
    /\ frames \in Seq(Frame)
    /\ main \in [at : {"idle", "cli", "install", "sti"}, next : Managers \cup {NoManager}]
    /\ granted \subseteq Managers \X Lines \X Handlers
    /\ raises \in [Lines -> 0..MaxRaises] /\ calls \in 0..MaxCalls

(* The stubs hand the interrupt number over in one global byte: no interrupt *)
(* is ever handled under the number of another one.                        *)
NumberMatchesLine ==
    \A i \in DOMAIN frames :
        frames[i].at \in {"dispatch", "eoi", "slaveEoi"} =>
            frames[i].number = VectorOf(frames[i].line)

(* What a driver may rely on: RequestIRQ grants a line once, whatever is   *)
(* requested later, and HandleInterrupt calls its owner at most once for   *)
(* each of its interrupts, one interrupt at a time, and acknowledges that  *)
(* line and no other before it returns.                                    *)
Service == INSTANCE LineService WITH
    serving <- {[line |-> frames[n].line, manager |-> frames[n].manager, called |-> frames[n].called] :
                    n \in DOMAIN frames},
    open <- isr \ {Cascade}
ImplementsService == Service!Spec

(* The bits an interrupt in progress still has to release.                 *)
Owed(f) ==
    CASE f.at = "slaveEoi" -> {f.line}
      [] f.at = "iret" /\ ~Unseen(f) -> {}
      [] OTHER -> InServiceBits(f.line)

(* The in-service registers hold exactly what the interrupts in progress have *)
(* still to release, and what returned without a manager: an end of interrupt *)
(* never releases another line, and a manager never leaves its own in service. *)
InServiceAccounts ==
    isr = dropped \cup UNION {Owed(frames[i]) : i \in DOMAIN frames}

(* The timer and the keyboard outrank everything the kernel leaves in service: *)
(* a request of theirs is taken, unless it is masked, no manager is active, or *)
(* one of them was itself left in service.                                 *)
TopLinesServed ==
    \A l \in Lines \cap {0, 1} :
        l \in irr ~> \/ l \notin irr \/ l \in imr
                     \/ activeManager = NoManager
                     \/ dropped \cap 0..l # {}

(* "Acknowledge hardware interrupts" (interrupts.cpp:199): once the interrupts *)
(* that were taken with a manager active have returned, none is in service. *)
AllAcknowledged ==
    frames = <<>> /\ activeManager # NoManager => isr = {}

(* The bits the lines without a stub put in service.                       *)
StublessBits == UNION {InServiceBits(l) : l \in Lines \ Stubbed}

(* kernelMain activates one manager and keeps it (kernel.cpp:39).          *)
KeepsManager == [][activeManager # NoManager => activeManager' = activeManager]_vars

(* Under such a manager the lines without a stub are the only ones left in *)
(* service: all other causes of AllAcknowledged's failure are handovers.   *)
OnlyStublessLeft == frames = <<>> => isr \subseteq StublessBits

(* A line left in service keeps itself and every lower line from the CPU.  *)
LeftInServiceBlocks ==
    \A d \in dropped \cap MasterLines, l \in Lines : d <= MasterLine(l) => ~Delivers(l)

(* What TopLinesServed rests on: between calls and interrupts, the request *)
(* of one of the two top lines that nothing left in service blocks finds   *)
(* the CPU ready for it, or for a line that outranks it.                   *)
TopLinesDeliverable ==
    \A l \in Lines \cap {0, 1} :
        /\ activeManager # NoManager /\ main = Idle /\ frames = <<>>
        /\ l \in irr \ imr /\ dropped \cap 0..l = {}
        => enabled /\ \E k \in Lines \cap 0..l : Delivers(k)
=============================================================================
