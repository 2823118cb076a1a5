-------------------------------- MODULE Boot --------------------------------
(***************************************************************************)
(* kernelMain (kernel.cpp) from its first clear() to the while(1): the     *)
(* boot tags are parsed, the drivers registered, the PCI bus scanned, the  *)
(* drivers announced on the console and loaded, and the SVGA device looked *)
(* for and brought up.  From the moment the keyboard driver is loaded its  *)
(* interrupt may come at any step, and onKeyDown then moves the cursor.    *)
(*                                                                         *)
(* The heap, the pager, the interrupt manager and what a driver's Load     *)
(* does are in Heap, Paging, Interrupts and Ps2; the bring-up of a card    *)
(* that was found is in SvgaDevice, and only whether it ends matters here. *)
(***************************************************************************)
EXTENDS Console, Pci, Multiboot

CONSTANTS
    BootInfos,      \* what a boot loader may hand over
    Machines,       \* sets of PCI functions a machine may have
    Banner,         \* "Loading Driver: " as characters of Console
    DisplayName,    \* the name of each driver
    MaxKeys         \* bound: keys pressed

Wired == <<"keyboard", "mouse">>    \* the drivers kernelMain registers
Names == {"keyboard", "mouse"}

ASSUME BootAssumption ==
    /\ Banner \in Seq(Characters)
    /\ DisplayName \in [Names -> Seq(Characters)]
    /\ \A machine \in Machines : machine \subseteq Address
    /\ MaxKeys \in Nat

VARIABLES
    stage,          \* where kernelMain is
    drivers,        \* the array of DriverManager
    i, part,        \* LoadAll: the driver and the next of its calls
    loaded,         \* the drivers whose Load ran
    returns,        \* the card is one SVGA::Init must return from: see InitReturns
    keys            \* keys pressed so far

main == <<stage, drivers, i, part, loaded, returns>>
vars == <<console, pci, multiboot, main, keys>>

(* The statics of the console are zero, which its clear() repeats.         *)
Init ==
    /\ ConsoleInit /\ PciInit /\ MultibootInit
    /\ info \in BootInfos /\ answers \in Machines
    /\ stage = "parse"
    /\ drivers = <<>> /\ i = 1 /\ part = 1 /\ loaded = <<>>
    /\ returns \in BOOLEAN
    /\ keys = 0

-----------------------------------------------------------------------------
Parse ==
    /\ stage = "parse"
    /\ \/ ParseTag /\ UNCHANGED stage
       \/ ~Parsing /\ stage' = "register" /\ UNCHANGED multiboot
    /\ UNCHANGED <<console, pci, drivers, i, part, loaded, returns, keys>>

RegisterDriver(driver) == drivers' = Append(drivers, driver)

RegisterDrivers ==
    /\ stage = "register"
    /\ RegisterDriver(Wired[Len(drivers) + 1])
    /\ stage' = IF drivers' = Wired THEN "scan" ELSE "register"
    /\ UNCHANGED <<console, pci, multiboot, i, part, loaded, returns, keys>>

ScanBus ==
    /\ stage = "scan"
    /\ Scan
    /\ stage' = IF scanning' = "done" THEN "load" ELSE "scan"
    /\ UNCHANGED <<console, multiboot, drivers, i, part, loaded, returns, keys>>

-----------------------------------------------------------------------------
(* LoadAll: three calls of printf, then the driver's Load.                 *)

(* Mutation: the last driver is forgotten.                                 *)
BeforeLast(n) == n < Len(drivers)

MoreDrivers(n) == n <= Len(drivers)

Announcement(driver) == <<Banner, DisplayName[driver], <<"newline">>>>

Announce ==
    /\ stage = "load" /\ MoreDrivers(i) /\ part <= 3
    /\ Printf(Announcement(drivers[i])[part])
    /\ part' = part + 1
    /\ UNCHANGED <<pci, multiboot, stage, drivers, i, loaded, returns, keys>>

LoadDriver ==
    /\ stage = "load" /\ part > 3 /\ at = "idle"
    /\ loaded' = Append(loaded, drivers[i])
    /\ i' = i + 1 /\ part' = 1
    /\ UNCHANGED <<console, pci, multiboot, stage, drivers, returns, keys>>

AllLoaded ==
    /\ stage = "load" /\ part = 1 /\ ~MoreDrivers(i)
    /\ stage' = "svga"
    /\ UNCHANGED <<console, pci, multiboot, drivers, i, part, loaded, returns, keys>>

Printing == PrintStep /\ UNCHANGED <<pci, multiboot, main, keys>>

(* SVGA::Init starts with FindDevice; without the device it returns.       *)
SvgaInit ==
    /\ stage = "svga"
    /\ FindDevice
    /\ stage' = IF found' = {} THEN "spin" ELSE "bringUp"
    /\ UNCHANGED <<console, multiboot, drivers, i, part, loaded, returns, keys>>

(* The rest of SVGA::Init, Enable with its polling loop and its WaitForIRQ *)
(* included, runs while the stage stays as it is.  It may never return: a  *)
(* card with interrupts is waited for, a FIFO that was not mapped faults.  *)
SvgaReturns ==
    /\ stage = "bringUp"
    /\ stage' = "spin"
    /\ UNCHANGED <<console, pci, multiboot, drivers, i, part, loaded, returns, keys>>

Key ==
    /\ keys < MaxKeys
    /\ \E n \in 1..Len(loaded) : loaded[n] = "keyboard"
    /\ KeyDown
    /\ keys' = keys + 1
    /\ UNCHANGED <<pci, multiboot, main>>

KernelMain ==
    \/ Parse \/ RegisterDrivers \/ ScanBus
    \/ Announce \/ Printing \/ LoadDriver \/ AllLoaded \/ SvgaInit

Next == KernelMain \/ SvgaReturns \/ Key

(* Interrupts return, so the main program goes on, and comes back from a   *)
(* card whose bring-up ends.                                               *)
Spec ==
    /\ Init /\ [][Next]_vars
    /\ WF_vars(KernelMain) /\ WF_vars(returns /\ SvgaReturns)

-----------------------------------------------------------------------------
(* Types, and the bounds the code must keep: a cursor that is at most one  *)
(* past an edge and at most MAX_DEVICES entries in ScanBus's array.        *)
TypeOK ==
    /\ ConsoleTypeOK /\ PciTypeOK
    /\ stage \in {"parse", "register", "scan", "load", "svga", "bringUp", "spin"}
    /\ \A s \in {drivers, loaded} : s \in Seq(Names)
    /\ i \in 1..Len(Wired) + 1 /\ part \in 1..4
    /\ returns \in BOOLEAN
    /\ keys \in 0..MaxKeys

Booted ==
    /\ loaded = Wired
    /\ Cardinality(found) = IF \E n \in 1..Len(devices) : devices[n] \in Wanted
                            THEN 1 ELSE 0

(* Whatever the boot loader left, the bus holds and the user types during  *)
(* LoadAll, kernelMain gets through it with both drivers loaded and finds  *)
(* the SVGA device if and only if the scan listed it.  It ends in its last *)
(* loop, or in SVGA::Init with a card that need not let it go on.          *)
Settled == stage = "spin" \/ (stage = "bringUp" /\ ~returns)
BootFinishes == <>[](Settled /\ Booted)

(* Its safety half, where kernelMain ends or may end.                      *)
BootEndsRight == stage \in {"bringUp", "spin"} => Booted

Stages == <<"parse", "register", "scan", "load", "svga", "bringUp", "spin">>
Points == <<"character", "loadX", "storeX", "wrap", "loadY", "storeY",
            "bottom", "clearY", "clearX", "idle">>
Later(order, from, to) ==
    \E m, n \in 1..Len(order) : m < n /\ order[m] = from /\ order[n] = to

(* The next tag, driver or address, call, character or step of printing one. *)
Forward ==
    \/ Later(Stages, stage, stage')
    \/ /\ stage' = stage
       /\ \/ stage = "parse" /\ pointer < info.size /\ pointer < pointer'
          \/ stage = "register" /\ Len(drivers) < Len(drivers') /\ Len(drivers') <= Len(Wired)
          \/ stage = "scan" /\ Before(<<slot, function>>, <<slot', function'>>)
                            /\ slot' <= Slots /\ function' <= Functions
          \/ stage = "load" /\ Before(<<i, part>>, <<i', part'>>) /\ i' <= Len(Wired) + 1 /\ part' <= 4
          \/ /\ stage = "load" /\ UNCHANGED <<i, part>>
             /\ \/ Len(text') < Len(text)
                \/ text' = text /\ Later(Points, at, at')

(* And its other part, on the way: every step of kernelMain goes forward,  *)
(* in an order with no endless way up, and a key that comes in between sets *)
(* nothing of it back.  (Of SVGA::Init only the return is such a step: the  *)
(* polling and waiting before it may be endless.)                          *)
BootAdvances ==
    [][Forward \/ (Key /\ UNCHANGED <<pci, multiboot, main, text, at, r>>)]_vars
=============================================================================
